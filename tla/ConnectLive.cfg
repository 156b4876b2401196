SPECIFICATION FairSpec
CONSTANTS
    s1 = s1
    s2 = s2
    s3 = s3
    c1 = c1
    c2 = c2
    Conns = {c1, c2}
    Servers = {s1, s2, s3}
    InitialList <- OneServer
    RedirectLists = {}
    MaxHops = 0
    MaxVersion = 2
    FastOptions = {TRUE}
    Losses = {"eof"}
PROPERTIES
    OpenEnds
CHECK_DEADLOCK FALSE
