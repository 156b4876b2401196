SPECIFICATION Spec
CONSTANTS
    s1 = s1
    s2 = s2
    s3 = s3
    c1 = c1
    c2 = c2
    Conns = {c1, c2}
    Servers = {s1, s2, s3}
    InitialList <- TwoServers
    RedirectLists <- Redirects
    MaxHops = 1
    MaxVersion = 2
    FastOptions = {TRUE, FALSE}
    Losses = {"rst"}
INVARIANTS
    TypeOK
    EveryServerTried
    NewCookieOnly
    NoStraySocket
SYMMETRY Symmetry
CHECK_DEADLOCK FALSE
