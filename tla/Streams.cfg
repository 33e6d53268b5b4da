SPECIFICATION EndSpec
CONSTANTS
    c1 = c1
    c2 = c2
    c3 = c3
    c4 = c4
    i1 = i1
    i2 = i2
    Conns = {c1, c2, c3, c4}
    Public = {c1, c2, c3}
    Ips = {i1, i2}
    Ip <- MCIp
    MaxPublic = 2
    MaxPerIp = 2
    Subs = {s1, s2}
    Cap = 2
    MaxMsgs = 3
    Socks = {s1, s2}
    Paths = {p1, p2}
    NoSock = NoSock
    Names = {a}
    QrStates = {"ok", "waiting"}
    PageSize = 1
    Pages = {0, 1, 2}
    MaxChan = 1
    Patches = TRUE
    PanelNames = {"n1"}
    PanelReports = {"ok", "none"}
    MaxLoads = 2
    MayFail = TRUE
    MaxChanges = 3
    MaxAnswers = 2
INVARIANTS TypeOK CountersExact ConnectionsExact InOrderOnce NothingSkipped OneLink
PROPERTIES WaitersHear ImplementsLink Converges WaitingEnds
CHECK_DEADLOCK FALSE
