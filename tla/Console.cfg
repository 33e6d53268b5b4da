SPECIFICATION Spec
CONSTANTS
    Names = {"n1", "n2"}
    DashNodes = {"local", "far"}
    Local = "local"
    DashCards <- MCCards
    Queries = {{"n1", "n2"}, {"n1"}}
    MaxFlights = 1
    PanelNames = {"n1", "n2"}
    Reports = {"ok", "none"}
    UserIds = {"u1", "u2"}
    Nobody = "nobody"
    MaxUserReqs = 2
    MaxLoads = 2
    MayFail = TRUE
    MaxChanges = 3
    MaxAnswers = 2
    Values = {"v1", "v2"}
    NodeIds = {"a", "b"}
    NoNode = "none"
    MaxFetches = 2
    MaxAsks = 2
    Insts = {"i1", "i2"}
    Conns = {"c1", "c2"}
    Accts = {"a1"}
    NoRow = "none"
    MaxShepherdAsks = 2
    Urls = {"u1", "u2"}
    Targets = {"t1", "t2"}
    Own = "own"
    MaxBackendAsks = 2
    Uins = {1, 2}
    MaxNetAsks = 2
    FileNames = {"f", "g"}
    MaxFilesAsks = 3
INVARIANTS TypeOK SentAsMeant QuietInStep NothingLeftRunning DoneIsDone
PROPERTIES ShownOfOwner OnlyEdited
CHECK_DEADLOCK FALSE
