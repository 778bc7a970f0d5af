SPECIFICATION SuiteSpec
CONSTANTS
    t1 = t1
    t2 = t2
    Unavailable = Unavailable
    NoState = NoState
    x1 = x1
    x2 = x2
    y = y
    z = z
    s1 = s1
    s2 = s2
    s3 = s3
    a1 = a1
    Settings = {1}
    MaxSessions = 1
    StartTime = 1
    MaxNow = 2
    MaxOpens = 2
    MaxMarks = 2
    MaxRevision = 2
    MaxRuns = 1
    TabOrder <- OneTab
    Addresses = {x1, x2, y, z}
    Keys = {x1, y, z}
    Key <- KeyOf
    Whole = 2
    GlobalCapacity = 5
    GlobalRefill = 1
    AddressCapacity = 4
    AddressRefill = 1
    MaxAddresses = 2
    MaxTime = 3
    MaxSequence = 9
    Sockets = {s1, s2, s3}
    AppSessions = {a1}
    SocketTabs = {t1, t2}
    Stubborn = {s3}
    Mortal = {}
    MaxSockets = 3
    MaxAppSessions = 1
    MaxGenerations = 1
    Ids = {e1, e2, e3}
    Readers = {q1, q2}
    Capacity = 2
    RowCapacity = 2
    MaxReads = 2
    MaxActions = 2
SYMMETRY Alike
INVARIANTS AttemptsAreBounded SlotsAreAccounted
PROPERTIES StopsOnlyForgotten IndexTellsTheTruth
CHECK_DEADLOCK FALSE
