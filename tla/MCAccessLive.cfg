SPECIFICATION FairSpec
CONSTANTS
    r1 = r1
    r2 = r2
    r3 = r3
    p1 = p1
    p2 = p2
    a1 = a1
    a2 = a2
    b1 = b1
    s1 = s1
    s2 = s2
    t1 = t1
    t2 = t2
    NoPassword = NoPassword
    NoExpiry = NoExpiry
    NoId = NoId
    Unavailable = Unavailable
    NoState = NoState
    Settings = {0, 1, Unavailable}
    MaxSessions = 1
    StartTime = 2
    MaxNow = 2
    MaxOpens = 0
    MaxMarks = 0
    MaxRevision = 1
    MaxRuns = 2
    TabOrder <- TwoTabs
 
PROPERTIES RequestsSettle
CHECK_DEADLOCK FALSE
