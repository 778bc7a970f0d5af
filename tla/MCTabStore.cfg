CONSTANTS
    a = a
    b = b
    x = x
    n = n
    m = m
    Ids <- MCIds
    Names <- MCNames
    MaxCount = 2
    Calls = {c1, c2, c3}
    Operations <- MCOperations
    InitialDocuments <- MCInitialDocuments
    DirectorySync = TRUE
    None = None
    Torn = Torn
    TabRequests = {r1, r2}
    NoTab = None
    InitialTabs <- MCInitialTabs
    MaxTabChanges = 2
    MaxHides = 1
SYMMETRY Symmetry
SPECIFICATION SuiteSpec
INVARIANTS StoreIsHonest TabsAreKept
PROPERTIES DurableSpec
