SPECIFICATION TabsSpec
CONSTANTS
    a = a
    b = b
    c3 = c3
    Ids = {a, b, c3}
    Names = {x}
    MaxCount = 3
    TabRequests = {r1, r2}
    NoTab = NoTab
    InitialTabs <- TwoTabs
    MaxTabChanges = 1
    MaxHides = 0
INVARIANTS TabsShownOnce
