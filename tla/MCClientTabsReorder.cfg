SPECIFICATION TabsSpec
CONSTANTS
    a = a
    b = b
    c3 = c3
    Ids = {a, b}
    Names = {x}
    MaxCount = 3
    TabRequests = {r1, r2}
    NoTab = NoTab
    InitialTabs <- TwoTabs
    MaxTabChanges = 3
    MaxHides = 0
PROPERTIES NoBlindReorder
