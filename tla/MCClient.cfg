SPECIFICATION SuiteSpec
CONSTANTS
    Sessions = {a1}
    Tasks = {o1, o2, o3}
    Loads = {r1, r2}
    Null = Null
    MaxChanges = 2
    Cleanup = Cleanup
    None = None
    Ops = {o1, o2, o3}
    Terminals = {t1, t2}
    BrowserSockets = {o1, o2, o3}
    NoSocket = NoSocket
    RetrySteps = 2
    MaxIds = 2
    MaxEpochs = 3
    MaxBufferedBytes = 5
    Sizes = {1, 2}
    Listeners = 5
    MaxChunks = 5
SYMMETRY Alike
INVARIANTS NoSocketLeaks AuthorityIsShown
PROPERTIES  HaltIsObeyed SupersededIsIgnored ViewIsKept
