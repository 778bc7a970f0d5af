\* One tab, three requests of any kind.
CONSTANTS
    Tabs = {t1}
    Requests = {r1, r2, r3}
    NoRequest = NoRequest
SPECIFICATION MCSpec
SYMMETRY Symmetry
INVARIANTS
    IInv
    OneBridgePerTab
    LiveBridgeIsRegistered
    StoppedTabHasNoBridge
    AttachWithinLife
    RemovedTabLeavesNothing
PROPERTIES
    ActiveShellNeverKilled
    TerminateSucceedsWhenStopped
