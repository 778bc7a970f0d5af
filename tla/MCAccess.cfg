SPECIFICATION SuiteSpec
CONSTANTS
    NoPassword = NoPassword
    NoExpiry = NoExpiry
    NoId = NoId
    Mode = "local"
    Requests = {r1, r2, r3}
    Ids = {a1, a2, a3}
    Browsers = {b1, b2}
    Passwords = {u1, u2}
    MaxSessions = 2
    MaxPending = 2
    Idle = 1
    Absolute = 1
    MaxNow = 1
    MaxCsrf = 0
    Messages = {r1, r2, r3}
    SessionIds = {a1, a2, a3}
    Users = {u1, u2}
    MaxToken = 2
SYMMETRY Alike
INVARIANTS ServiceIsSafe SessionsAreOwned
PROPERTIES SessionsEndOnTime RequestsHaveAuthority ProxiedIsSafe
CHECK_DEADLOCK FALSE
