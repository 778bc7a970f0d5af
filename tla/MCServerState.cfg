SPECIFICATION SuiteSpec
CONSTANTS
    k1 = k1
    Legacy = Legacy
    Invalid = Invalid
    p1 = p1
    p2 = p2
    Another = Another
    x = x
    y = y
    Inexpressible = Inexpressible
    t1 = t1
    t2 = t2
    None = None
    Torn = Torn
    Calls = {c1, c2}
    Retries = {r1}
    Settings = {v1, v2}
    Defaults = v1
    Migrated = v1
    Size = 2
    TempOpenAttempts = 2
    Tabs = {t1, t2}
    MaxTracked = 1
    MaxMarks = 3
    MaxFailures = 2
SYMMETRY Alike
INVARIANTS SettingsAreKept AcceptsExactly ActivityIsKept
PROPERTIES AnswersAreTrue StepsAreDeliberate
