SPECIFICATION FairSpec
CONSTANTS
    t1 = t1
    t2 = t2
    r1 = r1
    r2 = r2
    NoRequest = NoRequest
    a = a
    b = b
    x = x
    n = n
    c1 = c1
    c2 = c2
    c3 = c3
    o1 = o1
    o2 = o2
    v1 = v1
    v2 = v2
    Legacy = Legacy
    Invalid = Invalid
    None = None
    Torn = Torn
INVARIANTS EverythingIsReleased
PROPERTIES CallsSettle 
