SPECIFICATION FairSpec
CONSTANTS
    t1 = t1
    s1 = s1
    s2 = s2
    o1 = o1
    o2 = o2
    r1 = r1
    r2 = r2
    i = i
    j = j
    k = k
    n = n
    a1 = a1
    Cleanup = Cleanup
    None = None
PROPERTIES WaitsEnd Converges
