CONSTANTS
    Sessions = {s1, s2}
    Owners = {o1, o2, o3}
    Calls = {c1, c2, c3, c4}
    None = None
SYMMETRY Symmetry
SPECIFICATION MCSpec
INVARIANTS OwnersAreKept
PROPERTIES ReplacedOwnerIsClosed
