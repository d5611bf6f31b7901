SPECIFICATION Spec
CONSTANTS
    k1 = k1
    k2 = k2
    r1 = r1
    r2 = r2
    Keys = {k1, k2}
    Readers = {r1, r2}
    None = None
    MaxEntries = 1
    Ttl = 1
    MaxCommits = 1
    MaxTime = 2
SYMMETRY Symmetry
INVARIANTS NoStale StaleBounded
