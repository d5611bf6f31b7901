SPECIFICATION Spec
CONSTANTS
    b1 = b1
    s1 = s1
    a1 = a1
    c1 = c1
    c2 = c2
    Bulk = {b1}
    Single = {s1}
    Api = {}
    Chunks = {c1, c2}
    None = None
    MaxKills = 0
INVARIANT SamePlaceOverwrites
