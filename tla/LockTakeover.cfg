SPECIFICATION Spec
CONSTANTS
    c1 = c1
    c2 = c2
    l1 = l1
    b1 = b1
    Crons = {c1}
    Loops = {l1}
    Batches = {}
    None = None
    Dead = Dead
    Faults = {}
    MaxKills = 0
INVARIANT SingleWriter
