SPECIFICATION FairSpec
CONSTANTS
    c1 = c1
    c2 = c2
    l1 = l1
    b1 = b1
    Crons = {c1, c2}
    Loops = {l1}
    Batches = {b1}
    None = None
    Dead = Dead
    Faults = {"orphan", "expire", "term"}
    MaxKills = 1
INVARIANTS OneWorker NoLeak
PROPERTY Recovers
