SPECIFICATION Spec
CONSTANTS
    r1 = r1
    r2 = r2
    Procs = {p1, p2}
    Regions = {1}
    Months = {1, 2}
    Refs = {r1, r2}
    NoCoord = {r2}
    Building = bld
    Target <- MCTarget
    Stages = {"rent", "nonapt_sale", "join"}
    Limit = 0
    ResumeModes = {TRUE, FALSE}
    Serialized = FALSE
    MaxKills = 1
INVARIANTS LedgerSound
