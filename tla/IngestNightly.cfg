SPECIFICATION FairSpec
CONSTANTS
    r1 = r1
    r2 = r2
    Procs = {p1, p2}
    Regions = {1, 2}
    Months = {1, 2}
    Refs = {r1, r2}
    NoCoord = {r2}
    Building = bld
    Target <- MCTarget
    Stages = {"complex", "transaction", "join", "geocode"}
    Limit = 1
    ResumeModes = {TRUE}
    Serialized = TRUE
    MaxKills = 2
INVARIANTS WasteBound RunJoined NothingLeftLoaded
PROPERTIES CodesStay KeepsPromise LoadCompletes
