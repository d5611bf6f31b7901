SPECIFICATION Spec
CONSTANTS
    r1 = r1
    r2 = r2
    Procs = {p1}
    Regions = {1}
    Months = {1}
    Refs = {r1}
    NoCoord = {}
    Building = bld
    Target <- MCTarget
    Stages = {"complex"}
    Limit = 0
    ResumeModes = {FALSE}
    Serialized = TRUE
    MaxKills = 0
PROPERTY CodesStay
