SPECIFICATION Spec
CONSTANTS
    N = 3
    Early = 1
    Limit = 1
    Chunk = 2
    MaxKills = 0
    Categories <- MCCategories
    NoKey <- MCNoKey
    BadRows <- MCBadRows
    Silent <- MCSilent
    Jobs <- MCRefill
PROPERTY EveryTurnAtLast
