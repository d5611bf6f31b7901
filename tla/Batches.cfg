SPECIFICATION Spec
CONSTANTS
    N = 3
    Early = 1
    Limit = 2
    Chunk = 2
    MaxKills = 1
    Categories <- MCCategories
    NoKey <- MCNoKey
    BadRows <- MCBadRows
    Silent <- MCSilent
    Jobs <- MCJobs
INVARIANTS
    Sound
    CountMeansDone
PROPERTIES
    EveryTurn
    RunEnds
