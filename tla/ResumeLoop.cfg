CONSTANTS
    Months <- ConstMonths
    Pages <- ConstPages
    Retries = 8
    MaxBackoff = 60
    RideOut = 122
    MaxRuns = 2
    MaxKills = 1
SPECIFICATION FairSpec
INVARIANTS WholeMonth PermanentEndsLoop RidesOut
PROPERTIES LoopEnds Completes
