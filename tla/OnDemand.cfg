SPECIFICATION OnDemandFairSpec
CONSTANTS
    k1 = k1
    k2 = k2
    r1 = r1
    r2 = r2
    Pairs = {k1, k2}
    Requests = {r1, r2}
    Workers = 1
    Cooldown = 2
    FactTtl = 1
    Never = Never
    Horizon = 2
    MaxRestarts = 1
INVARIANTS SingleFlight NoStorm
PROPERTY InflightDrains
