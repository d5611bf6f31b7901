SPECIFICATION ShlockFairSpec
CONSTANTS
    p1 = p1
    p2 = p2
    p3 = p3
    Callers = {p1, p2, p3}
    NoPid = NoPid
    DeadPid = DeadPid
    MaxAttempts = 2
    MaxDeaths = 1
INVARIANTS RaceHasOneWinner
PROPERTIES Returns StaleTaken
