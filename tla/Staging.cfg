SPECIFICATION Spec
CONSTANTS
    N = 3
    Limit = 2
    Crons <- MCCrons
    Manual <- MCManual
    Attrs <- MCAttrs
    Blocked <- MCBlocked
    Untraceable <- MCUntraceable
    Wiki <- MCWiki
    Answers <- MCAnswers
    Hopeless = {1}
    MaxMishaps = 1
    ManualAttrs <- MCManualAttrs
INVARIANTS
    Disciplined
    OnePerPair
PROPERTIES
    Served
CHECK_DEADLOCK FALSE
