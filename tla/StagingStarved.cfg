SPECIFICATION Spec
CONSTANTS
    N = 3
    Limit = 1
    Crons = {"cron1"}
    Manual = {}
    Attrs = {"gym", "review"}
    Blocked <- MCBlocked
    Untraceable <- MCUntraceable
    Wiki <- MCWiki
    Answers <- MCAnswers
    Hopeless = {1}
    MaxMishaps = 0
    ManualAttrs = {}
PROPERTY Accumulates
CHECK_DEADLOCK FALSE
