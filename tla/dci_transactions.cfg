CONSTANTS
    Txns = {t1, t2}
    Workers = {w1}
    Clerks = {c}
    MaxRetries = 2
    MaxPending = 1
    MaxFaults = 1
    MaxManual = 1
    MaxToggles = 1
CHECK_DEADLOCK FALSE
SPECIFICATION FairSpec
INVARIANTS TypeOK NothingForgotten SuccessHasResponse PostsAreBounded
PROPERTY EveryRequestSettles
