CONSTANTS
    Attachments = {a, b}
    Workers = {w}
    MaxAttempts = 1
    BatchSize = 1
    MaxContents = 2
    MaxRescans = 1
    MaxLost = 2
SPECIFICATION FairSpec
INVARIANTS
    VerdictIsAboutTheseBytes
    CondemnedIsBlocked
PROPERTY EveryFileIsExamined
CHECK_DEADLOCK FALSE
