CONSTANTS
    Beneficiaries = {b1, b2}
    Amount <- MCAmount
    Posted = 1
    AutoApprove = TRUE
    Handlers = {"eligibility", "prepare", "pending", "approve", "reset"}
    Direct = {}
    Slots <- MCSlots
    Workers = {w1, w2}
    Clerks = {c1}
    Crashes = FALSE
CHECK_DEADLOCK FALSE
SPECIFICATION FairSpec
PROPERTY LockIsReleased
