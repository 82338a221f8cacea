CONSTANTS
    Beneficiaries = {b1, b2}
    Amount <- MCAmount
    Posted = 1
    AutoApprove = TRUE
    Handlers = {"prepare", "pending", "validate", "payments"}
    Direct = {}
    Slots <- MCSlots
    Workers = {w1, w2}
    Clerks = {c1}
    Crashes = FALSE
SYMMETRY MCSymmetry
CHECK_DEADLOCK FALSE
SPECIFICATION Spec
INVARIANT PaidOnce
