CONSTANTS
    Beneficiaries = {b1, b2}
    Amount <- MCAmount
    Posted = 1
    AutoApprove = TRUE
    Handlers = {"prepare", "pending", "approve", "validate", "cancel", "reset", "reject", "payments"}
    Direct = {"prepare"}
    Slots <- MCSlots
    Workers = {w1, w2}
    Clerks = {c1}
    Crashes = TRUE
SYMMETRY MCSymmetry
CHECK_DEADLOCK FALSE
SPECIFICATION Spec
INVARIANTS DisbursedOnce OneEntitlementEach JobsInv
PROPERTIES FundSpec
