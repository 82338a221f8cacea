CONSTANTS
    ann = ann
    ben = ben
    b1 = b1
    b2 = b2
    NoUser = NoUser
    Users = {ann, ben}
    Definitions = {"solo"}
    Tiers <- MCTiers
    Def <- MCDef
    Tier <- MCTier
    SubmitFrom <- MCSubmitFrom
    Leavers = {}
    DirectTierCalls = FALSE
    MaxSubmits = 2
    Beneficiaries = {b1, b2}
    Amount <- MCAmount
    Managers = {"default", "cash"}
    EntApprovers = {ben}
    CycleGroup = {ann, ben}
    Admins = {}
    AutoApprove = {TRUE}
    OpenWizards <- NoWizards
    MaxFund = 3
    MaxVersion = 30
VIEW UpToVersion
SPECIFICATION CycleSpec
INVARIANTS CycleTypeOK FundCoversApproved DraftCycleIsFresh ApprovedCycleIsFinal EntitlementReviewsMatchState PaidEntitlementIsFinal
