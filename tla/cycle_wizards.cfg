CONSTANTS
    ann = ann
    ben = ben
    b1 = b1
    b2 = b2
    NoUser = NoUser
    Users = {ann, ben}
    Definitions = {"chain"}
    Tiers <- MCTiers
    Def <- MCDef
    Tier <- MCTier
    SubmitFrom <- MCSubmitFrom
    Leavers = {}
    DirectTierCalls = FALSE
    MaxSubmits = 1
    Beneficiaries = {b1, b2}
    Amount <- MCAmount
    Managers = {"default"}
    EntApprovers = {ben}
    CycleGroup = {ann, ben}
    Admins = {ann}
    AutoApprove = {FALSE}
    OpenWizards <- WizardsOfOne
    MaxFund = 3
    MaxVersion = 2
SPECIFICATION CycleSpec
INVARIANTS EntitlementReviewsMatchState
PROPERTIES FundSpec
