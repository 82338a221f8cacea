CONSTANTS
    ann = ann
    ben = ben
    eve = eve
    NoUser = NoUser
    Users = {ann, ben, eve}
    Definitions = {"fyi", "solo"}
    Tiers <- MCTiers
    Def <- MCDef
    Tier <- MCTier
    SubmitFrom <- SubmitFromDraft
    Leavers = {}
    DirectTierCalls = FALSE
    MaxSubmits = 2
SPECIFICATION FairSpec
PROPERTIES PendingIsDecided
