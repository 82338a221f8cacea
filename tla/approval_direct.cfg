CONSTANTS
    ann = ann
    ben = ben
    eve = eve
    NoUser = NoUser
    Users = {ann, ben, eve}
    Definitions = {"chain"}
    Tiers <- MCTiers
    Def <- MCDef
    Tier <- MCTier
    SubmitFrom <- SubmitFromDraft
    Leavers = {eve}
    DirectTierCalls = TRUE
    MaxSubmits = 2
SPECIFICATION Spec
INVARIANTS TiersAloneHaveQuorum
