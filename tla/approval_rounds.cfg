CONSTANTS
    ann = ann
    ben = ben
    eve = eve
    NoUser = NoUser
    Users = {ann, ben, eve}
    Definitions = {"solo", "chain", "fyi"}
    Tiers <- MCTiers
    Def <- MCDef
    Tier <- MCTier
    SubmitFrom <- SubmitFromDraftOrRevision
    Leavers = {eve}
    DirectTierCalls = FALSE
    MaxSubmits = 2
SPECIFICATION Spec
INVARIANTS FullyApproved NoSelfApproval TiersInOrder ApprovedTiersHaveQuorum MultitierReviewIsLive PendingIsDecidable IInv
PROPERTIES ReviewsStayClosed ApprovalLifeSpec
