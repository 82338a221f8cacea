----------------------------- MODULE MCApproval -----------------------------
(* Instances of Approval for TLC: five approval definitions over three users. *)
EXTENDS Approval

CONSTANTS ann, ben, eve

definition(multi, approvers, auto, freeze) ==
    [useMultitier |-> multi, approvers |-> approvers,
     autoApprove |-> auto, respectFreeze |-> freeze]

\* "solo" is single-tier, "auto" lets approvers skip it; "chain" and "fyi" are
\* multi-tier; "memo" has only a non-blocking tier.
MCDef == [d \in Definitions |->
    CASE d = "solo"  -> definition(FALSE, {ann}, FALSE, TRUE)
      [] d = "auto"  -> definition(FALSE, {ann, ben}, TRUE, FALSE)
      [] d = "chain" -> definition(TRUE, {}, FALSE, TRUE)
      [] d = "fyi"   -> definition(TRUE, {}, FALSE, FALSE)
      [] d = "memo"  -> definition(TRUE, {}, FALSE, FALSE)]

tier(d, approvers, all, min, self, blocking) ==
    [definition |-> d, approvers |-> approvers, requireAll |-> all,
     minApprovers |-> min, selfApprove |-> self, blocking |-> blocking]

anyone(s) == [u \in Users \cup {NoUser} |-> s]

\* chain: all three users, then both of two but the submitter; fyi: a non-blocking
\* tier, the submitter's own choice, then both of two.
AllTiers == <<
    tier("chain", anyone({ann, ben, eve}), TRUE, 1, TRUE, TRUE),
    tier("chain", anyone({ben, eve}), TRUE, 1, FALSE, TRUE),
    tier("fyi", anyone({eve}), FALSE, 1, TRUE, FALSE),
    tier("fyi", [u \in Users \cup {NoUser} |-> IF u = ann THEN {ben} ELSE {ann}], FALSE, 1, FALSE, TRUE),
    tier("fyi", anyone({ben, eve}), FALSE, 2, TRUE, TRUE),
    tier("memo", anyone({eve}), FALSE, 1, TRUE, FALSE) >>

MCTiers == {t \in DOMAIN AllTiers : AllTiers[t].definition \in Definitions}
MCTier == [t \in MCTiers |-> AllTiers[t]]

SubmitFromDraft == {"draft"}
SubmitFromDraftOrRevision == {"draft", "revision"}
=============================================================================
