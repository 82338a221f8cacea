------------------------------- MODULE MCCycle -------------------------------
(* Instances of Cycle for TLC: two beneficiaries, one of whom costs more. *)
EXTENDS Cycle

CONSTANTS ann, ben, b1, b2

definition(multi, approvers) ==
    [useMultitier |-> multi, approvers |-> approvers,
     autoApprove |-> FALSE, respectFreeze |-> FALSE]
MCDef == [d \in Definitions |->
            IF d = "solo" THEN definition(FALSE, {ann}) ELSE definition(TRUE, {})]

tier(approver) ==
    [definition |-> "chain", approvers |-> [u \in Users \cup {NoUser} |-> {approver}],
     requireAll |-> FALSE, minApprovers |-> 1, selfApprove |-> TRUE, blocking |-> TRUE]
MCTiers == IF "chain" \in Definitions THEN {1, 2} ELSE {}
MCTier == [t \in MCTiers |-> tier(IF t = 1 THEN ann ELSE ben)]

MCSubmitFrom == {"draft"}
MCAmount == [b \in Beneficiaries |-> IF b = b1 THEN 1 ELSE 2]
\* Under a single-tier definition no step depends on who submitted the cycle, on
\* its version or on how it was approved: cycle_solo does not tell them apart,
\* and the version never comes near its bound.
UpToVersion == <<state, reviews, rejectors, active, frozen, cycleVars>>
NoWizards == {}
WizardsOfOne == {<<"reject", b1>>, <<"reset_to_pending", b1>>}
=============================================================================
