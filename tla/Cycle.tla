-------------------------------- MODULE Cycle --------------------------------
(***************************************************************************)
(* One cycle of a program in spp_programs, decided through the workflow of *)
(* Approval: its members, their cash entitlements, the program's fund and  *)
(* the payments, with the synchronous handlers (fewer than 200 records).   *)
(*                                                                         *)
(* Approval's variables are those of the spp.cycle record; its stored      *)
(* approval_state is computed from spp.cycle.state, but the mixin also     *)
(* writes it alone, so the two can differ.  An entitlement's own approval  *)
(* is single-tier: "reviews" holds which decisions its reviews are in.     *)
(* Methods of the cycle that test no state are actions without a guard:    *)
(* the buttons are hidden by the view, not refused by the handler.         *)
(***************************************************************************)
EXTENDS Approval, FiniteSetsExt

CONSTANTS
    Beneficiaries,  \* res.partner rows registered in the program
    Amount,         \* initial_amount of each one's entitlement
    Managers,       \* entitlement managers a program may have
    EntApprovers,   \* approvers of the entitlement definition
    CycleGroup,     \* approval_group_id.user_ids of the cycle definition
    Admins,         \* members of spp_security.group_spp_admin
    AutoApprove,    \* values auto_approve_entitlements may have
    OpenWizards,    \* wizards that may be left open: <<kind, beneficiary>>
    MaxFund,        \* bound on the funds posted
    MaxVersion      \* bound on approval_version of the cycle

CycleStates == {"draft", "to_approve", "approved", "distributed", "cancelled", "ended"}

\* STATES without a handler that assigns them are left out.
EntStates == {"draft", "pending_validation", "approved", "rejected3", "reject",
              "cancelled", "expired"}
Wizards == {"reject", "reset_to_pending"} \X Beneficiaries

ASSUME CycleAssumption ==
    /\ IsFiniteSet(Beneficiaries)
    /\ Amount \in [Beneficiaries -> Nat \ {0}]
    /\ Managers \subseteq {"default", "cash"}
    /\ EntApprovers \subseteq Users
    /\ CycleGroup \subseteq Users
    /\ Admins \subseteq Users
    /\ AutoApprove \subseteq BOOLEAN
    /\ OpenWizards \subseteq Wizards
    /\ MaxFund \in Nat
    /\ MaxVersion \in Nat

VARIABLES
    manager,      \* the program's entitlement manager
    cycle,        \* spp.cycle.state
    auto,         \* auto_approve_entitlements
    member,       \* cycle membership of each beneficiary
    ent,          \* entitlement of each beneficiary in the cycle
    posted,       \* sum of the program's posted funds
    payment,      \* the payments of each entitlement
    wizards       \* entitlement wizards left open

cycleVars == <<manager, cycle, auto, member, ent, posted, payment, wizards>>
allVars == <<vars, cycleVars>>

NoEnt == [state |-> "none", reviews |-> {}]
Entitlement == [state : EntStates, reviews : SUBSET {"pending", "approved"}] \cup {NoEnt}

CycleTypeOK ==
    /\ TypeOK
    /\ manager \in Managers
    /\ cycle \in CycleStates
    /\ auto \in AutoApprove
    /\ member \in [Beneficiaries -> {"none", "enrolled", "not_eligible"}]
    /\ ent \in [Beneficiaries -> Entitlement]
    /\ posted \in 0..MaxFund
    /\ payment \in [Beneficiaries -> {"none", "issued", "failed"}]
    /\ wizards \subseteq OpenWizards

-----------------------------------------------------------------------------
(* Entitlements and the fund *)

In(S) == {b \in Beneficiaries : ent[b].state \in S}
Total(S) == MapThenSumSet(LAMBDA b : Amount[b], S)

\* Mutant: what was approved before is forgotten.
BalanceOfFunds == posted

\* check_fund_balance: what the program's approved entitlements leave.
Balance == posted - Total(In({"approved"}))

Undecided == In({"draft", "pending_validation"})

\* An entitlement in state s; the decisions of its reviews.
To(s, e) == [e EXCEPT !.state = s]
Approved(e) ==
    [state |-> "approved",
     reviews |-> IF "pending" \in e.reviews THEN {"approved"} ELSE e.reviews]
Submitted(e) == [state |-> "pending_validation", reviews |-> e.reviews \cup {"pending"}]

\* Mutants: a value that is not in the selection; the review stays pending.
RejectedMisspelt(s, e) == [state |-> "rejected", reviews |-> e.reviews \ {"pending"}]
RejectedKeepingReview(s, e) == [state |-> s, reviews |-> e.reviews]
Rejected(s, e) == [state |-> s, reviews |-> e.reviews \ {"pending"}]

\* Mutant: the pending review survives the reset.
DraftKeepingReview(e) == [state |-> "draft", reviews |-> e.reviews]

\* action_reset_to_draft of an entitlement unlinks its pending reviews.
Draft(e) == [state |-> "draft", reviews |-> e.reviews \ {"pending"}]

\* The entitlements of S become F(their record), the others stay.
Update(S, F(_)) == [b \in Beneficiaries |-> IF b \in S THEN F(ent[b]) ELSE ent[b]]

\* What approve_entitlements approves of S: it takes them one by one while the
\* balance lasts and stops at the first it does not cover.
Affordable(S) ==
    {P \in SUBSET S :
        /\ Total(P) <= Balance
        /\ P # S => \E b \in S \ P : Total(P) + Amount[b] > Balance}

\* can_approve and can_reject of an entitlement: its approvers, or an admin.
MayDecideEnt(u, b) ==
    /\ u \in active
    /\ ent[b].state = "pending_validation"
    /\ u \in Admins \/ ("pending" \in ent[b].reviews /\ u \in EntApprovers)

\* The state of an entitlement that approve_entitlements approves: the default
\* manager decides its reviews with it, the cash manager only assigns the state.
ManagerApproved(e) == IF manager = "default" THEN Approved(e) ELSE To("approved", e)

\* _do_approve of the default manager refuses a draft.
Approvable(S) == manager = "default" => S \cap In({"draft"}) = {}

-----------------------------------------------------------------------------
(* Preparing the cycle *)

ApprovalUnchanged == UNCHANGED vars
CycleUnchanged == UNCHANGED <<manager, cycle, auto, posted, wizards>>

\* copy_beneficiaries_from_program, S being enrolled in the program.
CopyBeneficiaries(S) ==
    /\ cycle = "draft"
    /\ \E b \in S : member[b] = "none"
    /\ member' = [b \in Beneficiaries |->
                    IF b \in S /\ member[b] = "none" THEN "enrolled" ELSE member[b]]
    /\ UNCHANGED <<ent, payment>> /\ CycleUnchanged /\ ApprovalUnchanged

\* check_eligibility, S being the eligible members.
CheckEligibility(S) ==
    LET members == {b \in Beneficiaries : member[b] # "none"}
        excluded == members \ S
    IN  /\ cycle = "draft"
        /\ members # {}
        /\ S \subseteq members
        /\ member' = [b \in Beneficiaries |->
                        IF b \in S THEN "enrolled"
                        ELSE IF b \in excluded THEN "not_eligible" ELSE member[b]]
        /\ ent' = Update(excluded \ In({"none"}), LAMBDA e : To("cancelled", e))
        /\ UNCHANGED payment /\ CycleUnchanged /\ ApprovalUnchanged

\* prepare_entitlements.
PrepareEntitlements ==
    /\ cycle = "draft"
    /\ ent' = Update({b \in In({"none"}) : member[b] = "enrolled"},
                     LAMBDA e : To("draft", e))
    /\ ent' # ent
    /\ UNCHANGED <<member, payment>> /\ CycleUnchanged /\ ApprovalUnchanged

\* unlink of a draft entitlement that no payment refers to.
UnlinkEntitlement(b) ==
    /\ ent[b].state = "draft"
    /\ payment[b] = "none"
    /\ ent' = [ent EXCEPT ![b] = NoEnt]
    /\ UNCHANGED <<member, payment>> /\ CycleUnchanged /\ ApprovalUnchanged

\* post_fund of a draft fund of amount 1.
PostFund ==
    /\ posted < MaxFund
    /\ posted' = posted + 1
    /\ UNCHANGED <<manager, cycle, auto, member, ent, payment, wizards>> /\ ApprovalUnchanged

-----------------------------------------------------------------------------
(* Deciding the cycle *)

\* action_submit_for_approval, with set_pending_validation_entitlements.
SubmitCycle(u, d) ==
    /\ cycle = "draft"
    /\ In({"none"}) # Beneficiaries
    /\ Submit(u, d)
    /\ \A b \in In({"draft"}) : "pending" \notin ent[b].reviews
    /\ cycle' = "to_approve"
    /\ ent' = Update(In({"draft"}), Submitted)
    /\ UNCHANGED <<manager, auto, member, posted, payment, wizards>>

\* can_approve of the cycle: the mixin's rule, or an admin.
MayDecideCycle(u) ==
    \/ CanDecide(u)
    \/ u \in Admins \cap active /\ state = "pending"

DecidedTier == CurrentTier(ActiveReview)

\* The mixin's action_approve as action_approve of the cycle calls it: whether u
\* may, the reviews it leaves, and whether it completes the approval.
MixinMayApprove(u) ==
    /\ MayDecideCycle(u)
    /\ PendingReviews # {}
    /\ IsMultitier(ActiveReview) =>
          /\ PendingTiers(ActiveReview) # {}
          /\ u \in TierApprovers(DecidedTier) \ ActiveReview.tiers[DecidedTier].approvedBy
TierStep(u) == [reviews EXCEPT ![ActiveIndex] = ApproveTier(@, DecidedTier, u)]
Completes(u) ==
    IsMultitier(ActiveReview) => TierStep(u)[ActiveIndex].status = "approved"
ReviewsAfter(u) ==
    IF ~IsMultitier(ActiveReview) THEN ClosePending(reviews, "approved")
    ELSE IF Completes(u) THEN ClosePending(TierStep(u), "approved") ELSE TierStep(u)
VersionAfter(u) == version + (IF Completes(u) THEN 1 ELSE 0)

\* _check_sufficient_funds_for_entitlements.
FundsSuffice == auto => Total(Undecided) <= Balance

\* action_approve of a cycle whose funds suffice: approve_cycle approves it
\* whatever tiers remain, on_state_change wants a member of the definition's
\* group, and validate_entitlements approves the entitlements if auto is set.
ApproveCycle(u) ==
    /\ cycle = "to_approve"
    /\ MixinMayApprove(u)
    /\ FundsSuffice
    /\ u \in CycleGroup
    /\ version < MaxVersion
    /\ cycle' = "approved"
    /\ state' = "approved"
    /\ reviews' = ReviewsAfter(u)
    /\ version' = VersionAfter(u)
    /\ via' = IF Completes(u) THEN "approvers" ELSE via
    /\ IF auto
       THEN In({"draft"}) = {} /\ ent' = Update(Undecided, Approved)
       ELSE UNCHANGED ent
    /\ UNCHANGED <<submittedBy, rejectors, active, frozen>>
    /\ UNCHANGED <<manager, auto, member, posted, payment, wizards>>

\* The same with insufficient funds: the reviews the mixin approved are made
\* pending again, the approval_state and version it wrote stay.
ApproveCycleUnfunded(u) ==
    /\ cycle = "to_approve"
    /\ MixinMayApprove(u)
    /\ ~FundsSuffice
    /\ version < MaxVersion
    /\ reviews' = [i \in DOMAIN reviews |->
                     IF ReviewsAfter(u)[i].status = "approved"
                     THEN [ReviewsAfter(u)[i] EXCEPT !.status = "pending"]
                     ELSE ReviewsAfter(u)[i]]
    /\ version' = VersionAfter(u)
    /\ state' = IF Completes(u) THEN "approved" ELSE state
    /\ via' = IF Completes(u) THEN "approvers" ELSE via
    /\ UNCHANGED <<submittedBy, rejectors, active, frozen, cycleVars>>

\* action_reject, which opens the wizard.
OpenCycleRejection(u) ==
    /\ cycle = "to_approve"
    /\ MayDecideCycle(u)
    /\ rejectors' = rejectors \cup {u}
    /\ UNCHANGED <<state, version, submittedBy, reviews, active, frozen, via, cycleVars>>

\* The wizard's action_reject, calling _do_reject of the cycle.
RejectCycle(u) ==
    /\ ConfirmRejection(u)
    /\ cycle' = "cancelled"
    /\ ent' = Update(In({"pending_validation"}), LAMBDA e : To("cancelled", e))
    /\ UNCHANGED <<manager, auto, member, posted, payment, wizards>>

\* The mixin's revision wizard, which the cycle does not override.
ReviseCycle(u) ==
    /\ MayDecideCycle(u)
    /\ state' = "revision"
    /\ reviews' = ClosePending(reviews, "rejected")
    /\ UNCHANGED <<version, submittedBy, rejectors, active, frozen, via, cycleVars>>

\* What is left of the reviews rs when the pending ones are unlinked.
WithoutPending(rs) ==
    LET kept[n \in 0..Len(rs)] ==
          IF n = 0 THEN <<>>
          ELSE IF rs[n].status = "pending" THEN kept[n - 1] ELSE Append(kept[n - 1], rs[n])
    IN  kept[Len(rs)]

\* Mutants: the cycle's pending reviews survive; approved ones do not matter.
ResetCycleKeepingReviews ==
    LET reset == In({"pending_validation", "cancelled"})
    IN  /\ cycle \in {"to_approve", "cancelled"}
        /\ \A i \in DOMAIN reviews : reviews[i].status # "approved"
        /\ \A b \in reset : "approved" \notin ent[b].reviews
        /\ cycle' = "draft"
        /\ state' = "draft"
        /\ ent' = Update(reset, Draft)
        /\ UNCHANGED <<version, submittedBy, reviews, rejectors, active, frozen, via>>
        /\ UNCHANGED <<manager, auto, member, posted, payment, wizards>>
ResetCycleOfApproved ==
    /\ cycle \in {"to_approve", "cancelled"}
    /\ cycle' = "draft"
    /\ state' = "draft"
    /\ reviews' = WithoutPending(reviews)
    /\ ent' = Update(In({"pending_validation", "cancelled"}), Draft)
    /\ UNCHANGED <<version, submittedBy, rejectors, active, frozen, via>>
    /\ UNCHANGED <<manager, auto, member, posted, payment, wizards>>

\* action_reset_to_draft: entitlements that were cancelled are reset too, and
\* one approved review, of the cycle or of one of them, refuses it all.
ResetCycle ==
    LET reset == In({"pending_validation", "cancelled"})
    IN  /\ cycle \in {"to_approve", "cancelled"}
        /\ \A i \in DOMAIN reviews : reviews[i].status # "approved"
        /\ \A b \in reset : "approved" \notin ent[b].reviews
        /\ cycle' = "draft"
        /\ state' = "draft"
        /\ reviews' = WithoutPending(reviews)
        /\ ent' = Update(reset, Draft)
        /\ UNCHANGED <<version, submittedBy, rejectors, active, frozen, via>>
        /\ UNCHANGED <<manager, auto, member, posted, payment, wizards>>

\* mark_distributed, mark_ended, mark_cancelled, with the computed approval_state.
MarkCycle(c) ==
    /\ cycle' = c
    /\ state' = IF c = "cancelled" THEN "rejected" ELSE "approved"
    /\ UNCHANGED <<version, submittedBy, reviews, rejectors, active, frozen, via>>
    /\ UNCHANGED <<manager, auto, member, ent, posted, payment, wizards>>

\* toggle_active of the program, which archives it.
ArchiveProgram ==
    /\ cycle \in {"draft", "to_approve", "approved"}
    /\ cycle' = "cancelled"
    /\ state' = "rejected"
    /\ ent' = Update(Undecided \cup In({"approved"}), LAMBDA e : To("cancelled", e))
    /\ UNCHANGED <<version, submittedBy, reviews, rejectors, active, frozen, via>>
    /\ UNCHANGED <<manager, auto, member, posted, payment, wizards>>

-----------------------------------------------------------------------------
(* Deciding entitlements *)

SetEnt(b, e) ==
    /\ ent' = [ent EXCEPT ![b] = e]
    /\ UNCHANGED <<manager, cycle, auto, member, posted, payment>> /\ ApprovalUnchanged

\* action_submit_for_approval of one entitlement.
SubmitEntitlement(b) ==
    /\ ent[b].state = "draft"
    /\ "pending" \notin ent[b].reviews
    /\ SetEnt(b, Submitted(ent[b]))
    /\ UNCHANGED wizards

\* Mutant: the balance has to be positive only.
ApproveEntitlementOverdrawn(u, b) ==
    /\ MayDecideEnt(u, b)
    /\ "pending" \in ent[b].reviews
    /\ Balance > 0
    /\ SetEnt(b, Approved(ent[b]))
    /\ UNCHANGED wizards

\* action_approve of one entitlement.
ApproveEntitlement(u, b) ==
    /\ MayDecideEnt(u, b)
    /\ "pending" \in ent[b].reviews
    /\ Balance >= Amount[b]
    /\ SetEnt(b, Approved(ent[b]))
    /\ UNCHANGED wizards

\* approve_entitlement of the selection S.
ApproveSelected(u, S) ==
    /\ S # {}
    /\ \A b \in S : MayDecideEnt(u, b)
    /\ \E P \in Affordable(S) : ent' = Update(P, ManagerApproved)
    /\ UNCHANGED <<member, payment>> /\ CycleUnchanged /\ ApprovalUnchanged

\* The cash manager puts the cycle back when the balance does not cover all.
PutBack == cycle' = "to_approve" /\ state' = "pending"

\* validate_entitlement of the cycle, which tests nobody's permission.
ValidateEntitlements ==
    /\ \E P \in Affordable(Undecided) :
          /\ Approvable(P)
          /\ ent' = Update(P, ManagerApproved)
          /\ IF manager = "cash" /\ P # Undecided
             THEN PutBack ELSE P # {} /\ UNCHANGED <<cycle, state>>
    /\ UNCHANGED <<version, submittedBy, reviews, rejectors, active, frozen, via>>
    /\ UNCHANGED <<manager, auto, member, posted, payment, wizards>>

\* action_reject of one entitlement, which opens the wizard.
OpenRejectEntitlement(u, b) ==
    /\ MayDecideEnt(u, b)
    /\ <<"reject", b>> \in OpenWizards
    /\ wizards' = wizards \cup {<<"reject", b>>}
    /\ UNCHANGED <<manager, cycle, auto, member, ent, posted, payment>> /\ ApprovalUnchanged

\* The wizard's action_reject, calling _do_reject of the entitlement.
RejectEntitlement(b) ==
    /\ <<"reject", b>> \in wizards
    /\ wizards' = wizards \ {<<"reject", b>>}
    /\ SetEnt(b, Rejected("rejected3", ent[b]))

\* reject_entitlements of the multi-rejection wizard: it tests the state again.
RejectSelected(b) ==
    /\ ent[b].state \in {"draft", "pending_validation"}
    /\ SetEnt(b, Rejected("reject", ent[b]))
    /\ UNCHANGED wizards

\* The reset wizard is opened on rejected entitlements.
OpenResetToPending(b) ==
    /\ ent[b].state = "reject"
    /\ <<"reset_to_pending", b>> \in OpenWizards
    /\ wizards' = wizards \cup {<<"reset_to_pending", b>>}
    /\ UNCHANGED <<manager, cycle, auto, member, ent, posted, payment>> /\ ApprovalUnchanged

\* _reset_to_pending.
ResetToPending(b) ==
    /\ <<"reset_to_pending", b>> \in wizards
    /\ wizards' = wizards \ {<<"reset_to_pending", b>>}
    /\ SetEnt(b, To("pending_validation", ent[b]))

\* Mutant: approved reviews do not matter.
ResetEntitlementOfApproved(b) ==
    /\ ent[b].state \in {"pending_validation", "cancelled", "reject", "rejected3"}
    /\ SetEnt(b, Draft(ent[b]))
    /\ UNCHANGED wizards

\* action_reset_to_draft of one entitlement.
ResetEntitlement(b) ==
    /\ ent[b].state \in {"pending_validation", "cancelled", "reject", "rejected3"}
    /\ "approved" \notin ent[b].reviews
    /\ SetEnt(b, Draft(ent[b]))
    /\ UNCHANGED wizards

\* _gc_mark_expired_entitlement once the cycle's validity is over.
ExpireEntitlements ==
    /\ In({"approved"}) # {}
    /\ ent' = Update(In({"approved"}), LAMBDA e : To("expired", e))
    /\ UNCHANGED <<member, payment>> /\ CycleUnchanged /\ ApprovalUnchanged

\* prepare_payments: an approved entitlement whose payments all failed.
PreparePayments ==
    /\ \E b \in In({"approved"}) : payment[b] # "issued"
    /\ payment' = [b \in Beneficiaries |->
                     IF b \in In({"approved"}) THEN "issued" ELSE payment[b]]
    /\ UNCHANGED <<member, ent>> /\ CycleUnchanged /\ ApprovalUnchanged

\* The payment service reports a failure (nothing in the repository does).
PaymentFails(b) ==
    /\ payment[b] = "issued"
    /\ payment' = [payment EXCEPT ![b] = "failed"]
    /\ UNCHANGED <<member, ent>> /\ CycleUnchanged /\ ApprovalUnchanged

-----------------------------------------------------------------------------

CycleInit ==
    /\ Init
    /\ manager \in Managers
    /\ cycle = "draft"
    /\ auto \in AutoApprove
    /\ member = [b \in Beneficiaries |-> "none"]
    /\ ent = [b \in Beneficiaries |-> NoEnt]
    /\ posted = 0
    /\ payment = [b \in Beneficiaries |-> "none"]
    /\ wizards = {}

PrepareNext ==
    \/ \E S \in SUBSET Beneficiaries : CopyBeneficiaries(S) \/ CheckEligibility(S)
    \/ PrepareEntitlements
    \/ \E b \in Beneficiaries : UnlinkEntitlement(b)
    \/ PostFund

DecideNext ==
    \/ \E u \in Users :
          \/ \E d \in Definitions : SubmitCycle(u, d)
          \/ ApproveCycle(u)
          \/ ApproveCycleUnfunded(u)
          \/ OpenCycleRejection(u)
          \/ RejectCycle(u)
          \/ ReviseCycle(u)
    \/ ResetCycle
    \/ ArchiveProgram
    \/ \E c \in {"distributed", "ended", "cancelled"} : MarkCycle(c)

EntitlementNext ==
    \/ \E u \in Users :
          \/ \E S \in SUBSET Beneficiaries : ApproveSelected(u, S)
          \/ \E b \in Beneficiaries : ApproveEntitlement(u, b) \/ OpenRejectEntitlement(u, b)
    \/ ValidateEntitlements
    \/ \E b \in Beneficiaries :
          \/ SubmitEntitlement(b)
          \/ RejectEntitlement(b)
          \/ RejectSelected(b)
          \/ OpenResetToPending(b)
          \/ ResetToPending(b)
          \/ ResetEntitlement(b)
          \/ PaymentFails(b)
    \/ ExpireEntitlements
    \/ PreparePayments

CycleNext == PrepareNext \/ DecideNext \/ EntitlementNext

CycleSpec == CycleInit /\ [][CycleNext]_allVars

-----------------------------------------------------------------------------
(* Properties *)

\* What is approved never exceeds what is posted, over approvals of one
\* entitlement, of a selection and of a cycle that approves its entitlements
\* itself: each reads the balance (check_fund_balance) before it spends.
FundCoversApproved == Total(In({"approved"})) <= posted

\* Step by step: whoever decides what, the entitlements it approves are charged
\* together as far as the fund covers all that is charged, none of those that
\* are approved already is released by that, and funds are posted apart from it.
F == INSTANCE Fund WITH Entitlements <- Beneficiaries, charged <- In({"approved"})
FundSpec == F!Spec

\* A draft cycle, whatever rounds it went through, has an approval_state and
\* reviews that let it be submitted (action_reset_to_draft).
DraftCycleIsFresh ==
    cycle = "draft" =>
        /\ state = "draft"
        /\ \A i \in DOMAIN reviews : reviews[i].status = "rejected"

\* Under single-tier definitions an approved cycle has its approved review,
\* which keeps it from ever being draft or to_approve again, cancelled or not
\* (the cash manager does put it back to to_approve, PutBack).
ApprovedCycleIsFinal ==
    LET approved == \E i \in DOMAIN reviews : reviews[i].status = "approved"
    IN  /\ cycle = "approved" => approved
        /\ approved => cycle # "draft"
        /\ approved /\ manager = "default" => cycle # "to_approve"

\* Under the default manager the reviews of an entitlement agree with its
\* state: none of a draft is open or approved, none of a decided one is open.
EntitlementReviewsMatchState ==
    manager = "default" => \A b \in Beneficiaries :
        /\ ent[b].state = "draft" => ent[b].reviews = {}
        /\ ent[b].state \in {"approved", "expired", "reject", "rejected3"} =>
              "pending" \notin ent[b].reviews

\* An entitlement with payments, failed ones included, never becomes editable
\* again: it stays approved, or it expired or was cancelled, and the reset of
\* the cycle or of the entitlement itself refuses it (its approved review, which
\* the default manager sees to).
PaidEntitlementIsFinal ==
    manager = "default" => \A b \in Beneficiaries :
        payment[b] # "none" => ent[b].state \in {"approved", "expired", "cancelled"}

=============================================================================
