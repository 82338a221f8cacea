---------------------------- MODULE ApprovalLife ----------------------------
(***************************************************************************)
(* What spp.approval.mixin promises of the approval_state of one record to *)
(* the models that inherit it: how the state moves, and from where.        *)
(***************************************************************************)
EXTENDS Integers

CONSTANT SubmitFrom   \* states _check_can_submit accepts in the record's model

VARIABLE state        \* approval_state

\* action_submit_for_approval.
Submitted == state \in SubmitFrom /\ state' = "pending"

\* _do_approve.
Approved == state = "pending" /\ state' = "approved"

\* _do_reject writes the state without looking at the one it replaces.
Rejected == state' = "rejected"

\* _do_request_revision.
RevisionRequested == state = "pending" /\ state' = "revision"

\* action_reset_to_draft.
Reset == state \in {"rejected", "revision"} /\ state' = "draft"

LifeNext == Submitted \/ Approved \/ Rejected \/ RevisionRequested \/ Reset

\* A step of the model that inherits the mixin.
LifeStep == LifeNext \/ UNCHANGED state

LifeSpec == state = "draft" /\ [][LifeNext]_state

=============================================================================
