------------------------------ MODULE Approval ------------------------------
(***************************************************************************)
(* The approval workflow of spp_approval: one record of a model that       *)
(* inherits spp.approval.mixin (stored approval_state), the reviews its    *)
(* submissions create and the tier reviews of the multi-tier ones.         *)
(*                                                                         *)
(* A handler runs in one database transaction (REPEATABLE READ, retried    *)
(* on a serialization failure), so each handler is one action; a handler   *)
(* that raises changes nothing and is an action whose guard is false.      *)
(* What spans several requests is state: the rejection wizard a user has   *)
(* open, and reviews and tier reviews left behind by earlier rounds.       *)
(***************************************************************************)
EXTENDS Integers, Sequences, FiniteSets

CONSTANTS
    Users,            \* res.users
    NoUser,           \* an empty Many2one to res.users
    Definitions,      \* spp.approval.definition rows that may match the record
    Tiers,            \* spp.approval.tier rows, numbered in "sequence" order
    Def,              \* the configuration of each definition
    Tier,             \* the configuration of each tier
    SubmitFrom,       \* states _check_can_submit accepts in the record's model
    Leavers,          \* users whose account may be archived or restored
    DirectTierCalls,  \* may the public methods of tier reviews be called alone?
    MaxSubmits        \* bound on the number of submissions explored

ApprovalStates == {"draft", "pending", "revision", "approved", "rejected"}
ReviewStatuses == {"pending", "approved", "rejected"}
TierStatuses == {"waiting", "pending", "approved", "rejected", "skipped"}

\* Approvers of a single-tier definition do not depend on who submits; those of
\* a tier may (approval_type "manager"): they are a function of the submitter,
\* NoUser standing for the record's creator before its first submission.
DefinitionConfig == [useMultitier : BOOLEAN, approvers : SUBSET Users,
                     autoApprove : BOOLEAN, respectFreeze : BOOLEAN]
TierConfig == [definition : Definitions,
               approvers : [Users \cup {NoUser} -> SUBSET Users],
               requireAll : BOOLEAN, minApprovers : Nat \ {0},
               selfApprove : BOOLEAN, blocking : BOOLEAN]

ASSUME ConfigAssumption ==
    /\ NoUser \notin Users
    /\ Tiers \subseteq Nat
    /\ Def \in [Definitions -> DefinitionConfig]
    /\ Tier \in [Tiers -> TierConfig]
    /\ SubmitFrom \in {{"draft"}, {"draft", "revision"}}
    /\ Leavers \subseteq Users
    /\ DirectTierCalls \in BOOLEAN
    /\ MaxSubmits \in Nat

VARIABLES
    state,        \* approval_state
    version,      \* approval_version
    submittedBy,  \* submitted_by_id
    reviews,      \* approval_review_ids, oldest first
    rejectors,    \* users with an open rejection wizard for the record
    active,       \* users whose account is active
    frozen,       \* a freeze period is in force for the record's model
    via           \* history: how the last approval came about

vars == <<state, version, submittedBy, reviews, rejectors, active, frozen, via>>

TiersOf(d) == {t \in Tiers : Def[d].useMultitier /\ Tier[t].definition = d}

TierReview == [status : TierStatuses, approvedBy : SUBSET Users]
Review == UNION {[definition : {d}, requestedBy : Users, status : ReviewStatuses,
                  tiers : [TiersOf(d) -> TierReview]] : d \in Definitions}

TypeOK ==
    /\ state \in ApprovalStates
    /\ version \in Nat
    /\ submittedBy \in Users \cup {NoUser}
    /\ reviews \in Seq(Review)
    /\ rejectors \subseteq Users
    /\ active \subseteq Users
    /\ Users \ Leavers \subseteq active
    /\ frozen \in BOOLEAN
    /\ via \in {"none", "approvers", "batch", "system"}

-----------------------------------------------------------------------------
(* Who may decide *)

\* Mutant: the self-approval filter is forgotten.
TierApproversWithSelf(t) == Tier[t].approvers[submittedBy] \cap active

\* spp.approval.tier.get_approvers for the record's present submitter.
TierApprovers(t) ==
    {u \in Tier[t].approvers[submittedBy] \cap active :
        Tier[t].selfApprove \/ u # submittedBy}

\* spp.approval.definition.get_approvers: of a multi-tier definition, those of
\* its first tier; archived users drop out of the group.
DefApprovers(d) ==
    IF Def[d].useMultitier
    THEN UNION {TierApprovers(t) : t \in {t \in TiersOf(d) : \A s \in TiersOf(d) : t <= s}}
    ELSE Def[d].approvers \cap active

PendingTiers(r) == {t \in DOMAIN r.tiers : r.tiers[t].status = "pending"}

\* current_tier_id: the first pending tier in sequence order.
CurrentTier(r) ==
    CHOOSE t \in PendingTiers(r) : \A s \in PendingTiers(r) : t <= s

PendingReviews == {i \in DOMAIN reviews : reviews[i].status = "pending"}

\* approval_review_ids.filtered(pending)[:1] in _order "create_date desc".
ActiveIndex == CHOOSE i \in PendingReviews : \A j \in PendingReviews : j <= i
ActiveReview == reviews[ActiveIndex]

IsMultitier(r) == Def[r.definition].useMultitier

\* can_approve and can_reject of _compute_approval_permissions.
CanDecide(u) ==
    /\ u \in active
    /\ state = "pending"
    /\ PendingReviews # {}
    /\ IF IsMultitier(ActiveReview)
       THEN /\ PendingTiers(ActiveReview) # {}
            /\ u \in TierApprovers(CurrentTier(ActiveReview))
       ELSE u \in DefApprovers(ActiveReview.definition)

-----------------------------------------------------------------------------
(* Reviews and tier reviews *)

WaitingTiers(r) == {t \in DOMAIN r.tiers : r.tiers[t].status = "waiting"}

\* Mutant: the tiers are taken in reverse sequence order.
NextTiersReversed(r) ==
    {t \in WaitingTiers(r) : \A s \in WaitingTiers(r) : s > t => ~Tier[s].blocking}

\* The waiting tiers up to and including the first blocking one.
NextTiers(r) ==
    {t \in WaitingTiers(r) : \A s \in WaitingTiers(r) : s < t => ~Tier[s].blocking}

\* Mutant: complete as soon as no tier waits, though some are still pending.
ActivateNextEarly(r) ==
    [r EXCEPT !.status = IF WaitingTiers(r) = {} THEN "approved" ELSE @,
              !.tiers = [t \in DOMAIN r.tiers |->
                           [status |-> IF t \in NextTiers(r) THEN "pending"
                                       ELSE r.tiers[t].status,
                            approvedBy |-> r.tiers[t].approvedBy]]]

\* _activate_next_tier_or_complete: the loop activates waiting tiers in sequence
\* order until it has activated a blocking one; it runs out of tiers with every
\* blocking tier done exactly when all of them were done before.
ActivateNext(r) ==
    LET complete == \A t \in DOMAIN r.tiers :
                      Tier[t].blocking => r.tiers[t].status \in {"approved", "skipped"}
    IN  [r EXCEPT !.status = IF complete THEN "approved" ELSE @,
                  !.tiers = [t \in DOMAIN r.tiers |->
                               [status |-> IF t \in NextTiers(r) THEN "pending"
                                           ELSE r.tiers[t].status,
                                approvedBy |-> r.tiers[t].approvedBy]]]

\* Mutant: the first tier is not activated.
NewReviewDormant(u, d) ==
    [definition |-> d, requestedBy |-> u, status |-> "pending",
     tiers |-> [t \in TiersOf(d) |-> [status |-> "waiting", approvedBy |-> {}]]]

\* create and _create_tier_reviews of spp.approval.review.
NewReview(u, d) ==
    LET fresh == [definition |-> d, requestedBy |-> u, status |-> "pending",
                  tiers |-> [t \in TiersOf(d) |->
                               [status |-> "waiting", approvedBy |-> {}]]]
    IN  IF TiersOf(d) = {} THEN fresh ELSE ActivateNext(fresh)

\* Mutants: one approver too few, or one too many, completes a tier.
TierCompleteEarly(t, by) == Cardinality(by) >= Tier[t].minApprovers - 1
TierCompleteLate(t, by) == Cardinality(by) > Tier[t].minApprovers

\* Mutant: require-all counts the approvals, those of users who left included.
TierCompleteByCount(t, by) ==
    Cardinality(by) >= IF Tier[t].requireAll THEN Cardinality(TierApprovers(t))
                       ELSE Tier[t].minApprovers

\* _check_tier_completion.
TierComplete(t, by) ==
    IF Tier[t].requireAll
    THEN TierApprovers(t) # {} /\ TierApprovers(t) \subseteq by
    ELSE Cardinality(by) >= Tier[t].minApprovers

\* spp.approval.tier.review.action_approve, past its checks.
ApproveTier(r, t, u) ==
    LET by == r.tiers[t].approvedBy \cup {u}
        done == TierComplete(t, by)
        marked == [r EXCEPT !.tiers[t] =
                     [status |-> IF done THEN "approved" ELSE "pending",
                      approvedBy |-> by]]
    IN  IF done THEN ActivateNext(marked) ELSE marked

\* spp.approval.tier.review.action_reject and _on_tier_rejected.
RejectTier(r, t) ==
    [r EXCEPT !.status = "rejected",
              !.tiers = [s \in DOMAIN r.tiers |->
                 IF s = t THEN [r.tiers[s] EXCEPT !.status = "rejected"]
                 ELSE IF r.tiers[s].status = "waiting"
                      THEN [r.tiers[s] EXCEPT !.status = "skipped"]
                      ELSE r.tiers[s]]]

\* Mutant: decided reviews are overwritten too.
CloseAll(rs, st) == [i \in DOMAIN rs |-> [rs[i] EXCEPT !.status = st]]

\* Every pending review of the sequence rs takes the status st.
ClosePending(rs, st) ==
    [i \in DOMAIN rs |->
        IF rs[i].status = "pending" THEN [rs[i] EXCEPT !.status = st] ELSE rs[i]]

-----------------------------------------------------------------------------
(* Handlers *)

\* Mutant: no state in the WHERE clause.
DoApproveAnyState(rs, how) ==
    /\ state' = "approved"
    /\ version' = version + 1
    /\ reviews' = ClosePending(rs, "approved")
    /\ via' = how

\* _do_approve on the reviews rs: UPDATE ... WHERE approval_state = 'pending'
\* AND approval_version = the version read in the same transaction.
DoApprove(rs, how) ==
    /\ state = "pending"
    /\ state' = "approved"
    /\ version' = version + 1
    /\ reviews' = ClosePending(rs, "approved")
    /\ via' = how

\* action_submit_for_approval under the definition d that matches the record.
\* The exclusion constraint on reviews refuses a second pending review of d.
Submit(u, d) ==
    /\ u \in active
    /\ state \in SubmitFrom
    /\ Len(reviews) < MaxSubmits
    /\ ~(Def[d].respectFreeze /\ frozen)
    /\ IF Def[d].autoApprove /\ u \in DefApprovers(d)
       THEN DoApprove(reviews, "system") /\ UNCHANGED submittedBy
       ELSE /\ \A i \in PendingReviews : reviews[i].definition # d
            /\ reviews' = Append(reviews, NewReview(u, d))
            /\ state' = "pending"
            /\ submittedBy' = u
            /\ via' = "none"
            /\ UNCHANGED version
    /\ UNCHANGED <<rejectors, active, frozen>>

\* action_approve (multi-tier override).
Approve(u) ==
    /\ CanDecide(u)
    /\ IF IsMultitier(ActiveReview)
       THEN LET t == CurrentTier(ActiveReview)
                rs == [reviews EXCEPT ![ActiveIndex] = ApproveTier(@, t, u)]
            IN  /\ u \notin ActiveReview.tiers[t].approvedBy
                /\ IF rs[ActiveIndex].status = "approved"
                   THEN DoApprove(rs, "approvers")
                   ELSE reviews' = rs /\ UNCHANGED <<state, version, via>>
       ELSE DoApprove(reviews, "approvers")
    /\ UNCHANGED <<submittedBy, rejectors, active, frozen>>

\* action_approve_batch, for this record of the batch.
ApproveBatch(u) ==
    /\ CanDecide(u)
    /\ DoApprove(reviews, "batch")
    /\ UNCHANGED <<submittedBy, rejectors, active, frozen>>

\* _action_approve_system.
ApproveSystem ==
    /\ DoApprove(reviews, "system")
    /\ UNCHANGED <<submittedBy, rejectors, active, frozen>>

\* action_reject opens the wizard; only this first step checks permissions.
OpenRejection(u) ==
    /\ CanDecide(u)
    /\ rejectors' = rejectors \cup {u}
    /\ UNCHANGED <<state, version, submittedBy, reviews, active, frozen, via>>

\* The wizard's action_reject, calling _do_reject (multi-tier override).
ConfirmRejection(u) ==
    /\ u \in rejectors \cap active
    /\ rejectors' = rejectors \ {u}
    /\ IF PendingReviews # {} /\ IsMultitier(ActiveReview)
       THEN /\ PendingTiers(ActiveReview) # {}
            /\ u \in TierApprovers(CurrentTier(ActiveReview))
            /\ reviews' = [reviews EXCEPT ![ActiveIndex] =
                             RejectTier(@, CurrentTier(@))]
       ELSE UNCHANGED reviews
    /\ state' = "rejected"
    /\ UNCHANGED <<version, submittedBy, active, frozen, via>>

\* Mutant: the pending review is left open.
RequestRevisionLeavesReview(u) ==
    /\ CanDecide(u)
    /\ state' = "revision"
    /\ UNCHANGED <<version, submittedBy, reviews, rejectors, active, frozen, via>>

\* The revision wizard's action_request_revision: _do_request_revision checks
\* the permission again, so opening the wizard needs no state.
RequestRevision(u) ==
    /\ CanDecide(u)
    /\ state' = "revision"
    /\ reviews' = ClosePending(reviews, "rejected")
    /\ UNCHANGED <<version, submittedBy, rejectors, active, frozen, via>>

\* action_reset_to_draft.
ResetToDraft ==
    /\ state \in {"rejected", "revision"}
    /\ state' = "draft"
    /\ UNCHANGED <<version, submittedBy, reviews, rejectors, active, frozen, via>>

\* action_approve of one tier review, called without the record.
ApproveTierAlone(u) ==
    /\ DirectTierCalls
    /\ u \in active
    /\ \E i \in DOMAIN reviews : \E t \in PendingTiers(reviews[i]) :
          /\ u \in TierApprovers(t) \ reviews[i].tiers[t].approvedBy
          /\ reviews' = [reviews EXCEPT ![i] = ApproveTier(@, t, u)]
    /\ UNCHANGED <<state, version, submittedBy, rejectors, active, frozen, via>>

\* action_reject of one tier review, called without the record.
RejectTierAlone(u) ==
    /\ DirectTierCalls
    /\ u \in active
    /\ \E i \in DOMAIN reviews : \E t \in PendingTiers(reviews[i]) :
          /\ u \in TierApprovers(t)
          /\ reviews' = [reviews EXCEPT ![i] = RejectTier(@, t)]
    /\ UNCHANGED <<state, version, submittedBy, rejectors, active, frozen, via>>

\* Freeze periods begin and end (spp.approval.freeze, is_frozen).
ToggleFreeze ==
    /\ frozen' = ~frozen
    /\ UNCHANGED <<state, version, submittedBy, reviews, rejectors, active, via>>

\* An administrator archives or restores a user account.
ToggleUser(u) ==
    /\ u \in Leavers
    /\ active' = IF u \in active THEN active \ {u} ELSE active \cup {u}
    /\ UNCHANGED <<state, version, submittedBy, reviews, rejectors, frozen, via>>

-----------------------------------------------------------------------------

Init ==
    /\ state = "draft"
    /\ version = 1
    /\ submittedBy = NoUser
    /\ reviews = <<>>
    /\ rejectors = {}
    /\ active = Users
    /\ frozen = FALSE
    /\ via = "none"

Next ==
    \/ \E u \in Users :
          \/ \E d \in Definitions : Submit(u, d)
          \/ Approve(u)
          \/ ApproveBatch(u)
          \/ OpenRejection(u)
          \/ ConfirmRejection(u)
          \/ RequestRevision(u)
          \/ ApproveTierAlone(u)
          \/ RejectTierAlone(u)
          \/ ToggleUser(u)
    \/ ApproveSystem
    \/ ResetToDraft
    \/ ToggleFreeze

Spec == Init /\ [][Next]_vars

\* People act: while some approver can approve the record, one eventually does.
FairSpec == Spec /\ WF_vars(\E u \in Users : Approve(u))

-----------------------------------------------------------------------------
(* Properties *)

LastReview == reviews[Len(reviews)]

\* No approval of a tier counts until every earlier blocking tier is approved.
BehindBlocking(r) == \A s, t \in DOMAIN r.tiers :
    s < t /\ Tier[s].blocking /\ r.tiers[t].approvedBy # {} => r.tiers[s].status = "approved"

\* The requester of the review did not approve a tier that forbids it.
NotByRequester(r) == \A t \in DOMAIN r.tiers :
    Tier[t].selfApprove \/ r.requestedBy \notin r.tiers[t].approvedBy

\* The users a require-all tier cannot do without, whoever leaves, when those of
\* the set submitters ask: the designated ones, themselves apart if it forbids it.
Required(t, u, submitters) ==
    {v \in Tier[t].approvers[u] \ Leavers : Tier[t].selfApprove \/ v \notin submitters}

\* A completed tier heard from enough of the approvers designated for the
\* review's requester, and from all it requires.
Quorate(r, submitters) == \A t \in DOMAIN r.tiers :
    /\ r.tiers[t].approvedBy \subseteq Tier[t].approvers[r.requestedBy]
    /\ r.tiers[t].status = "approved" =>
          IF Tier[t].requireAll
          THEN Required(t, r.requestedBy, submitters) \subseteq r.tiers[t].approvedBy
          ELSE Cardinality(r.tiers[t].approvedBy) >= Tier[t].minApprovers

BlockingTiersApproved(r) == \A t \in DOMAIN r.tiers :
    Tier[t].blocking => r.tiers[t].status = "approved"

\* A record its approvers approved, whatever rounds, archived accounts and
\* stale wizards came before, passed every blocking tier of the definition of
\* its last submission (_do_approve behind action_approve).
FullyApproved ==
    state = "approved" /\ via = "approvers" =>
        LastReview.status = "approved" /\ BlockingTiersApproved(LastReview)

\* Nobody's approval counts at a tier of a review they requested themselves
\* unless the tier allows it, although get_approvers filters the record's
\* present submitter and not the review's requester.
NoSelfApproval == \A i \in DOMAIN reviews : NotByRequester(reviews[i])

\* Decided through its record, no tier hears even its first approval while an
\* earlier blocking tier is open: non-blocking tiers hold nobody up, blocking ones
\* do (is_blocking, _activate_next_tier_or_complete), though several tiers are
\* pending at a time and completing any of them opens the next.
TiersInOrder == \A i \in DOMAIN reviews : BehindBlocking(reviews[i])

\* A tier approved through its record heard from enough of the users designated
\* for the review's requester, and a require-all tier from every one of them
\* whose account was never archived, although others approve, leave and return
\* in between and _check_tier_completion reads the approvers anew each time.
ApprovedTiersHaveQuorum ==
    \A i \in DOMAIN reviews : Quorate(reviews[i], {reviews[i].requestedBy})

\* Whoever ever submitted the record.
Submitters == {reviews[i].requestedBy : i \in DOMAIN reviews}

\* The same of tier reviews decided without their record, those of earlier rounds
\* included: the tier leaves out the record's present submitter, so what it may
\* do without is any user who submitted the record.
TiersAloneHaveQuorum == \A i \in DOMAIN reviews : Quorate(reviews[i], Submitters)

\* A pending multi-tier review is the last review of a pending record: no round
\* ends, by approval, rejection or revision, and leaves its review open.
MultitierReviewIsLive ==
    \A i \in PendingReviews : IsMultitier(reviews[i]) =>
        state = "pending" /\ i = Len(reviews)

\* A pending record always has a review, and a multi-tier review a tier, that
\* somebody can decide: the "inconsistent approval data" error of
\* _check_can_approve is not reached.
PendingIsDecidable ==
    state = "pending" =>
        /\ PendingReviews # {}
        /\ IsMultitier(ActiveReview) => PendingTiers(ActiveReview) # {}

\* A review that was decided keeps its decision, and its tiers theirs, through
\* later rounds.
ReviewsStayClosed ==
    [][\A i \in DOMAIN reviews : reviews[i].status # "pending" =>
          reviews'[i] = reviews[i]]_vars

Life == INSTANCE ApprovalLife

\* Whatever reviews, tiers, batches and wizards do, the state moves only as the
\* models that inherit the mixin rely on (refinement of ApprovalLife).
ApprovalLifeSpec == Life!LifeSpec

\* With approvers who act, a record submitted is eventually decided.
PendingIsDecided == state = "pending" ~> state # "pending"

-----------------------------------------------------------------------------
(* The inductive invariant *)

\* Decided through its record, a review's first pending tier is the only one that
\* hears approvals: its tiers, the non-blocking ones too, are taken in sequence.
InSequence(r) == \A s, t \in DOMAIN r.tiers : s < t =>
    /\ r.tiers[t].approvedBy # {} \/ r.tiers[t].status = "approved" =>
          r.tiers[s].status = "approved"
    /\ r.tiers[t].status = "pending" => r.tiers[s].status # "waiting"

ReviewOK(r) ==
    /\ InSequence(r)
    /\ NotByRequester(r)
    /\ Quorate(r, {r.requestedBy})
    /\ r.status = "pending" =>
          /\ \A t \in DOMAIN r.tiers : r.tiers[t].status \in {"waiting", "pending", "approved"}
          /\ (\E t \in DOMAIN r.tiers : Tier[t].blocking) => PendingTiers(r) # {}

\* The round a pending record is in: its last review waits for approvers,
\* unless all its tiers are non-blocking and it was approved when created.
RoundOpen ==
    state = "pending" =>
        /\ Len(reviews) > 0
        /\ LastReview.requestedBy = submittedBy
        /\ \/ LastReview.status = "pending"
           \/ /\ LastReview.status = "approved"
              /\ TiersOf(LastReview.definition) # {}
              /\ \A t \in TiersOf(LastReview.definition) : ~Tier[t].blocking

\* What every reachable state satisfies when approvals go through the record:
\* the reviews are well formed, and a pending record is in an open round.
IInv ==
    /\ TypeOK
    /\ \A i \in DOMAIN reviews : ReviewOK(reviews[i])
    /\ MultitierReviewIsLive
    /\ RoundOpen
    /\ FullyApproved

=============================================================================
