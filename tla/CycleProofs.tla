----------------------------- MODULE CycleProofs -----------------------------
(***************************************************************************)
(* Proofs about Cycle for every set of beneficiaries, users, definitions,  *)
(* amounts and funds: under the default manager the reviews of an          *)
(* entitlement agree with its state, one with payments stays decided, what *)
(* is approved stays within the posted fund, and the rounds of approval of *)
(* the cycle begin afresh and end for good.                                *)
(*                                                                         *)
(* The argument: Moves lists everything the handlers do to one             *)
(* entitlement; each action only moves entitlements, and each move keeps   *)
(* the invariant of one entitlement. A step that approves anything grants  *)
(* a set which the balance covers, and no other step adds to the cost.     *)
(***************************************************************************)
EXTENDS Cycle, ApprovalProofs, SumProofs, TLAPS

\* What the handlers without a wizard do to an entitlement e with payments p.
Moves(e, f, p) ==
    \/ f = e
    \/ e.state # "none" /\ f = To("cancelled", e)
    \/ e.state = "none" /\ f = To("draft", e)
    \/ e.state = "draft" /\ p = "none" /\ f = NoEnt
    \/ e.state = "draft" /\ f = Submitted(e)
    \/ e.state = "pending_validation" /\ f = Approved(e)
    \/ e.state \in {"draft", "pending_validation"} /\ f = Rejected("reject", e)
    \/ /\ e.state \in {"pending_validation", "cancelled", "reject", "rejected3"}
       /\ "approved" \notin e.reviews
       /\ f = Draft(e)
    \/ e.state = "approved" /\ f = To("expired", e)

\* What the wizards do to it, in whatever state they find it.
WizardMoves(e, f) ==
    \/ f = Rejected("rejected3", e)
    \/ f = To("pending_validation", e)

\* Reviews and state of one entitlement agree.
EntOK(e) ==
    /\ e \in Entitlement
    /\ e.state = "draft" => e.reviews = {}
    /\ e.state \in {"approved", "expired", "reject", "rejected3"} =>
          "pending" \notin e.reviews

\* Without wizards, moreover: what waits has an open review, what was approved
\* an approved one, and what has payments was approved.
PaidOK(e, p) ==
    /\ e.state = "pending_validation" => "pending" \in e.reviews
    /\ e.state \in {"approved", "expired"} => "approved" \in e.reviews
    /\ p # "none" => /\ e.state \in {"approved", "expired", "cancelled"}
                     /\ "approved" \in e.reviews

ReviewsInv == manager = "default" =>
    /\ ent \in [Beneficiaries -> Entitlement]
    /\ \A b \in Beneficiaries : EntOK(ent[b])

PaidInv == manager = "default" =>
    /\ wizards = {}
    /\ \A b \in Beneficiaries : PaidOK(ent[b], payment[b])

-----------------------------------------------------------------------------
(* Single entitlements *)

LEMMA EntFields ==
    ASSUME NEW e \in Entitlement
    PROVE  /\ e.reviews \in SUBSET {"pending", "approved"}
           /\ e.state = "none" => e = NoEnt
           /\ e = [state |-> e.state, reviews |-> e.reviews]
           /\ \A s : To(s, e) = [state |-> s, reviews |-> e.reviews]
BY DEF Entitlement, NoEnt, EntStates, To

\* A record with a state and reviews is an entitlement.
LEMMA EntIntro ==
    ASSUME NEW s \in EntStates, NEW R \in SUBSET {"pending", "approved"}
    PROVE  [state |-> s, reviews |-> R] \in Entitlement
BY DEF Entitlement

LEMMA MovesKeepReviews ==
    ASSUME NEW e, NEW f, NEW p, EntOK(e), Moves(e, f, p) \/ WizardMoves(e, f)
    PROVE  EntOK(f)
<1>1. e \in Entitlement
  BY DEF EntOK
<1>2. /\ e.reviews \in SUBSET {"pending", "approved"}
      /\ e.state = "none" => e = NoEnt
      /\ \A s : To(s, e) = [state |-> s, reviews |-> e.reviews]
  BY <1>1, EntFields
<1>3. e.reviews \ {"pending"} \in SUBSET {"pending", "approved"}
  BY <1>2
<1>4. CASE f = e
  BY <1>4
<1>5. CASE f = To("cancelled", e) \/ f = To("pending_validation", e)
  <2>1. \E s \in {"cancelled", "pending_validation"} : f = [state |-> s, reviews |-> e.reviews]
    BY <1>2, <1>5
  <2>. QED BY <2>1, <1>2, EntIntro DEF EntOK, EntStates
<1>6. CASE e.state = "none" /\ f = To("draft", e)
  <2>1. f = [state |-> "draft", reviews |-> {}]
    BY <1>2, <1>6 DEF NoEnt
  <2>. QED BY <2>1, EntIntro DEF EntOK, EntStates
<1>7. CASE f = NoEnt
  BY <1>7 DEF NoEnt, EntOK, Entitlement
<1>8. CASE f = Submitted(e)
  <2>1. e.reviews \cup {"pending"} \in SUBSET {"pending", "approved"}
    BY <1>2
  <2>. QED BY <1>8, <2>1, EntIntro DEF Submitted, EntOK, EntStates
<1>9. CASE f = Approved(e)
  <2>1. \E R \in SUBSET {"pending", "approved"} :
           f = [state |-> "approved", reviews |-> R] /\ "pending" \notin R
    <3>1. CASE "pending" \in e.reviews
      BY <1>9, <3>1 DEF Approved
    <3>2. CASE "pending" \notin e.reviews
      BY <1>2, <1>9, <3>2 DEF Approved
    <3>. QED BY <3>1, <3>2
  <2>. QED BY <2>1, EntIntro DEF EntOK, EntStates
<1>10. CASE f = Rejected("reject", e) \/ f = Rejected("rejected3", e)
  <2>1. \E s \in {"reject", "rejected3"} :
           f = [state |-> s, reviews |-> e.reviews \ {"pending"}]
    BY <1>10 DEF Rejected
  <2>. QED BY <2>1, <1>3, EntIntro DEF EntOK, EntStates
<1>11. CASE "approved" \notin e.reviews /\ f = Draft(e)
  <2>1. f = [state |-> "draft", reviews |-> {}]
    BY <1>2, <1>11 DEF Draft
  <2>. QED BY <2>1, EntIntro DEF EntOK, EntStates
<1>12. CASE e.state = "approved" /\ f = To("expired", e)
  <2>1. f = [state |-> "expired", reviews |-> e.reviews] /\ "pending" \notin e.reviews
    BY <1>2, <1>12 DEF EntOK
  <2>. QED BY <2>1, <1>2, EntIntro DEF EntOK, EntStates
<1>. QED
  BY <1>4, <1>5, <1>6, <1>7, <1>8, <1>9, <1>10, <1>11, <1>12 DEF Moves, WizardMoves

LEMMA MovesKeepPaid ==
    ASSUME NEW e, NEW f, NEW p, EntOK(e), PaidOK(e, p), Moves(e, f, p)
    PROVE  PaidOK(f, p)
<1>1. e \in Entitlement
  BY DEF EntOK
<1>2. /\ e.reviews \in SUBSET {"pending", "approved"}
      /\ e.state = "none" => e = NoEnt
      /\ \A s : To(s, e) = [state |-> s, reviews |-> e.reviews]
  BY <1>1, EntFields
<1>3. CASE f = e
  BY <1>3
<1>4. CASE e.state # "none" /\ f = To("cancelled", e)
  BY <1>2, <1>4 DEF PaidOK
<1>5. CASE e.state = "none" /\ f = To("draft", e)
  BY <1>2, <1>5 DEF PaidOK
<1>6. CASE e.state = "draft" /\ p = "none" /\ f = NoEnt
  BY <1>6 DEF PaidOK, NoEnt
<1>7. CASE e.state = "draft" /\ f = Submitted(e)
  BY <1>7 DEF PaidOK, Submitted
<1>8. CASE e.state = "pending_validation" /\ f = Approved(e)
  BY <1>8 DEF PaidOK, Approved
<1>9. CASE e.state \in {"draft", "pending_validation"} /\ f = Rejected("reject", e)
  BY <1>9 DEF PaidOK, Rejected
<1>10. CASE "approved" \notin e.reviews /\ f = Draft(e)
  BY <1>10 DEF PaidOK, Draft
<1>11. CASE e.state = "approved" /\ f = To("expired", e)
  BY <1>2, <1>11 DEF PaidOK
<1>. QED
  BY <1>3, <1>4, <1>5, <1>6, <1>7, <1>8, <1>9, <1>10, <1>11 DEF Moves

-----------------------------------------------------------------------------
(* The actions move entitlements *)

\* A step in which every entitlement makes a move.
StepMoves ==
    /\ ent' = [b \in Beneficiaries |-> ent'[b]]
    /\ \A b \in Beneficiaries : Moves(ent[b], ent'[b], payment[b])
    /\ UNCHANGED <<manager, payment, wizards>>

\* A step that leaves the entitlements alone, or the move of one of them.
LEMMA NoMove ==
    ASSUME manager = "default", ReviewsInv, UNCHANGED <<manager, ent, payment, wizards>>
    PROVE  StepMoves
BY DEF StepMoves, ReviewsInv, Moves

LEMMA OneMove ==
    ASSUME manager = "default", ReviewsInv, NEW b \in Beneficiaries, NEW f,
           SetEnt(b, f), Moves(ent[b], f, payment[b]), UNCHANGED wizards
    PROVE  StepMoves
<1>1. \A c \in Beneficiaries : ent'[c] = IF c = b THEN f ELSE ent[c]
  BY DEF SetEnt, ReviewsInv
<1>. QED BY <1>1 DEF SetEnt, StepMoves, ReviewsInv, Moves

LEMMA PrepareMoves ==
    ASSUME manager = "default", ReviewsInv, PrepareNext
    PROVE  StepMoves
<1>1. ASSUME NEW S \in SUBSET Beneficiaries, CopyBeneficiaries(S) PROVE StepMoves
  BY <1>1, NoMove DEF CopyBeneficiaries, CycleUnchanged
<1>2. ASSUME NEW S \in SUBSET Beneficiaries, CheckEligibility(S) PROVE StepMoves
  <2> DEFINE T == ({b \in Beneficiaries : member[b] # "none"} \ S) \ In({"none"})
  <2>1. /\ ent' = Update(T, LAMBDA e : To("cancelled", e))
        /\ UNCHANGED <<manager, payment, wizards>>
    BY <1>2 DEF CheckEligibility, CycleUnchanged
  <2>2. \A b \in T : ent[b].state # "none"
    BY DEF In
  <2> HIDE DEF T
  <2>3. \A b \in Beneficiaries : ent'[b] = IF b \in T THEN To("cancelled", ent[b]) ELSE ent[b]
    BY <2>1 DEF Update
  <2>4. ent' = [b \in Beneficiaries |-> ent'[b]]
    BY <2>1 DEF Update
  <2>5. \A b \in Beneficiaries : Moves(ent[b], ent'[b], payment[b])
    BY <2>2, <2>3 DEF Moves
  <2>. QED BY <2>1, <2>4, <2>5 DEF StepMoves
<1>3. CASE PrepareEntitlements
  <2> DEFINE T == {b \in In({"none"}) : member[b] = "enrolled"}
  <2>1. /\ ent' = Update(T, LAMBDA e : To("draft", e))
        /\ UNCHANGED <<manager, payment, wizards>>
    BY <1>3 DEF PrepareEntitlements, CycleUnchanged
  <2>2. \A b \in T : ent[b].state = "none"
    BY DEF In
  <2> HIDE DEF T
  <2>3. \A b \in Beneficiaries : ent'[b] = IF b \in T THEN To("draft", ent[b]) ELSE ent[b]
    BY <2>1 DEF Update
  <2>4. ent' = [b \in Beneficiaries |-> ent'[b]]
    BY <2>1 DEF Update
  <2>5. \A b \in Beneficiaries : Moves(ent[b], ent'[b], payment[b])
    BY <2>2, <2>3 DEF Moves
  <2>. QED BY <2>1, <2>4, <2>5 DEF StepMoves
<1>4. ASSUME NEW b \in Beneficiaries, UnlinkEntitlement(b) PROVE StepMoves
  <2>1. \A c \in Beneficiaries : ent'[c] = IF c = b THEN NoEnt ELSE ent[c]
    BY <1>4 DEF UnlinkEntitlement, ReviewsInv
  <2>2. ent' = [c \in Beneficiaries |-> ent'[c]]
    BY <1>4 DEF UnlinkEntitlement, ReviewsInv
  <2>3. \A c \in Beneficiaries : Moves(ent[c], ent'[c], payment[c])
    BY <1>4, <2>1 DEF UnlinkEntitlement, Moves
  <2>. QED BY <1>4, <2>2, <2>3 DEF StepMoves, UnlinkEntitlement, CycleUnchanged
<1>5. CASE PostFund
  BY <1>5, NoMove DEF PostFund
<1>. QED BY <1>1, <1>2, <1>3, <1>4, <1>5 DEF PrepareNext

LEMMA DecideMoves ==
    ASSUME manager = "default", ReviewsInv, DecideNext
    PROVE  StepMoves
<1>1. ASSUME NEW u \in Users, NEW d \in Definitions, SubmitCycle(u, d) PROVE StepMoves
  <2>1. ent' = Update(In({"draft"}), Submitted) /\ UNCHANGED <<manager, payment, wizards>>
    BY <1>1 DEF SubmitCycle
  <2>2. ent' = [b \in Beneficiaries |-> ent'[b]]
    BY <2>1 DEF Update
  <2>3. \A b \in Beneficiaries :
           ent'[b] = IF ent[b].state = "draft" THEN Submitted(ent[b]) ELSE ent[b]
    BY <2>1 DEF Update, In
  <2>4. \A b \in Beneficiaries : Moves(ent[b], ent'[b], payment[b])
    BY <2>3 DEF Moves
  <2>. QED BY <2>1, <2>2, <2>4 DEF StepMoves
<1>2. ASSUME NEW u \in Users, ApproveCycle(u) PROVE StepMoves
  <2>1. UNCHANGED <<manager, payment, wizards>>
    BY <1>2 DEF ApproveCycle
  <2>2. CASE auto
    <3>1. In({"draft"}) = {} /\ ent' = Update(Undecided, Approved)
      BY <1>2, <2>2 DEF ApproveCycle
    <3>2. ent' = [b \in Beneficiaries |-> ent'[b]]
      BY <3>1 DEF Update
    <3>3. \A b \in Undecided : ent[b].state = "pending_validation"
      BY <3>1 DEF Undecided, In
    <3>4. \A b \in Beneficiaries :
             ent'[b] = IF b \in Undecided THEN Approved(ent[b]) ELSE ent[b]
      BY <3>1 DEF Update
    <3>5. \A b \in Beneficiaries : Moves(ent[b], ent'[b], payment[b])
      BY <3>3, <3>4 DEF Moves
    <3>. QED BY <2>1, <3>2, <3>5 DEF StepMoves
  <2>3. CASE ~auto
    BY <1>2, <2>1, <2>3, NoMove DEF ApproveCycle
  <2>. QED BY <2>2, <2>3
<1>3. ASSUME NEW u \in Users, ApproveCycleUnfunded(u) PROVE StepMoves
  BY <1>3, NoMove DEF ApproveCycleUnfunded, cycleVars
<1>4. ASSUME NEW u \in Users, OpenCycleRejection(u) PROVE StepMoves
  BY <1>4, NoMove DEF OpenCycleRejection, cycleVars
<1>5. ASSUME NEW u \in Users, RejectCycle(u) PROVE StepMoves
  <2>1. /\ ent' = Update(In({"pending_validation"}), LAMBDA e : To("cancelled", e))
        /\ UNCHANGED <<manager, payment, wizards>>
    BY <1>5 DEF RejectCycle
  <2>2. ent' = [b \in Beneficiaries |-> ent'[b]]
    BY <2>1 DEF Update
  <2>3. \A b \in Beneficiaries :
           ent'[b] = IF ent[b].state = "pending_validation" THEN To("cancelled", ent[b])
                     ELSE ent[b]
    BY <2>1 DEF Update, In
  <2>4. \A b \in Beneficiaries : Moves(ent[b], ent'[b], payment[b])
    BY <2>3 DEF Moves
  <2>. QED BY <2>1, <2>2, <2>4 DEF StepMoves
<1>6. ASSUME NEW u \in Users, ReviseCycle(u) PROVE StepMoves
  BY <1>6, NoMove DEF ReviseCycle, cycleVars
<1>7. CASE ResetCycle
  <2> DEFINE T == In({"pending_validation", "cancelled"})
  <2>1. /\ ent' = Update(T, Draft) /\ UNCHANGED <<manager, payment, wizards>>
        /\ \A b \in T : "approved" \notin ent[b].reviews
    BY <1>7 DEF ResetCycle
  <2>2. \A b \in T : ent[b].state \in {"pending_validation", "cancelled"}
    BY DEF In
  <2> HIDE DEF T
  <2>3. ent' = [b \in Beneficiaries |-> ent'[b]]
    BY <2>1 DEF Update
  <2>4. \A b \in Beneficiaries : ent'[b] = IF b \in T THEN Draft(ent[b]) ELSE ent[b]
    BY <2>1 DEF Update
  <2>5. \A b \in Beneficiaries : Moves(ent[b], ent'[b], payment[b])
    BY <2>1, <2>2, <2>4 DEF Moves
  <2>. QED BY <2>1, <2>3, <2>5 DEF StepMoves
<1>8. CASE ArchiveProgram
  <2> DEFINE T == Undecided \cup In({"approved"})
  <2>1. /\ ent' = Update(T, LAMBDA e : To("cancelled", e))
        /\ UNCHANGED <<manager, payment, wizards>>
    BY <1>8 DEF ArchiveProgram
  <2>2. \A b \in T : ent[b].state # "none"
    BY DEF In, Undecided
  <2> HIDE DEF T
  <2>3. ent' = [b \in Beneficiaries |-> ent'[b]]
    BY <2>1 DEF Update
  <2>4. \A b \in Beneficiaries : ent'[b] = IF b \in T THEN To("cancelled", ent[b]) ELSE ent[b]
    BY <2>1 DEF Update
  <2>5. \A b \in Beneficiaries : Moves(ent[b], ent'[b], payment[b])
    BY <2>2, <2>4 DEF Moves
  <2>. QED BY <2>1, <2>3, <2>5 DEF StepMoves
<1>9. ASSUME NEW c \in {"distributed", "ended", "cancelled"}, MarkCycle(c) PROVE StepMoves
  BY <1>9, NoMove DEF MarkCycle
<1>. QED BY <1>1, <1>2, <1>3, <1>4, <1>5, <1>6, <1>7, <1>8, <1>9 DEF DecideNext

\* Steps that leave the entitlements alone and touch their payments, and only of
\* entitlements that are approved or have some.
PaymentStep ==
    /\ UNCHANGED <<manager, ent, wizards>>
    /\ \A b \in Beneficiaries :
          payment'[b] = payment[b] \/ ent[b].state = "approved" \/ payment[b] # "none"

\* A step of a wizard, which was open.
WizardStep ==
    /\ ent' = [b \in Beneficiaries |-> ent'[b]]
    /\ \A b \in Beneficiaries : ent'[b] = ent[b] \/ WizardMoves(ent[b], ent'[b])
    /\ UNCHANGED <<manager, payment>>
    /\ wizards # {}

\* The step that opens a wizard.
OpeningStep == UNCHANGED <<manager, ent, payment>> /\ OpenWizards # {}

LEMMA EntitlementMoves ==
    ASSUME manager = "default", ReviewsInv, EntitlementNext
    PROVE  StepMoves \/ PaymentStep \/ WizardStep \/ OpeningStep
<1>1. ASSUME NEW u \in Users, NEW S \in SUBSET Beneficiaries, ApproveSelected(u, S)
      PROVE  StepMoves
  <2>1. PICK P \in Affordable(S) : ent' = Update(P, ManagerApproved)
    BY <1>1 DEF ApproveSelected
  <2>2. P \in SUBSET S /\ \A b \in P : ent[b].state = "pending_validation"
    BY <1>1, <2>1 DEF ApproveSelected, Affordable, MayDecideEnt
  <2>3. ent' = [b \in Beneficiaries |-> ent'[b]]
    BY <2>1 DEF Update
  <2>4. \A b \in Beneficiaries : ent'[b] = IF b \in P THEN Approved(ent[b]) ELSE ent[b]
    BY <2>1 DEF Update, ManagerApproved
  <2>5. \A b \in Beneficiaries : Moves(ent[b], ent'[b], payment[b])
    BY <2>2, <2>4 DEF Moves
  <2>. QED BY <1>1, <2>3, <2>5 DEF StepMoves, ApproveSelected, CycleUnchanged
<1>2. ASSUME NEW u \in Users, NEW b \in Beneficiaries, ApproveEntitlement(u, b)
      PROVE  StepMoves
  BY <1>2, OneMove DEF ApproveEntitlement, MayDecideEnt, Moves
<1>3. ASSUME NEW u \in Users, NEW b \in Beneficiaries, OpenRejectEntitlement(u, b)
      PROVE  OpeningStep
  BY <1>3 DEF OpenRejectEntitlement, OpeningStep
<1>4. CASE ValidateEntitlements
  <2>1. PICK P \in Affordable(Undecided) : Approvable(P) /\ ent' = Update(P, ManagerApproved)
    BY <1>4 DEF ValidateEntitlements
  <2>2. P \in SUBSET Undecided /\ P \cap In({"draft"}) = {}
    BY <2>1 DEF Affordable, Approvable
  <2>3. \A b \in P : ent[b].state = "pending_validation"
    BY <2>2 DEF Undecided, In
  <2>4. ent' = [b \in Beneficiaries |-> ent'[b]]
    BY <2>1 DEF Update
  <2>5. \A b \in Beneficiaries : ent'[b] = IF b \in P THEN Approved(ent[b]) ELSE ent[b]
    BY <2>1 DEF Update, ManagerApproved
  <2>6. \A b \in Beneficiaries : Moves(ent[b], ent'[b], payment[b])
    BY <2>3, <2>5 DEF Moves
  <2>. QED BY <1>4, <2>4, <2>6 DEF StepMoves, ValidateEntitlements
<1>5. ASSUME NEW b \in Beneficiaries, SubmitEntitlement(b) PROVE StepMoves
  BY <1>5, OneMove DEF SubmitEntitlement, Moves
<1>6. ASSUME NEW b \in Beneficiaries, RejectEntitlement(b) PROVE WizardStep
  <2>1. \A c \in Beneficiaries :
           ent'[c] = IF c = b THEN Rejected("rejected3", ent[b]) ELSE ent[c]
    BY <1>6 DEF RejectEntitlement, SetEnt, ReviewsInv
  <2>. QED BY <1>6, <2>1 DEF RejectEntitlement, SetEnt, WizardStep, WizardMoves, ReviewsInv
<1>7. ASSUME NEW b \in Beneficiaries, RejectSelected(b) PROVE StepMoves
  BY <1>7, OneMove DEF RejectSelected, Moves
<1>8. ASSUME NEW b \in Beneficiaries, OpenResetToPending(b) PROVE OpeningStep
  BY <1>8 DEF OpenResetToPending, OpeningStep
<1>9. ASSUME NEW b \in Beneficiaries, ResetToPending(b) PROVE WizardStep
  <2>1. \A c \in Beneficiaries :
           ent'[c] = IF c = b THEN To("pending_validation", ent[b]) ELSE ent[c]
    BY <1>9 DEF ResetToPending, SetEnt, ReviewsInv
  <2>. QED BY <1>9, <2>1 DEF ResetToPending, SetEnt, WizardStep, WizardMoves, ReviewsInv
<1>10. ASSUME NEW b \in Beneficiaries, ResetEntitlement(b) PROVE StepMoves
  BY <1>10, OneMove DEF ResetEntitlement, Moves
<1>11. ASSUME NEW b \in Beneficiaries, PaymentFails(b) PROVE PaymentStep
  <2>1. payment[b] = "issued" /\ payment' = [payment EXCEPT ![b] = "failed"]
    BY <1>11 DEF PaymentFails
  <2>2. \A c \in Beneficiaries \ {b} : payment'[c] = payment[c]
    BY <2>1
  <2>. QED BY <1>11, <2>1, <2>2 DEF PaymentFails, PaymentStep, CycleUnchanged
<1>12. CASE ExpireEntitlements
  <2>1. /\ ent' = Update(In({"approved"}), LAMBDA e : To("expired", e))
        /\ UNCHANGED <<manager, payment, wizards>>
    BY <1>12 DEF ExpireEntitlements, CycleUnchanged
  <2>2. ent' = [b \in Beneficiaries |-> ent'[b]]
    BY <2>1 DEF Update
  <2>3. \A b \in Beneficiaries :
           ent'[b] = IF ent[b].state = "approved" THEN To("expired", ent[b]) ELSE ent[b]
    BY <2>1 DEF Update, In
  <2>4. \A b \in Beneficiaries : Moves(ent[b], ent'[b], payment[b])
    BY <2>3 DEF Moves
  <2>. QED BY <2>1, <2>2, <2>4 DEF StepMoves
<1>13. CASE PreparePayments
  <2>1. \A b \in Beneficiaries :
           payment'[b] = IF ent[b].state = "approved" THEN "issued" ELSE payment[b]
    BY <1>13 DEF PreparePayments, In
  <2>. QED BY <1>13, <2>1 DEF PreparePayments, PaymentStep, CycleUnchanged
<1>. QED
  BY <1>1, <1>2, <1>3, <1>4, <1>5, <1>6, <1>7, <1>8, <1>9, <1>10, <1>11, <1>12, <1>13
     DEF EntitlementNext

-----------------------------------------------------------------------------
(* The theorems *)

\* Every step of the cycle, read as what it does to the entitlements.
LEMMA Steps ==
    ASSUME manager = "default", ReviewsInv, [CycleNext]_allVars
    PROVE  StepMoves \/ PaymentStep \/ WizardStep \/ OpeningStep
<1>1. CASE UNCHANGED allVars
  BY <1>1, NoMove DEF allVars, cycleVars
<1>. QED BY <1>1, PrepareMoves, DecideMoves, EntitlementMoves DEF CycleNext

\* No step changes the manager.
LEMMA ManagerStays ==
    ASSUME [CycleNext]_allVars
    PROVE  manager' = manager
<1>1. CASE PrepareNext
  BY <1>1 DEF PrepareNext, CopyBeneficiaries, CheckEligibility, PrepareEntitlements,
              UnlinkEntitlement, PostFund, CycleUnchanged
<1>2. CASE DecideNext
  BY <1>2 DEF DecideNext, SubmitCycle, ApproveCycle, ApproveCycleUnfunded,
              OpenCycleRejection, RejectCycle, ReviseCycle, ResetCycle, ArchiveProgram,
              MarkCycle, cycleVars
<1>3. CASE EntitlementNext
  BY <1>3 DEF EntitlementNext, ApproveSelected, ApproveEntitlement,
              OpenRejectEntitlement, ValidateEntitlements, SubmitEntitlement,
              RejectEntitlement, RejectSelected, OpenResetToPending, ResetToPending,
              ResetEntitlement, PaymentFails, ExpireEntitlements, PreparePayments,
              SetEnt, CycleUnchanged
<1>. QED BY <1>1, <1>2, <1>3 DEF CycleNext, allVars, cycleVars

LEMMA ReviewsInit == ASSUME CycleInit PROVE ReviewsInv
<1>1. EntOK(NoEnt)
  BY DEF EntOK, NoEnt, Entitlement
<1>. QED BY <1>1 DEF CycleInit, ReviewsInv, EntOK

LEMMA ReviewsNext == ASSUME ReviewsInv, [CycleNext]_allVars PROVE ReviewsInv'
<1> SUFFICES ASSUME manager = "default"
             PROVE  /\ ent' \in [Beneficiaries -> Entitlement]
                    /\ \A b \in Beneficiaries : EntOK(ent'[b])
  BY ManagerStays DEF ReviewsInv
<1>1. \A b \in Beneficiaries : EntOK(ent[b])
  BY DEF ReviewsInv
<1>2. CASE StepMoves \/ WizardStep
  <2>1. \A b \in Beneficiaries :
           \/ ent'[b] = ent[b]
           \/ Moves(ent[b], ent'[b], payment[b]) \/ WizardMoves(ent[b], ent'[b])
    BY <1>2 DEF StepMoves, WizardStep
  <2>2. \A b \in Beneficiaries : EntOK(ent'[b])
    BY <1>1, <2>1, MovesKeepReviews
  <2>3. ent' = [b \in Beneficiaries |-> ent'[b]]
    BY <1>2 DEF StepMoves, WizardStep
  <2>. QED BY <2>2, <2>3 DEF EntOK
<1>3. CASE PaymentStep \/ OpeningStep
  BY <1>3 DEF PaymentStep, OpeningStep, ReviewsInv
<1>. QED BY <1>2, <1>3, Steps

\* The reviews of an entitlement agree with its state, whatever wizards, rounds,
\* selections and payments come together.
THEOREM ReviewsAgree == CycleSpec => []EntitlementReviewsMatchState
<1>1. ReviewsInv => EntitlementReviewsMatchState
  BY DEF ReviewsInv, EntOK, EntitlementReviewsMatchState
<1>. QED BY <1>1, ReviewsInit, ReviewsNext, PTL DEF CycleSpec

LEMMA PaidNext ==
    ASSUME ReviewsInv, PaidInv, OpenWizards = {}, wizards' \subseteq OpenWizards,
           [CycleNext]_allVars
    PROVE  PaidInv'
<1> SUFFICES ASSUME manager = "default"
             PROVE  /\ wizards' = {}
                    /\ \A b \in Beneficiaries : PaidOK(ent'[b], payment'[b])
  BY ManagerStays DEF PaidInv
<1>1. /\ wizards = {} /\ wizards' = {}
      /\ \A b \in Beneficiaries : EntOK(ent[b]) /\ PaidOK(ent[b], payment[b])
  BY DEF ReviewsInv, PaidInv
<1>2. StepMoves \/ PaymentStep
  BY <1>1, Steps DEF WizardStep, OpeningStep
<1>3. CASE StepMoves
  BY <1>1, <1>3, MovesKeepPaid DEF StepMoves
<1>4. CASE PaymentStep
  BY <1>1, <1>4 DEF PaymentStep, PaidOK
<1>. QED BY <1>1, <1>2, <1>3, <1>4

\* Wizards are among those that may be left open.
LEMMA WizardsTyped ==
    ASSUME wizards \subseteq OpenWizards, [CycleNext]_allVars
    PROVE  wizards' \subseteq OpenWizards
<1>1. CASE PrepareNext
  BY <1>1 DEF PrepareNext, CopyBeneficiaries, CheckEligibility, PrepareEntitlements,
              UnlinkEntitlement, PostFund, CycleUnchanged
<1>2. CASE DecideNext
  BY <1>2 DEF DecideNext, SubmitCycle, ApproveCycle, ApproveCycleUnfunded,
              OpenCycleRejection, RejectCycle, ReviseCycle, ResetCycle, ArchiveProgram,
              MarkCycle, cycleVars
<1>3. CASE EntitlementNext
  BY <1>3 DEF EntitlementNext, ApproveSelected, ApproveEntitlement,
              OpenRejectEntitlement, ValidateEntitlements, SubmitEntitlement,
              RejectEntitlement, RejectSelected, OpenResetToPending, ResetToPending,
              ResetEntitlement, PaymentFails, ExpireEntitlements, PreparePayments,
              CycleUnchanged
<1>. QED BY <1>1, <1>2, <1>3 DEF CycleNext, allVars, cycleVars

\* Where no wizard is left open an entitlement with payments never becomes
\* editable again, over any number of rounds, resets and failed payments.
THEOREM PaidStaysDecided ==
    ASSUME OpenWizards = {}
    PROVE  CycleSpec => []PaidEntitlementIsFinal
<1> DEFINE Inv == ReviewsInv /\ PaidInv /\ wizards \subseteq OpenWizards
<1>1. CycleInit => Inv
  <2>1. PaidOK(NoEnt, "none")
    BY DEF PaidOK, NoEnt
  <2>. QED BY <2>1, ReviewsInit DEF CycleInit, PaidInv
<1>2. Inv /\ [CycleNext]_allVars => Inv'
  BY ReviewsNext, PaidNext, WizardsTyped
<1>3. Inv => PaidEntitlementIsFinal
  BY DEF PaidInv, PaidOK, PaidEntitlementIsFinal
<1>. QED BY <1>1, <1>2, <1>3, PTL DEF CycleSpec

-----------------------------------------------------------------------------
(* What each step does to the entitlements, under any manager *)

\* Every handler leaves an entitlement it is given one of the known records.
LEMMA EntOperators ==
    ASSUME NEW e \in Entitlement
    PROVE  /\ \A s \in EntStates : To(s, e) \in Entitlement /\ To(s, e).state = s
           /\ \A s \in EntStates : Rejected(s, e) \in Entitlement /\ Rejected(s, e).state = s
           /\ Approved(e) \in Entitlement
           /\ Submitted(e) \in Entitlement /\ Submitted(e).state = "pending_validation"
           /\ Draft(e) \in Entitlement /\ Draft(e).state = "draft"
           /\ NoEnt \in Entitlement /\ NoEnt.state = "none"
<1>1. /\ e.reviews \in SUBSET {"pending", "approved"}
      /\ \A s : To(s, e) = [state |-> s, reviews |-> e.reviews]
  BY EntFields
<1>2. /\ e.reviews \ {"pending"} \in SUBSET {"pending", "approved"}
      /\ e.reviews \cup {"pending"} \in SUBSET {"pending", "approved"}
      /\ {"approved"} \in SUBSET {"pending", "approved"}
  BY <1>1
<1>3. \A s \in EntStates : To(s, e) \in Entitlement /\ To(s, e).state = s
  BY <1>1, EntIntro
<1>4. \A s \in EntStates : Rejected(s, e) \in Entitlement /\ Rejected(s, e).state = s
  BY <1>2, EntIntro DEF Rejected
<1>5. Approved(e) \in Entitlement
  BY <1>1, <1>2, EntIntro DEF Approved, EntStates
<1>6. Submitted(e) \in Entitlement /\ Submitted(e).state = "pending_validation"
  BY <1>2, EntIntro DEF Submitted, EntStates
<1>7. Draft(e) \in Entitlement /\ Draft(e).state = "draft"
  BY <1>2, EntIntro DEF Draft, EntStates
<1>8. NoEnt \in Entitlement /\ NoEnt.state = "none"
  BY DEF NoEnt, Entitlement
<1>. QED BY <1>3, <1>4, <1>5, <1>6, <1>7, <1>8

\* The entitlements stay typed, and only those of P are newly approved.
EntStep(P) ==
    /\ ent' \in [Beneficiaries -> Entitlement]
    /\ \A b \in Beneficiaries :
          ent'[b].state = "approved" => ent[b].state = "approved" \/ b \in P

\* Those of P are approved with the ones that were.
Grants(P) ==
    /\ EntStep(P)
    /\ \A b \in Beneficiaries :
          ent[b].state = "approved" \/ b \in P => ent'[b].state = "approved"

EntTyped == ent \in [Beneficiaries -> Entitlement]

\* The step that turns the entitlements of T into f, none of them approved.
LEMMA UpdateStep ==
    ASSUME EntTyped, NEW T, NEW f,
           \A b \in Beneficiaries : f[b] \in Entitlement /\ f[b].state # "approved",
           ent' = [b \in Beneficiaries |-> IF b \in T THEN f[b] ELSE ent[b]]
    PROVE  EntStep({})
BY DEF EntTyped, EntStep

\* The step that approves the entitlements of T.
LEMMA ApprovalStep ==
    ASSUME EntTyped, NEW T, NEW f,
           \A b \in Beneficiaries : f[b] \in Entitlement /\ f[b].state = "approved",
           ent' = [b \in Beneficiaries |-> IF b \in T THEN f[b] ELSE ent[b]]
    PROVE  Grants(T)
BY DEF EntTyped, EntStep, Grants

\* The step that sets one entitlement, not to approved.
LEMMA SetStep ==
    ASSUME EntTyped, NEW b \in Beneficiaries, NEW f \in Entitlement,
           f.state # "approved", ent' = [ent EXCEPT ![b] = f]
    PROVE  EntStep({})
BY DEF EntTyped, EntStep

\* The step that leaves the entitlements alone.
LEMMA EntKept ==
    ASSUME EntTyped, UNCHANGED ent
    PROVE  EntStep({})
BY DEF EntTyped, EntStep

LEMMA PrepareEntStep ==
    ASSUME EntTyped, PrepareNext
    PROVE  EntStep({})
<1>1. ASSUME NEW S \in SUBSET Beneficiaries, CopyBeneficiaries(S) PROVE EntStep({})
  BY <1>1, EntKept DEF CopyBeneficiaries
<1>2. ASSUME NEW S \in SUBSET Beneficiaries, CheckEligibility(S) PROVE EntStep({})
  <2> DEFINE T == ({b \in Beneficiaries : member[b] # "none"} \ S) \ In({"none"})
             f == [b \in Beneficiaries |-> To("cancelled", ent[b])]
  <2>1. ent' = [b \in Beneficiaries |-> IF b \in T THEN f[b] ELSE ent[b]]
    BY <1>2 DEF CheckEligibility, Update
  <2>2. \A b \in Beneficiaries : f[b] \in Entitlement /\ f[b].state # "approved"
    BY EntOperators DEF EntTyped, EntStates
  <2> HIDE DEF T, f
  <2>. QED BY <2>1, <2>2, UpdateStep
<1>3. CASE PrepareEntitlements
  <2> DEFINE T == {b \in In({"none"}) : member[b] = "enrolled"}
             f == [b \in Beneficiaries |-> To("draft", ent[b])]
  <2>1. ent' = [b \in Beneficiaries |-> IF b \in T THEN f[b] ELSE ent[b]]
    BY <1>3 DEF PrepareEntitlements, Update
  <2>2. \A b \in Beneficiaries : f[b] \in Entitlement /\ f[b].state # "approved"
    BY EntOperators DEF EntTyped, EntStates
  <2> HIDE DEF T, f
  <2>. QED BY <2>1, <2>2, UpdateStep
<1>4. ASSUME NEW b \in Beneficiaries, UnlinkEntitlement(b) PROVE EntStep({})
  <2>1. NoEnt \in Entitlement /\ NoEnt.state # "approved"
    BY DEF NoEnt, Entitlement
  <2>. QED BY <1>4, <2>1, SetStep DEF UnlinkEntitlement
<1>5. CASE PostFund
  BY <1>5, EntKept DEF PostFund
<1>. QED BY <1>1, <1>2, <1>3, <1>4, <1>5 DEF PrepareNext

\* Totals are natural numbers, and no total is more than those of its parts.
LEMMA TotalSum ==
    ASSUME NEW S \in SUBSET Beneficiaries
    PROVE  Total(S) = SumFunctionOnSet(Amount, S) /\ Total(S) \in Nat
<1>1. Total(S) = SumFunctionOnSet(Amount, S)
  BY SumOfMap DEF Total
<1>2. IsFiniteSet(S) /\ \A b \in S : Amount[b] \in Nat
  BY CycleAssumption, FS_Subset
<1>3. SumFunctionOnSet(Amount, S) \in Nat
  BY <1>2, SumNat
<1>. QED BY <1>1, <1>3

LEMMA TotalOfUnion ==
    ASSUME NEW S \in SUBSET Beneficiaries, NEW T \in SUBSET Beneficiaries
    PROVE  Total(S \cup T) <= Total(S) + Total(T)
<1>1. IsFiniteSet(S) /\ IsFiniteSet(T)
  BY CycleAssumption, FS_Subset
<1>2. NaturalOn(Amount, S \cup T)
  BY CycleAssumption DEF NaturalOn
<1>3. SumFunctionOnSet(Amount, S \cup T) <=
         SumFunctionOnSet(Amount, S) + SumFunctionOnSet(Amount, T)
  BY <1>1, <1>2, SumUnion
<1>4. /\ Total(S) = SumFunctionOnSet(Amount, S)
      /\ Total(T) = SumFunctionOnSet(Amount, T)
  BY TotalSum
<1>5. Total(S \cup T) = SumFunctionOnSet(Amount, S \cup T)
  <2> DEFINE U == S \cup T
  <2>1. U \in SUBSET Beneficiaries
    OBVIOUS
  <2> HIDE DEF U
  <2>2. Total(U) = SumFunctionOnSet(Amount, U)
    BY <2>1, TotalSum
  <2>. QED BY <2>2 DEF U
<1>. QED BY <1>3, <1>4, <1>5

LEMMA TotalOfPart ==
    ASSUME NEW S \in SUBSET Beneficiaries, NEW T \in SUBSET S
    PROVE  Total(T) <= Total(S)
<1>1. IsFiniteSet(S) /\ T \subseteq S /\ \A b \in S : Amount[b] \in Nat
  BY CycleAssumption, FS_Subset
<1>2. SumFunctionOnSet(Amount, T) <= SumFunctionOnSet(Amount, S)
  BY <1>1, SumSubset
<1>3. T \in SUBSET Beneficiaries
  OBVIOUS
<1>. QED BY <1>2, <1>3, TotalSum

LEMMA TotalOfOne ==
    ASSUME NEW b \in Beneficiaries
    PROVE  Total({b}) = Amount[b]
<1> DEFINE S == {b}
<1>1. S \in SUBSET Beneficiaries /\ b \in S /\ Without(S, b) = {}
  BY DEF Without
<1>2. IsFiniteSet(S) /\ IntegerOn(Amount, S)
  BY <1>1, CycleAssumption, FS_Subset DEF IntegerOn
<1> HIDE DEF S
<1>3. SumFunctionOnSet(Amount, S) = Amount[b] + SumFunctionOnSet(Amount, Without(S, b))
  BY <1>1, <1>2, SumElement
<1>4. SumFunctionOnSet(Amount, Without(S, b)) = 0
  BY <1>1, SumEmpty
<1>5. Amount[b] \in Int
  BY <1>1, <1>2 DEF IntegerOn
<1>6. Total(S) = Amount[b]
  BY <1>1, <1>3, <1>4, <1>5, TotalSum
<1>. QED BY <1>6 DEF S

\* Entitlements whose amounts the balance covers.
Covered(P) == P \in SUBSET Beneficiaries /\ Total(P) <= Balance

LEMMA DecideEntStep ==
    ASSUME EntTyped, DecideNext
    PROVE  EntStep({}) \/ \E P : Covered(P) /\ Grants(P)
<1>1. ASSUME NEW u \in Users, NEW d \in Definitions, SubmitCycle(u, d) PROVE EntStep({})
  <2> DEFINE T == In({"draft"})
             f == [b \in Beneficiaries |-> Submitted(ent[b])]
  <2>1. ent' = [b \in Beneficiaries |-> IF b \in T THEN f[b] ELSE ent[b]]
    BY <1>1 DEF SubmitCycle, Update
  <2>2. \A b \in Beneficiaries : f[b] \in Entitlement /\ f[b].state # "approved"
    BY EntOperators DEF EntTyped
  <2> HIDE DEF T, f
  <2>. QED BY <2>1, <2>2, UpdateStep
<1>2. ASSUME NEW u \in Users, ApproveCycle(u)
      PROVE  EntStep({}) \/ \E P : Covered(P) /\ Grants(P)
  <2>1. CASE auto
    <3> DEFINE f == [b \in Beneficiaries |-> Approved(ent[b])]
    <3>1. ent' = [b \in Beneficiaries |-> IF b \in Undecided THEN f[b] ELSE ent[b]]
      BY <1>2, <2>1 DEF ApproveCycle, Update
    <3>2. \A b \in Beneficiaries : f[b] \in Entitlement /\ f[b].state = "approved"
      BY EntOperators DEF EntTyped, Approved
    <3> HIDE DEF f
    <3>3. Grants(Undecided)
      BY <3>1, <3>2, ApprovalStep
    <3>4. Covered(Undecided)
      BY <1>2, <2>1 DEF ApproveCycle, FundsSuffice, Covered, Undecided, In
    <3>. QED BY <3>3, <3>4
  <2>2. CASE ~auto
    BY <1>2, <2>2, EntKept DEF ApproveCycle
  <2>. QED BY <2>1, <2>2
<1>3. ASSUME NEW u \in Users,
             ApproveCycleUnfunded(u) \/ OpenCycleRejection(u) \/ ReviseCycle(u)
      PROVE  EntStep({})
  BY <1>3, EntKept DEF ApproveCycleUnfunded, OpenCycleRejection, ReviseCycle, cycleVars
<1>4. ASSUME NEW u \in Users, RejectCycle(u) PROVE EntStep({})
  <2> DEFINE T == In({"pending_validation"})
             f == [b \in Beneficiaries |-> To("cancelled", ent[b])]
  <2>1. ent' = [b \in Beneficiaries |-> IF b \in T THEN f[b] ELSE ent[b]]
    BY <1>4 DEF RejectCycle, Update
  <2>2. \A b \in Beneficiaries : f[b] \in Entitlement /\ f[b].state # "approved"
    BY EntOperators DEF EntTyped, EntStates
  <2> HIDE DEF T, f
  <2>. QED BY <2>1, <2>2, UpdateStep
<1>5. CASE ResetCycle
  <2> DEFINE T == In({"pending_validation", "cancelled"})
             f == [b \in Beneficiaries |-> Draft(ent[b])]
  <2>1. ent' = [b \in Beneficiaries |-> IF b \in T THEN f[b] ELSE ent[b]]
    BY <1>5 DEF ResetCycle, Update
  <2>2. \A b \in Beneficiaries : f[b] \in Entitlement /\ f[b].state # "approved"
    BY EntOperators DEF EntTyped
  <2> HIDE DEF T, f
  <2>. QED BY <2>1, <2>2, UpdateStep
<1>6. CASE ArchiveProgram
  <2> DEFINE T == Undecided \cup In({"approved"})
             f == [b \in Beneficiaries |-> To("cancelled", ent[b])]
  <2>1. ent' = [b \in Beneficiaries |-> IF b \in T THEN f[b] ELSE ent[b]]
    BY <1>6 DEF ArchiveProgram, Update
  <2>2. \A b \in Beneficiaries : f[b] \in Entitlement /\ f[b].state # "approved"
    BY EntOperators DEF EntTyped, EntStates
  <2> HIDE DEF T, f
  <2>. QED BY <2>1, <2>2, UpdateStep
<1>7. ASSUME NEW c \in {"distributed", "ended", "cancelled"}, MarkCycle(c) PROVE EntStep({})
  BY <1>7, EntKept DEF MarkCycle
<1>. QED BY <1>1, <1>2, <1>3, <1>4, <1>5, <1>6, <1>7 DEF DecideNext

\* What approve_entitlements approves of a selection is covered.
LEMMA SelectionStep ==
    ASSUME EntTyped, NEW S \in SUBSET Beneficiaries, NEW P \in Affordable(S),
           ent' = Update(P, ManagerApproved)
    PROVE  Covered(P) /\ Grants(P)
<1> DEFINE f == [b \in Beneficiaries |-> ManagerApproved(ent[b])]
<1>1. ent' = [b \in Beneficiaries |-> IF b \in P THEN f[b] ELSE ent[b]]
  BY DEF Update
<1>2. ASSUME NEW e \in Entitlement
      PROVE  ManagerApproved(e) \in Entitlement /\ ManagerApproved(e).state = "approved"
  <2>1. Approved(e) \in Entitlement /\ Approved(e).state = "approved"
    BY EntOperators DEF Approved
  <2>2. To("approved", e) \in Entitlement /\ To("approved", e).state = "approved"
    BY EntOperators DEF EntStates
  <2>. QED BY <2>1, <2>2 DEF ManagerApproved
<1>3. \A b \in Beneficiaries : f[b] \in Entitlement /\ f[b].state = "approved"
  BY <1>2 DEF EntTyped
<1>4. Covered(P)
  BY DEF Affordable, Covered
<1> HIDE DEF f
<1>. QED BY <1>1, <1>3, <1>4, ApprovalStep

LEMMA EntitlementEntStep ==
    ASSUME EntTyped, EntitlementNext
    PROVE  EntStep({}) \/ \E P : Covered(P) /\ Grants(P)
<1>1. ASSUME NEW u \in Users, NEW S \in SUBSET Beneficiaries, ApproveSelected(u, S)
      PROVE  \E P : Covered(P) /\ Grants(P)
  BY <1>1, SelectionStep DEF ApproveSelected
<1>2. CASE ValidateEntitlements
  <2>1. Undecided \in SUBSET Beneficiaries
    BY DEF Undecided, In
  <2>2. PICK P \in Affordable(Undecided) : ent' = Update(P, ManagerApproved)
    BY <1>2 DEF ValidateEntitlements
  <2>. QED BY <2>1, <2>2, SelectionStep
<1>3. ASSUME NEW u \in Users, NEW b \in Beneficiaries, ApproveEntitlement(u, b)
      PROVE  \E P : Covered(P) /\ Grants(P)
  <2>1. ent' = [ent EXCEPT ![b] = Approved(ent[b])] /\ Balance >= Amount[b]
    BY <1>3 DEF ApproveEntitlement, SetEnt
  <2>2. Approved(ent[b]) \in Entitlement /\ Approved(ent[b]).state = "approved"
    BY EntOperators DEF EntTyped, Approved
  <2>3. Grants({b})
    BY <2>1, <2>2 DEF EntTyped, EntStep, Grants
  <2>4. Covered({b})
    BY <2>1, TotalOfOne DEF Covered
  <2>. QED BY <2>3, <2>4
<1>4. ASSUME NEW b \in Beneficiaries, SubmitEntitlement(b) PROVE EntStep({})
  <2>1. Submitted(ent[b]) \in Entitlement /\ Submitted(ent[b]).state # "approved"
    BY EntOperators DEF EntTyped
  <2>. QED BY <1>4, <2>1, SetStep DEF SubmitEntitlement, SetEnt
<1>5. ASSUME NEW b \in Beneficiaries, RejectEntitlement(b) PROVE EntStep({})
  <2> DEFINE f == Rejected("rejected3", ent[b])
  <2>1. f \in Entitlement /\ f.state # "approved"
    BY EntOperators DEF EntTyped, EntStates
  <2>2. ent' = [ent EXCEPT ![b] = f]
    BY <1>5 DEF RejectEntitlement, SetEnt
  <2> HIDE DEF f
  <2>. QED BY <2>1, <2>2, SetStep
<1>6. ASSUME NEW b \in Beneficiaries, RejectSelected(b) PROVE EntStep({})
  <2> DEFINE f == Rejected("reject", ent[b])
  <2>1. f \in Entitlement /\ f.state # "approved"
    BY EntOperators DEF EntTyped, EntStates
  <2>2. ent' = [ent EXCEPT ![b] = f]
    BY <1>6 DEF RejectSelected, SetEnt
  <2> HIDE DEF f
  <2>. QED BY <2>1, <2>2, SetStep
<1>7. ASSUME NEW b \in Beneficiaries, ResetToPending(b) PROVE EntStep({})
  <2> DEFINE f == To("pending_validation", ent[b])
  <2>1. f \in Entitlement /\ f.state # "approved"
    BY EntOperators DEF EntTyped, EntStates
  <2>2. ent' = [ent EXCEPT ![b] = f]
    BY <1>7 DEF ResetToPending, SetEnt
  <2> HIDE DEF f
  <2>. QED BY <2>1, <2>2, SetStep
<1>8. ASSUME NEW b \in Beneficiaries, ResetEntitlement(b) PROVE EntStep({})
  <2>1. Draft(ent[b]) \in Entitlement /\ Draft(ent[b]).state # "approved"
    BY EntOperators DEF EntTyped
  <2>. QED BY <1>8, <2>1, SetStep DEF ResetEntitlement, SetEnt
<1>9. CASE ExpireEntitlements
  <2> DEFINE T == In({"approved"})
             f == [b \in Beneficiaries |-> To("expired", ent[b])]
  <2>1. ent' = [b \in Beneficiaries |-> IF b \in T THEN f[b] ELSE ent[b]]
    BY <1>9 DEF ExpireEntitlements, Update
  <2>2. \A b \in Beneficiaries : f[b] \in Entitlement /\ f[b].state # "approved"
    BY EntOperators DEF EntTyped, EntStates
  <2> HIDE DEF T, f
  <2>. QED BY <2>1, <2>2, UpdateStep
<1>10. ASSUME NEW u \in Users, NEW b \in Beneficiaries, OpenRejectEntitlement(u, b)
       PROVE  EntStep({})
  BY <1>10, EntKept DEF OpenRejectEntitlement
<1>11. ASSUME NEW b \in Beneficiaries, OpenResetToPending(b) \/ PaymentFails(b)
       PROVE  EntStep({})
  BY <1>11, EntKept DEF OpenResetToPending, PaymentFails
<1>12. CASE PreparePayments
  BY <1>12, EntKept DEF PreparePayments
<1>. QED
  BY <1>1, <1>2, <1>3, <1>4, <1>5, <1>6, <1>7, <1>8, <1>9, <1>10, <1>11, <1>12
     DEF EntitlementNext

-----------------------------------------------------------------------------
(* The fund *)

\* Every step approves no entitlements, or some that the balance covers.
LEMMA EntSteps ==
    ASSUME EntTyped, [CycleNext]_allVars
    PROVE  EntStep({}) \/ \E P : Covered(P) /\ Grants(P)
<1>1. CASE PrepareNext
  BY <1>1, PrepareEntStep
<1>2. CASE DecideNext
  BY <1>2, DecideEntStep
<1>3. CASE EntitlementNext
  BY <1>3, EntitlementEntStep
<1>4. CASE UNCHANGED allVars
  BY <1>4, EntKept DEF allVars, cycleVars
<1>. QED BY <1>1, <1>2, <1>3, <1>4 DEF CycleNext

\* Funds are only ever posted.
LEMMA PostedGrows ==
    ASSUME posted \in 0..MaxFund, [CycleNext]_allVars
    PROVE  posted' \in 0..MaxFund /\ posted <= posted'
<1>1. CASE PostFund
  BY <1>1, CycleAssumption DEF PostFund
<1>2. CASE PrepareNext /\ ~PostFund
  <2>1. posted' = posted
    BY <1>2 DEF PrepareNext, CopyBeneficiaries, CheckEligibility, PrepareEntitlements,
                UnlinkEntitlement, CycleUnchanged
  <2>. QED BY <2>1, CycleAssumption
<1>3. CASE DecideNext
  <2>1. posted' = posted
    BY <1>3 DEF DecideNext, SubmitCycle, ApproveCycle, ApproveCycleUnfunded,
                OpenCycleRejection, RejectCycle, ReviseCycle, ResetCycle, ArchiveProgram,
                MarkCycle, cycleVars
  <2>. QED BY <2>1, CycleAssumption
<1>4. CASE EntitlementNext
  <2>1. posted' = posted
    BY <1>4 DEF EntitlementNext, ApproveSelected, ApproveEntitlement,
                OpenRejectEntitlement, ValidateEntitlements, SubmitEntitlement,
                RejectEntitlement, RejectSelected, OpenResetToPending, ResetToPending,
                ResetEntitlement, PaymentFails, ExpireEntitlements, PreparePayments,
                SetEnt, CycleUnchanged
  <2>. QED BY <2>1, CycleAssumption
<1>5. CASE UNCHANGED allVars
  BY <1>5, CycleAssumption DEF allVars, cycleVars
<1>. QED BY <1>1, <1>2, <1>3, <1>4, <1>5 DEF CycleNext

LEMMA FundStep ==
    ASSUME EntTyped, posted \in 0..MaxFund, FundCoversApproved, [CycleNext]_allVars
    PROVE  EntTyped' /\ (posted \in 0..MaxFund)' /\ FundCoversApproved'
<1> DEFINE A == In({"approved"})
           B == {b \in Beneficiaries : ent'[b].state \in {"approved"}}
<1>1. PICK P : EntStep(P) /\ (P = {} \/ Covered(P))
  BY EntSteps DEF Grants
<1>2. A \in SUBSET Beneficiaries /\ B \in SUBSET Beneficiaries
  BY DEF In
<1>3. P \in SUBSET Beneficiaries
  BY <1>1 DEF Covered
<1>4. B \subseteq A \cup P
  BY <1>1 DEF EntStep, In
<1>5. posted \in Int /\ posted' \in 0..MaxFund /\ posted <= posted'
  BY PostedGrows, CycleAssumption
<1>6. Total(A) <= posted /\ Balance = posted - Total(A)
  BY DEF FundCoversApproved, Balance
<1>7. FundCoversApproved' <=> Total(B) <= posted'
  <2>1. In({"approved"})' = B
    BY DEF In
  <2> HIDE DEF B
  <2>2. FundCoversApproved' <=> Total(In({"approved"})') <= posted'
    BY DEF FundCoversApproved
  <2>. QED BY <2>1, <2>2
<1> HIDE DEF A, B
<1>8. /\ Total(A) \in Nat
      /\ Total(B) \in Nat
      /\ Total(P) \in Nat
  BY <1>2, <1>3, TotalSum
<1>9. Total(B) <= posted
  <2>1. CASE P = {}
    <3>1. B \in SUBSET A
      BY <1>4, <2>1
    <3>2. Total(B) <= Total(A)
      BY <1>2, <3>1, TotalOfPart
    <3>. QED BY <1>5, <1>6, <1>8, <3>2
  <2>2. CASE Covered(P)
    <3> DEFINE U == A \cup P
    <3>1. U \in SUBSET Beneficiaries /\ B \in SUBSET U
      BY <1>2, <1>3, <1>4
    <3>2. Total(U) <= Total(A) + Total(P)
      BY <1>2, <1>3, TotalOfUnion
    <3> HIDE DEF U
    <3>3. Total(B) <= Total(U) /\ Total(U) \in Nat
      BY <3>1, TotalOfPart, TotalSum
    <3>4. Total(P) <= posted - Total(A)
      BY <1>6, <2>2 DEF Covered
    <3>. QED BY <1>5, <1>8, <3>2, <3>3, <3>4
  <2>. QED BY <1>1, <2>1, <2>2
<1>10. Total(B) <= posted'
  BY <1>5, <1>8, <1>9, CycleAssumption
<1>11. EntTyped'
  BY <1>1 DEF EntStep, EntTyped
<1>. QED BY <1>5, <1>7, <1>10, <1>11

LEMMA FundInit ==
    ASSUME CycleInit
    PROVE  EntTyped /\ posted \in 0..MaxFund /\ FundCoversApproved
<1>1. EntTyped
  BY DEF CycleInit, EntTyped, Entitlement
<1>2. posted = 0 /\ posted \in 0..MaxFund
  BY CycleAssumption DEF CycleInit
<1>3. In({"approved"}) = {}
  BY DEF CycleInit, In, NoEnt
<1>4. Total({}) = 0
  <2>1. Total({}) = SumFunctionOnSet(Amount, {})
    BY TotalSum
  <2>. QED BY <2>1, SumEmpty
<1>. QED BY <1>1, <1>2, <1>3, <1>4 DEF FundCoversApproved

\* The fund covers what is approved: approvals of single entitlements, of
\* selections and of whole cycles, each of which reads the balance before it
\* spends, never overdraw what was posted, whatever the amounts.
THEOREM FundIsNeverOverdrawn == CycleSpec => []FundCoversApproved
<1> DEFINE Inv == EntTyped /\ posted \in 0..MaxFund /\ FundCoversApproved
<1>1. CycleInit => Inv
  BY FundInit
<1>2. Inv /\ [CycleNext]_allVars => Inv'
  BY FundStep
<1>3. Inv => FundCoversApproved
  OBVIOUS
<1>. QED BY <1>1, <1>2, <1>3, PTL DEF CycleSpec

\* The sum of the abstract fund is the sum of the cycle.
LEMMA CostIsTotal ==
    ASSUME NEW S \in SUBSET Beneficiaries
    PROVE  F!Cost(S) = Total(S)
<1>1. F!Cost(S) = SumFunctionOnSet(Amount, S)
  BY DEF F!Cost, F!MapThenSumSet, F!MapThenFoldSet, SumFunctionOnSet,
         FoldFunctionOnSet, MapThenFoldSet
<1>. QED BY <1>1, TotalSum

\* Funds are posted by a step that decides no entitlement.
LEMMA PostedApart ==
    ASSUME posted \in 0..MaxFund, [CycleNext]_allVars, posted' # posted
    PROVE  posted' \in Nat /\ posted' > posted /\ UNCHANGED ent
<1>1. CASE PostFund
  BY <1>1, CycleAssumption DEF PostFund
<1>2. CASE PrepareNext /\ ~PostFund
  BY <1>2 DEF PrepareNext, CopyBeneficiaries, CheckEligibility, PrepareEntitlements,
              UnlinkEntitlement, CycleUnchanged
<1>3. CASE DecideNext
  BY <1>3 DEF DecideNext, SubmitCycle, ApproveCycle, ApproveCycleUnfunded,
              OpenCycleRejection, RejectCycle, ReviseCycle, ResetCycle, ArchiveProgram,
              MarkCycle, cycleVars
<1>4. CASE EntitlementNext
  BY <1>4 DEF EntitlementNext, ApproveSelected, ApproveEntitlement,
              OpenRejectEntitlement, ValidateEntitlements, SubmitEntitlement,
              RejectEntitlement, RejectSelected, OpenResetToPending, ResetToPending,
              ResetEntitlement, PaymentFails, ExpireEntitlements, PreparePayments,
              SetEnt, CycleUnchanged
<1>5. CASE UNCHANGED allVars
  BY <1>5 DEF allVars, cycleVars
<1>. QED BY <1>1, <1>2, <1>3, <1>4, <1>5 DEF CycleNext

LEMMA FundMoves ==
    ASSUME EntTyped, posted \in 0..MaxFund, FundCoversApproved, [CycleNext]_allVars
    PROVE  [F!Next]_<<posted, In({"approved"})>>
<1> DEFINE A == In({"approved"})
           B == {b \in Beneficiaries : ent'[b].state \in {"approved"}}
           Goal == [F!Next]_<<posted, A>>
<1>1. In({"approved"})' = B
  BY DEF In
<1>2. CASE posted' # posted
  <2>1. posted' \in Nat /\ posted' > posted /\ A' = A
    BY <1>2, PostedApart DEF In
  <2>. QED BY <2>1 DEF F!Next, F!Post
<1>3. CASE posted' = posted /\ EntStep({})
  <2>1. A' \in SUBSET A
    BY <1>3 DEF EntStep, In
  <2>. QED BY <1>3, <2>1 DEF F!Next, F!Release
<1>4. ASSUME NEW P, Covered(P), Grants(P), posted' = posted
      PROVE  Goal
  <2> DEFINE S == P \ A
             U == A \cup P
  <2>1. A \in SUBSET Beneficiaries /\ P \in SUBSET Beneficiaries
    BY <1>4 DEF In, Covered
  <2>2. B = U
    BY <1>4, <2>1 DEF Grants, EntStep, In
  <2>3. /\ U \in SUBSET Beneficiaries /\ A \cup S = U /\ S \in SUBSET (Beneficiaries \ A)
        /\ S = {} => U = A
    BY <2>1
  <2>4. Total(U) <= posted
    <3>1. Total(U) <= Total(A) + Total(P)
      BY <2>1, TotalOfUnion
    <3>2. Total(A) <= posted /\ Balance = posted - Total(A)
      BY DEF FundCoversApproved, Balance
    <3>3. Total(P) <= posted - Total(A)
      BY <1>4, <3>2 DEF Covered
    <3>4. Total(A) \in Nat /\ Total(P) \in Nat /\ posted \in Int
      BY <2>1, TotalSum, CycleAssumption
    <3>5. Total(U) \in Nat
      BY <2>3, TotalSum
    <3> HIDE DEF A, U
    <3>. QED BY <3>1, <3>3, <3>4, <3>5
  <2> HIDE DEF A, B, U, S
  <2>5. F!Cost(A \cup S) <= posted
    BY <2>3, <2>4, CostIsTotal
  <2>6. A' = A \cup S
    BY <1>1, <2>2, <2>3 DEF A
  <2>7. CASE S = {}
    BY <1>4, <2>3, <2>6, <2>7
  <2>8. CASE S # {}
    BY <1>4, <2>3, <2>5, <2>6, <2>8 DEF F!Next, F!Charge, A
  <2>. QED BY <2>7, <2>8
<1>5. EntStep({}) \/ \E P : Covered(P) /\ Grants(P)
  BY EntSteps
<1> HIDE DEF Goal
<1>6. Goal
  BY <1>2, <1>3, <1>4, <1>5 DEF Goal
<1>. QED BY <1>6 DEF Goal

\* A cycle implements the fund, whoever approves its entitlements, one by one, in
\* a selection or with the cycle, under either manager and in any round.
THEOREM CycleImplementsFund == CycleSpec => FundSpec
<1> DEFINE Inv == EntTyped /\ posted \in 0..MaxFund /\ FundCoversApproved
<1>1. ASSUME CycleInit PROVE Inv /\ F!Init
  <2>1. posted = 0 /\ In({"approved"}) = {}
    BY <1>1 DEF CycleInit, In, NoEnt
  <2>. QED BY <1>1, <2>1, FundInit DEF F!Init
<1>2. Inv /\ [CycleNext]_allVars => Inv' /\ [F!Next]_<<posted, In({"approved"})>>
  BY FundStep, FundMoves
<1>. QED BY <1>1, <1>2, PTL DEF CycleSpec, FundSpec, F!Spec

-----------------------------------------------------------------------------
(* The reviews a reset leaves *)

\* One step of the recursion of WithoutPending, and a function that obeys it.
KeptStep(q, r) == IF r.status = "pending" THEN q ELSE Append(q, r)
Kept(g, rs, m) ==
    g = [n \in 0..m |-> IF n = 0 THEN <<>> ELSE KeptStep(g[n - 1], rs[n])]

LEMMA KeptExists ==
    ASSUME NEW rs, NEW m \in Nat
    PROVE  \E g : Kept(g, rs, m)
<1> DEFINE Bad == {k \in Nat : ~ \E g : Kept(g, rs, k)}
<1> SUFFICES ASSUME Bad # {}
             PROVE  FALSE
  OBVIOUS
<1>1. PICK k \in Bad : \A j \in Bad : k <= j
  <2> Bad \in SUBSET Nat
    OBVIOUS
  <2> HIDE DEF Bad
  <2>. QED BY LeastNatural
<1>2. k \in Nat /\ ~ \E g : Kept(g, rs, k)
  OBVIOUS
<1>3. CASE k = 0
  <2> DEFINE g == [n \in 0..0 |-> <<>>]
  <2>1. Kept(g, rs, 0)
    BY DEF Kept
  <2>. QED BY <1>2, <1>3, <2>1
<1>4. CASE k # 0
  <2>1. k - 1 \in Nat /\ k - 1 \notin Bad
    BY <1>1, <1>2, <1>4
  <2>2. PICK g : Kept(g, rs, k - 1)
    BY <2>1
  <2> DEFINE h == [n \in 0..k |-> IF n = k THEN KeptStep(g[k - 1], rs[k]) ELSE g[n]]
  <2>3. \A n \in 0..(k - 1) : h[n] = g[n] /\ n \in 0..k /\ n # k
    BY <1>2
  <2>4. \A n \in 0..k : h[n] = IF n = 0 THEN <<>> ELSE KeptStep(h[n - 1], rs[n])
    <3> SUFFICES ASSUME NEW n \in 0..k
                 PROVE  h[n] = IF n = 0 THEN <<>> ELSE KeptStep(h[n - 1], rs[n])
      OBVIOUS
    <3>1. CASE n = k
      <4>1. h[n - 1] = g[n - 1] /\ h[n] = KeptStep(g[k - 1], rs[k])
        BY <1>2, <1>4, <2>3, <3>1
      <4>. QED BY <1>4, <3>1, <4>1
    <3>2. CASE n # k
      <4>1. n \in 0..(k - 1) /\ (n # 0 => n - 1 \in 0..(k - 1))
        BY <1>2, <3>2
      <4>2. g[n] = IF n = 0 THEN <<>> ELSE KeptStep(g[n - 1], rs[n])
        BY <2>2, <4>1 DEF Kept
      <4> HIDE DEF h
      <4>. QED BY <2>3, <4>1, <4>2
    <3>. QED BY <3>1, <3>2
  <2>5. h = [n \in 0..k |-> h[n]]
    OBVIOUS
  <2> HIDE DEF h
  <2>6. Kept(h, rs, k)
    BY <2>4, <2>5 DEF Kept
  <2>. QED BY <1>2, <2>6
<1>. QED BY <1>3, <1>4

\* What is left are the reviews that are not pending.
LEMMA WithoutPendingIs ==
    ASSUME NEW S, NEW rs \in Seq(S)
    PROVE  WithoutPending(rs) \in Seq({r \in S : r.status # "pending"})
<1> DEFINE m == Len(rs)
           T == {r \in S : r.status # "pending"}
           g == CHOOSE f : Kept(f, rs, m)
           Bad == {k \in 0..m : g[k] \notin Seq(T)}
<1>1. m \in Nat /\ \A n \in 1..m : rs[n] \in S
  OBVIOUS
<1>2. WithoutPending(rs) = g[m]
  BY DEF WithoutPending, Kept, KeptStep
<1> HIDE DEF m
<1>3. Kept(g, rs, m)
  BY <1>1, KeptExists
<1> HIDE DEF g
<1>4. \A r \in S : r.status # "pending" => r \in T
  OBVIOUS
<1> HIDE DEF T
<1>5. Bad = {}
  <2> SUFFICES ASSUME Bad # {}
               PROVE  FALSE
    OBVIOUS
  <2>1. PICK k \in Bad : \A j \in Bad : k <= j
    <3> Bad \in SUBSET Nat
      BY <1>1
    <3> HIDE DEF Bad
    <3>. QED BY LeastNatural
  <2>2. k \in 0..m /\ g[k] \notin Seq(T)
    OBVIOUS
  <2>3. g[k] = IF k = 0 THEN <<>> ELSE KeptStep(g[k - 1], rs[k])
    BY <1>3, <2>2 DEF Kept
  <2>4. CASE k = 0
    BY <2>2, <2>3, <2>4
  <2>5. CASE k # 0
    <3>1. k - 1 \in 0..m /\ k - 1 \notin Bad /\ k \in 1..m
      BY <1>1, <2>1, <2>2, <2>5
    <3>2. g[k - 1] \in Seq(T) /\ rs[k] \in S
      BY <1>1, <3>1
    <3> DEFINE q == g[k - 1]
               r == rs[k]
    <3> HIDE DEF q, r
    <3>3. KeptStep(q, r) \in Seq(T)
      BY <1>4, <3>2 DEF KeptStep, q, r
    <3>. QED BY <2>2, <2>3, <2>5, <3>3 DEF q, r
  <2>. QED BY <2>4, <2>5
<1>6. g[m] \in Seq(T)
  BY <1>1, <1>5
<1>. QED BY <1>2, <1>6 DEF T

-----------------------------------------------------------------------------
(* Types *)

\* The reviews of one status take another one.
Restatus(rs, from, st) ==
    [i \in DOMAIN rs |-> IF rs[i].status = from THEN [rs[i] EXCEPT !.status = st] ELSE rs[i]]

LEMMA Restatused ==
    ASSUME NEW rs \in Seq(Review), NEW from, NEW st \in ReviewStatuses
    PROVE  /\ Restatus(rs, from, st) \in Seq(Review)
           /\ DOMAIN Restatus(rs, from, st) = DOMAIN rs
           /\ \A i \in DOMAIN rs : Restatus(rs, from, st)[i].status =
                 IF rs[i].status = from THEN st ELSE rs[i].status
<1> DEFINE q == Restatus(rs, from, st)
           g(r) == IF r.status = from THEN [r EXCEPT !.status = st] ELSE r
<1>1. ASSUME NEW r \in Review
      PROVE  /\ g(r) \in Review
             /\ g(r).status = IF r.status = from THEN st ELSE r.status
  <2>1. r \in ReviewOf(r.definition) /\ r.definition \in Definitions
    BY ReviewShape
  <2>2. /\ g(r) \in ReviewOf(r.definition)
        /\ g(r).status = IF r.status = from THEN st ELSE r.status
    BY <2>1 DEF ReviewOf
  <2> HIDE DEF g
  <2>. QED BY <2>1, <2>2, ReviewIntro
<1>2. q = [i \in DOMAIN rs |-> g(rs[i])]
  BY DEF Restatus
<1> HIDE DEF g, q
<1>3. DOMAIN rs = 1..Len(rs) /\ Len(rs) \in Nat /\ \A i \in DOMAIN rs : rs[i] \in Review
  OBVIOUS
<1>4. q \in [1..Len(rs) -> Review]
  BY <1>1, <1>2, <1>3
<1>5. \A i \in DOMAIN rs : q[i] = g(rs[i])
  BY <1>2
<1>. QED BY <1>1, <1>3, <1>4, <1>5 DEF q

\* The mixin's action_approve keeps the reviews typed.
LEMMA ReviewsAfterTyped ==
    ASSUME TypeOK, NEW u \in Users, MixinMayApprove(u)
    PROVE  ReviewsAfter(u) \in Seq(Review) /\ DOMAIN ReviewsAfter(u) = DOMAIN reviews
<1>1. reviews \in Seq(Review)
  BY DEF TypeOK
<1>2. CASE ~IsMultitier(ActiveReview)
  BY <1>1, <1>2, ClosePendingTyped DEF ReviewsAfter
<1>3. CASE IsMultitier(ActiveReview)
  <2>1. PendingReviews # {} /\ PendingTiers(ActiveReview) # {}
    BY <1>3 DEF MixinMayApprove
  <2>2. TierStep(u) \in Seq(Review) /\ DOMAIN TierStep(u) = DOMAIN reviews
    BY <2>1, TierStepTyped DEF TierStep, DecidedTier
  <2>3. ReviewsAfter(u) = TierStep(u) \/ ReviewsAfter(u) = ClosePending(TierStep(u), "approved")
    BY <1>3 DEF ReviewsAfter
  <2>. QED BY <2>2, <2>3, ClosePendingTyped
<1>. QED BY <1>2, <1>3

\* Undoing an approval leaves typed reviews, none of them approved.
LEMMA UndoneTyped ==
    ASSUME TypeOK, NEW u \in Users, ApproveCycleUnfunded(u)
    PROVE  /\ reviews' \in Seq(Review)
           /\ \A i \in DOMAIN reviews' : reviews'[i].status # "approved"
<1> DEFINE rs == ReviewsAfter(u)
<1>1. rs \in Seq(Review) /\ DOMAIN rs = DOMAIN reviews
  BY ReviewsAfterTyped DEF ApproveCycleUnfunded
<1>2. reviews' = Restatus(rs, "approved", "pending")
  BY <1>1 DEF ApproveCycleUnfunded, Restatus
<1> HIDE DEF rs
<1>3. "pending" \in ReviewStatuses
  BY DEF ReviewStatuses
<1>. QED BY <1>1, <1>2, <1>3, Restatused

\* The approval's variables keep their types.
LEMMA ApprovalTyped ==
    ASSUME TypeOK, [CycleNext]_allVars
    PROVE  TypeOK'
<1>1. CASE UNCHANGED vars
  BY <1>1 DEF vars, TypeOK
<1>2. CASE PrepareNext
  <2>1. UNCHANGED vars
    BY <1>2 DEF PrepareNext, CopyBeneficiaries, CheckEligibility, PrepareEntitlements,
                UnlinkEntitlement, PostFund, ApprovalUnchanged
  <2>. QED BY <1>1, <2>1
<1>3. CASE ValidateEntitlements
  BY <1>3 DEF ValidateEntitlements, PutBack, TypeOK, ApprovalStates
<1>4. CASE EntitlementNext /\ ~ValidateEntitlements
  <2>1. UNCHANGED vars
    BY <1>4 DEF EntitlementNext, ApproveSelected, ApproveEntitlement,
                OpenRejectEntitlement, SubmitEntitlement,
                RejectEntitlement, RejectSelected, OpenResetToPending, ResetToPending,
                ResetEntitlement, PaymentFails, ExpireEntitlements, PreparePayments,
                SetEnt, ApprovalUnchanged
  <2>. QED BY <1>1, <2>1
<1>5. ASSUME NEW u \in Users, NEW d \in Definitions, SubmitCycle(u, d) PROVE TypeOK'
  BY <1>5, SubmitTyped DEF SubmitCycle
<1>6. ASSUME NEW u \in Users, ApproveCycle(u) PROVE TypeOK'
  <2>1. ReviewsAfter(u) \in Seq(Review)
    BY <1>6, ReviewsAfterTyped DEF ApproveCycle
  <2>2. VersionAfter(u) \in Nat
    BY DEF VersionAfter, TypeOK
  <2>. QED BY <1>6, <2>1, <2>2 DEF ApproveCycle, TypeOK, ApprovalStates
<1>7. ASSUME NEW u \in Users, ApproveCycleUnfunded(u) PROVE TypeOK'
  <2>1. reviews' \in Seq(Review)
    BY <1>7, UndoneTyped
  <2>2. VersionAfter(u) \in Nat
    BY DEF VersionAfter, TypeOK
  <2>3. state' = "approved" \/ state' = state
    BY <1>7 DEF ApproveCycleUnfunded
  <2>4. via' = "approvers" \/ via' = via
    BY <1>7 DEF ApproveCycleUnfunded
  <2>. QED BY <1>7, <2>1, <2>2, <2>3, <2>4 DEF ApproveCycleUnfunded, TypeOK, ApprovalStates
<1>8. ASSUME NEW u \in Users, OpenCycleRejection(u) PROVE TypeOK'
  BY <1>8 DEF OpenCycleRejection, TypeOK
<1>9. ASSUME NEW u \in Users, RejectCycle(u) PROVE TypeOK'
  BY <1>9, ConfirmRejectionTyped DEF RejectCycle
<1>10. ASSUME NEW u \in Users, ReviseCycle(u) PROVE TypeOK'
  <2>1. ClosePending(reviews, "rejected") \in Seq(Review)
    BY ClosePendingTyped DEF TypeOK
  <2>. QED BY <1>10, <2>1 DEF ReviseCycle, TypeOK, ApprovalStates
<1>11. CASE ResetCycle
  <2>1. WithoutPending(reviews) \in Seq({r \in Review : r.status # "pending"})
    BY WithoutPendingIs DEF TypeOK
  <2>2. reviews' \in Seq(Review)
    <3>1. {r \in Review : r.status # "pending"} \subseteq Review
      OBVIOUS
    <3>2. reviews' = WithoutPending(reviews)
      BY <1>11 DEF ResetCycle
    <3>. QED BY <2>1, <3>1, <3>2
  <2>. QED BY <1>11, <2>2 DEF ResetCycle, TypeOK, ApprovalStates
<1>12. CASE ArchiveProgram
  BY <1>12 DEF ArchiveProgram, TypeOK, ApprovalStates
<1>13. ASSUME NEW c \in {"distributed", "ended", "cancelled"}, MarkCycle(c) PROVE TypeOK'
  BY <1>13 DEF MarkCycle, TypeOK, ApprovalStates
<1>14. CASE DecideNext
  BY <1>5, <1>6, <1>7, <1>8, <1>9, <1>10, <1>11, <1>12, <1>13, <1>14 DEF DecideNext
<1>15. CASE UNCHANGED allVars
  BY <1>1, <1>15 DEF allVars
<1>. QED BY <1>2, <1>3, <1>4, <1>14, <1>15 DEF CycleNext

\* The cycle's other plain variables keep theirs.
CycleFields ==
    /\ cycle \in CycleStates
    /\ auto \in AutoApprove
    /\ member \in [Beneficiaries -> {"none", "enrolled", "not_eligible"}]
    /\ payment \in [Beneficiaries -> {"none", "issued", "failed"}]

LEMMA FieldsTyped ==
    ASSUME CycleFields, [CycleNext]_allVars
    PROVE  CycleFields'
<1>1. ASSUME NEW S \in SUBSET Beneficiaries, CopyBeneficiaries(S) \/ CheckEligibility(S)
      PROVE  CycleFields'
  <2>1. UNCHANGED <<cycle, auto, payment>>
    BY <1>1 DEF CopyBeneficiaries, CheckEligibility, CycleUnchanged
  <2>2. member' \in [Beneficiaries -> {"none", "enrolled", "not_eligible"}]
    BY <1>1 DEF CopyBeneficiaries, CheckEligibility, CycleFields
  <2>. QED BY <2>1, <2>2 DEF CycleFields
<1>2. ASSUME NEW b \in Beneficiaries, UnlinkEntitlement(b) PROVE CycleFields'
  BY <1>2 DEF UnlinkEntitlement, CycleUnchanged, CycleFields
<1>3. CASE PrepareEntitlements \/ PostFund
  BY <1>3 DEF PrepareEntitlements, PostFund, CycleUnchanged, CycleFields
<1>4. CASE DecideNext
  <2>1. UNCHANGED <<auto, member, payment>>
    BY <1>4 DEF DecideNext, SubmitCycle, ApproveCycle, ApproveCycleUnfunded,
                OpenCycleRejection, RejectCycle, ReviseCycle, ResetCycle, ArchiveProgram,
                MarkCycle, cycleVars
  <2>2. cycle' = cycle \/ cycle' \in CycleStates
    BY <1>4 DEF DecideNext, SubmitCycle, ApproveCycle, ApproveCycleUnfunded,
                OpenCycleRejection, RejectCycle, ReviseCycle, ResetCycle, ArchiveProgram,
                MarkCycle, cycleVars, CycleStates
  <2>. QED BY <2>1, <2>2 DEF CycleFields
<1>5. ASSUME NEW b \in Beneficiaries, PaymentFails(b) PROVE CycleFields'
  BY <1>5 DEF PaymentFails, CycleUnchanged, CycleFields
<1>6. CASE PreparePayments
  <2>1. payment' \in [Beneficiaries -> {"none", "issued", "failed"}]
    BY <1>6 DEF PreparePayments, CycleFields
  <2>. QED BY <1>6, <2>1 DEF PreparePayments, CycleUnchanged, CycleFields
<1>7. CASE ValidateEntitlements
  BY <1>7 DEF ValidateEntitlements, PutBack, CycleFields, CycleStates
<1>8. CASE EntitlementNext
  <2>1. ASSUME EntitlementNext, ~ValidateEntitlements, ~PreparePayments,
               \A b \in Beneficiaries : ~PaymentFails(b)
        PROVE  UNCHANGED <<cycle, auto, member, payment>>
    BY <2>1 DEF EntitlementNext, ApproveSelected, ApproveEntitlement,
                OpenRejectEntitlement, SubmitEntitlement, RejectEntitlement, RejectSelected,
                OpenResetToPending, ResetToPending, ResetEntitlement, ExpireEntitlements,
                SetEnt, CycleUnchanged
  <2>. QED BY <1>5, <1>6, <1>7, <1>8, <2>1 DEF CycleFields
<1>9. CASE UNCHANGED allVars
  BY <1>9 DEF allVars, cycleVars, CycleFields
<1>. QED BY <1>1, <1>2, <1>3, <1>4, <1>8, <1>9 DEF CycleNext, PrepareNext

LEMMA CycleInitTyped == ASSUME CycleInit PROVE CycleTypeOK
<1>1. TypeOK
  BY InitIInv DEF CycleInit, IInv
<1>2. posted \in 0..MaxFund
  BY CycleAssumption DEF CycleInit
<1>. QED BY <1>1, <1>2 DEF CycleInit, CycleTypeOK, CycleStates, Entitlement

LEMMA CycleNextTyped == ASSUME CycleTypeOK, [CycleNext]_allVars PROVE CycleTypeOK'
<1>1. TypeOK'
  BY ApprovalTyped DEF CycleTypeOK
<1>2. manager' \in Managers
  BY ManagerStays DEF CycleTypeOK
<1>3. CycleFields'
  BY FieldsTyped DEF CycleTypeOK, CycleFields
<1>4. ent' \in [Beneficiaries -> Entitlement]
  BY EntSteps DEF CycleTypeOK, EntTyped, EntStep, Grants
<1>5. posted' \in 0..MaxFund
  BY PostedGrows DEF CycleTypeOK
<1>6. wizards' \subseteq OpenWizards
  BY WizardsTyped DEF CycleTypeOK
<1>. QED BY <1>1, <1>2, <1>3, <1>4, <1>5, <1>6 DEF CycleTypeOK, CycleFields

\* The cycle's variables keep their types: the reviews the mixin, the cycle's
\* own approval, its undoing and its reset leave are reviews of the definition.
THEOREM CycleTypeCorrect == CycleSpec => []CycleTypeOK
<1>. QED BY CycleInitTyped, CycleNextTyped, PTL DEF CycleSpec

-----------------------------------------------------------------------------
(* Rounds of the cycle *)

\* A reset leaves no review that is pending or approved.
LEMMA ResetReviews ==
    ASSUME TypeOK, ResetCycle
    PROVE  \A i \in DOMAIN reviews' : reviews'[i].status = "rejected"
<1> DEFINE S == {r \in Review : r.status # "approved"}
           T == {r \in S : r.status # "pending"}
<1>1. /\ reviews \in Seq(Review)
      /\ \A i \in DOMAIN reviews : reviews[i].status # "approved"
      /\ reviews' = WithoutPending(reviews)
  BY DEF TypeOK, ResetCycle
<1>2. reviews \in Seq(S)
  BY <1>1
<1>3. \A r \in T : r.status = "rejected"
  BY DEF Review, ReviewStatuses
<1> HIDE DEF S
<1>4. WithoutPending(reviews) \in Seq(T)
  BY <1>2, WithoutPendingIs
<1> HIDE DEF T
<1>. QED BY <1>1, <1>3, <1>4

\* The steps that are no decision move neither the cycle nor its reviews, but
\* for the cash manager, who puts the cycle back.
LEMMA QuietSteps ==
    ASSUME PrepareNext \/ EntitlementNext \/ UNCHANGED allVars
    PROVE  /\ UNCHANGED reviews
           /\ UNCHANGED <<cycle, state>> \/ (cycle' = "to_approve" /\ manager = "cash")
<1>1. CASE PrepareNext
  BY <1>1 DEF PrepareNext, CopyBeneficiaries, CheckEligibility, PrepareEntitlements,
              UnlinkEntitlement, PostFund, ApprovalUnchanged, CycleUnchanged, vars
<1>2. CASE ValidateEntitlements
  BY <1>2 DEF ValidateEntitlements, PutBack
<1>3. CASE EntitlementNext /\ ~ValidateEntitlements
  BY <1>3 DEF EntitlementNext, ApproveSelected, ApproveEntitlement,
              OpenRejectEntitlement, SubmitEntitlement, RejectEntitlement, RejectSelected,
              OpenResetToPending, ResetToPending, ResetEntitlement, PaymentFails,
              ExpireEntitlements, PreparePayments, SetEnt, ApprovalUnchanged,
              CycleUnchanged, vars
<1>4. CASE UNCHANGED allVars
  BY <1>4 DEF allVars, cycleVars, vars
<1>. QED BY <1>1, <1>2, <1>3, <1>4

LEMMA FreshStep ==
    ASSUME CycleTypeOK, DraftCycleIsFresh, [CycleNext]_allVars
    PROVE  DraftCycleIsFresh'
<1>1. ASSUME PrepareNext \/ EntitlementNext \/ UNCHANGED allVars PROVE DraftCycleIsFresh'
  BY <1>1, QuietSteps DEF DraftCycleIsFresh
<1>2. CASE ResetCycle
  BY <1>2, ResetReviews DEF ResetCycle, CycleTypeOK, DraftCycleIsFresh
<1>3. ASSUME NEW u \in Users, ReviseCycle(u) PROVE DraftCycleIsFresh'
  <2>1. state = "pending" /\ cycle' = cycle
    BY <1>3 DEF ReviseCycle, MayDecideCycle, CanDecide, cycleVars
  <2>. QED BY <2>1 DEF DraftCycleIsFresh
<1>4. CASE DecideNext /\ ~ResetCycle /\ \A u \in Users : ~ReviseCycle(u)
  <2>1. cycle' # "draft"
    BY <1>4 DEF DecideNext, SubmitCycle, ApproveCycle, ApproveCycleUnfunded,
                OpenCycleRejection, RejectCycle, ArchiveProgram, MarkCycle, cycleVars
  <2>. QED BY <2>1 DEF DraftCycleIsFresh
<1>. QED BY <1>1, <1>2, <1>3, <1>4 DEF CycleNext

\* A draft cycle can be submitted, whatever rounds it went through and however
\* they ended: its approval_state is draft, and no review is left open.
THEOREM DraftIsFresh == CycleSpec => []DraftCycleIsFresh
<1>1. CycleInit => DraftCycleIsFresh
  BY DEF CycleInit, Init, DraftCycleIsFresh
<1>2. DraftCycleIsFresh /\ CycleTypeOK /\ [CycleNext]_allVars => DraftCycleIsFresh'
  BY FreshStep
<1>. QED BY <1>1, <1>2, CycleInitTyped, CycleNextTyped, PTL DEF CycleSpec

SingleTier == \A d \in Definitions : ~Def[d].useMultitier

\* Under single-tier definitions no review of the record is multi-tier, and a
\* submission adds a pending one.
LEMMA SingleTierReviews ==
    ASSUME SingleTier, TypeOK
    PROVE  /\ PendingReviews # {} => ~IsMultitier(ActiveReview)
           /\ \A u, d : d \in Definitions => NewReview(u, d).status = "pending"
<1>1. ASSUME PendingReviews # {} PROVE ~IsMultitier(ActiveReview)
  <2>1. ActiveReview \in Review
    BY <1>1, ActiveReviewTyped
  <2>. QED BY <2>1, ReviewShape DEF IsMultitier, SingleTier
<1>2. ASSUME NEW u, NEW d \in Definitions PROVE NewReview(u, d).status = "pending"
  <2>1. TiersOf(d) = {}
    BY DEF TiersOf, SingleTier
  <2>. QED BY <2>1 DEF NewReview
<1>. QED BY <1>1, <1>2

HasApproved == \E i \in DOMAIN reviews : reviews[i].status = "approved"

LEMMA FinalStep ==
    ASSUME SingleTier, CycleTypeOK, ApprovedCycleIsFinal, [CycleNext]_allVars
    PROVE  ApprovedCycleIsFinal'
<1>1. TypeOK /\ reviews \in Seq(Review) /\ manager' = manager
  BY ManagerStays DEF CycleTypeOK, TypeOK
<1>2. /\ cycle = "approved" => HasApproved
      /\ HasApproved => cycle # "draft"
      /\ HasApproved /\ manager = "default" => cycle # "to_approve"
  BY DEF ApprovedCycleIsFinal, HasApproved
<1> DEFINE Final == /\ cycle' = "approved" => HasApproved'
                    /\ HasApproved' => cycle' # "draft"
                    /\ HasApproved' /\ manager = "default" => cycle' # "to_approve"
<1> SUFFICES Final
  BY <1>1 DEF ApprovedCycleIsFinal, HasApproved
<1>3. ASSUME PrepareNext \/ EntitlementNext \/ UNCHANGED allVars PROVE Final
  BY <1>2, <1>3, QuietSteps DEF HasApproved
<1>4. ASSUME NEW u \in Users, NEW d \in Definitions, SubmitCycle(u, d) PROVE Final
  <2>1. cycle = "draft" /\ cycle' = "to_approve" /\ Submit(u, d)
    BY <1>4 DEF SubmitCycle
  <2>2. state # "pending"
    BY <2>1, ConfigAssumption DEF Submit
  <2>3. reviews' = Append(reviews, NewReview(u, d))
    BY <2>1, <2>2 DEF Submit, DoApprove
  <2>4. NewReview(u, d).status = "pending"
    BY <1>1, SingleTierReviews
  <2>5. ~HasApproved'
    BY <1>1, <1>2, <2>1, <2>3, <2>4 DEF HasApproved
  <2>. QED BY <2>1, <2>5
<1>5. ASSUME NEW u \in Users, ApproveCycle(u) PROVE Final
  <2>1. PendingReviews # {} /\ ~IsMultitier(ActiveReview)
    BY <1>1, <1>5, SingleTierReviews DEF ApproveCycle, MixinMayApprove
  <2>2. cycle' = "approved" /\ reviews' = ClosePending(reviews, "approved")
    BY <1>5, <2>1 DEF ApproveCycle, ReviewsAfter
  <2>3. HasApproved'
    <3>1. PICK i \in DOMAIN reviews : reviews[i].status = "pending"
      BY <2>1 DEF PendingReviews
    <3>2. i \in DOMAIN reviews' /\ reviews'[i].status = "approved"
      BY <1>1, <2>2, <3>1, ClosePendingTyped
    <3>. QED BY <3>2 DEF HasApproved
  <2>. QED BY <2>2, <2>3
<1>6. ASSUME NEW u \in Users, ApproveCycleUnfunded(u) PROVE Final
  <2>1. ~HasApproved'
    BY <1>1, <1>6, UndoneTyped DEF HasApproved
  <2>2. cycle' = "to_approve"
    BY <1>6 DEF ApproveCycleUnfunded, cycleVars
  <2>. QED BY <2>1, <2>2
<1>7. ASSUME NEW u \in Users, OpenCycleRejection(u) PROVE Final
  BY <1>2, <1>7 DEF OpenCycleRejection, cycleVars, HasApproved
<1>8. ASSUME NEW u \in Users, ReviseCycle(u) PROVE Final
  <2>1. cycle' = cycle /\ reviews' = ClosePending(reviews, "rejected")
    BY <1>8 DEF ReviseCycle, cycleVars
  <2>2. /\ DOMAIN reviews' = DOMAIN reviews
        /\ \A i \in DOMAIN reviews : reviews'[i].status =
               IF reviews[i].status = "pending" THEN "rejected" ELSE reviews[i].status
    BY <1>1, <2>1, ClosePendingTyped
  <2>3. HasApproved' <=> HasApproved
    BY <2>2 DEF HasApproved
  <2>. QED BY <1>2, <2>1, <2>3
<1>9. CASE ResetCycle
  <2>1. \A i \in DOMAIN reviews' : reviews'[i].status = "rejected"
    BY <1>1, <1>9, ResetReviews
  <2>2. ~HasApproved'
    BY <2>1 DEF HasApproved
  <2>. QED BY <1>9, <2>2 DEF ResetCycle
<1>10. ASSUME NEW u \in Users, RejectCycle(u) PROVE Final
  BY <1>10 DEF RejectCycle
<1>11. ASSUME NEW c \in {"distributed", "ended", "cancelled"}, MarkCycle(c) PROVE Final
  BY <1>11 DEF MarkCycle
<1>12. CASE ArchiveProgram
  BY <1>12 DEF ArchiveProgram
<1>13. CASE DecideNext
  <2> HIDE DEF Final
  <2>. QED
    BY <1>4, <1>5, <1>6, <1>7, <1>8, <1>9, <1>10, <1>11, <1>12, <1>13 DEF DecideNext
<1>. QED BY <1>3, <1>13 DEF CycleNext

\* Under single-tier definitions an approved cycle has an approved review, and
\* with it never becomes editable or undecided again, over any number of
\* rounds, rejections, unfunded approvals and resets (the cash manager's own
\* step back aside).
THEOREM ApprovalOfCycleIsFinal ==
    ASSUME SingleTier
    PROVE  CycleSpec => []ApprovedCycleIsFinal
<1>1. CycleInit => ApprovedCycleIsFinal
  BY DEF CycleInit, Init, ApprovedCycleIsFinal
<1>2. ApprovedCycleIsFinal /\ CycleTypeOK /\ [CycleNext]_allVars => ApprovedCycleIsFinal'
  BY FinalStep
<1>. QED BY <1>1, <1>2, CycleInitTyped, CycleNextTyped, PTL DEF CycleSpec

=============================================================================
