--------------------------- MODULE ApprovalProofs ---------------------------
(***************************************************************************)
(* Proofs about Approval for every set of users, definitions, tiers and    *)
(* every configuration: most when approvals go through the record, some    *)
(* also when tier reviews are decided without it.                          *)
(***************************************************************************)
EXTENDS Approval, WellFoundedInduction, TLAPS

\* A non-empty set of natural numbers has a least element.
LEMMA LeastNatural ==
    ASSUME NEW S \in SUBSET Nat, S # {}
    PROVE  \E n \in S : \A m \in S : n <= m
  <1>1. PICK n \in S : \A m \in S : <<m, n>> \notin OpToRel(<, Nat)
    BY NatLessThanWellFounded, WFMin
  <1>2. \A m \in S : <<m, n>> \in OpToRel(<, Nat) <=> m < n
    BY DEF OpToRel
  <1>3. \A m \in S : ~(m < n)
    BY <1>1, <1>2, Zenon
  <1> QED
    BY <1>3

\* A non-empty set of positions has a last one.
LEMMA LastPosition ==
    ASSUME NEW n \in Nat, NEW S \in SUBSET (1..n), S # {}
    PROVE  \E i \in S : \A j \in S : j <= i
  <1> DEFINE back == {k \in Nat : n - k \in S}
  <1>1. PICK e \in S : TRUE
    OBVIOUS
  <1>2. n - e \in back
    BY <1>1
  <1>3. PICK k \in back : \A m \in back : k <= m
    BY <1>2, LeastNatural
  <1>4. \A j \in S : n - j \in back
    OBVIOUS
  <1>5. \A j \in S : j <= n - k
    BY <1>3, <1>4
  <1> QED
    BY <1>3, <1>5

ReviewOf(d) == [definition : {d}, requestedBy : Users, status : ReviewStatuses,
                tiers : [TiersOf(d) -> TierReview]]

\* A review belongs to one definition, which fixes its tiers.
LEMMA ReviewShape ==
    ASSUME NEW r \in Review
    PROVE  /\ r.definition \in Definitions
           /\ r \in ReviewOf(r.definition)
           /\ DOMAIN r.tiers = TiersOf(r.definition)
           /\ TiersOf(r.definition) \subseteq Nat
  <1>1. PICK d \in Definitions : r \in ReviewOf(d)
    BY DEF Review, ReviewOf
  <1>2. r.definition = d /\ r.tiers \in [TiersOf(d) -> TierReview]
    BY <1>1 DEF ReviewOf
  <1>3. TiersOf(d) \subseteq Nat
    BY ConfigAssumption DEF TiersOf
  <1> QED
    BY <1>1, <1>2, <1>3

\* A review of definition d is a review.
LEMMA ReviewIntro ==
    ASSUME NEW d \in Definitions, NEW r \in ReviewOf(d)
    PROVE  r \in Review
  BY DEF Review, ReviewOf

\* The designated approvers of a tier are users.
LEMMA DesignatedAreUsers ==
    ASSUME NEW t \in Tiers, NEW u \in Users
    PROVE  Tier[t].approvers[u] \subseteq Users
  BY ConfigAssumption DEF TierConfig

\* The current tier of a review is the first of its pending tiers.
LEMMA CurrentTierFirst ==
    ASSUME NEW r \in Review, PendingTiers(r) # {}
    PROVE  /\ CurrentTier(r) \in PendingTiers(r)
           /\ \A s \in PendingTiers(r) : CurrentTier(r) <= s
  <1>1. PendingTiers(r) \in SUBSET Nat
    BY ReviewShape DEF PendingTiers
  <1>2. \E t \in PendingTiers(r) : \A s \in PendingTiers(r) : t <= s
    BY <1>1, LeastNatural
  <1> QED
    BY <1>2 DEF CurrentTier

\* The active review is the newest of the pending ones.
LEMMA ActiveIndexNewest ==
    ASSUME reviews \in Seq(Review), PendingReviews # {}
    PROVE  /\ ActiveIndex \in PendingReviews
           /\ \A j \in PendingReviews : j <= ActiveIndex
  <1>1. Len(reviews) \in Nat /\ PendingReviews \in SUBSET (1..Len(reviews))
    BY DEF PendingReviews
  <1>2. \E i \in PendingReviews : \A j \in PendingReviews : j <= i
    BY <1>1, LastPosition
  <1> QED
    BY <1>2 DEF ActiveIndex

-----------------------------------------------------------------------------
(* The operators on reviews *)

\* Statuses a tier review has while its review is open.
Unfinished(r) == \A t \in DOMAIN r.tiers :
    r.tiers[t].status \in {"waiting", "pending", "approved"}

\* A review takes a new status and new tier reviews.
LEMMA RevisedReview ==
    ASSUME NEW d \in Definitions, NEW r \in ReviewOf(d),
           NEW st \in ReviewStatuses, NEW f \in [TiersOf(d) -> TierReview]
    PROVE  LET q == [r EXCEPT !.status = st, !.tiers = f]
           IN  /\ q \in ReviewOf(d)
               /\ q.definition = d
               /\ q.requestedBy = r.requestedBy
               /\ q.status = st
               /\ q.tiers = f
  BY DEF ReviewOf

\* ActivateNext keeps a review's data and who approved, and changes the status
\* of the next tiers only.
LEMMA ActivateNextShape ==
    ASSUME NEW d \in Definitions, NEW r \in ReviewOf(d)
    PROVE  LET q == ActivateNext(r)
           IN  /\ q \in ReviewOf(d)
               /\ q.requestedBy = r.requestedBy
               /\ q.status \in {r.status, "approved"}
               /\ DOMAIN q.tiers = TiersOf(d)
               /\ DOMAIN r.tiers = TiersOf(d)
               /\ \A t \in TiersOf(d) :
                     /\ q.tiers[t].approvedBy = r.tiers[t].approvedBy
                     /\ q.tiers[t].status = IF t \in NextTiers(r) THEN "pending"
                                            ELSE r.tiers[t].status
  <1> DEFINE q == ActivateNext(r)
             f == [t \in TiersOf(d) |->
                     [status |-> IF t \in NextTiers(r) THEN "pending"
                                 ELSE r.tiers[t].status,
                      approvedBy |-> r.tiers[t].approvedBy]]
  <1>1. DOMAIN r.tiers = TiersOf(d) /\ r.tiers \in [TiersOf(d) -> TierReview]
    BY DEF ReviewOf
  <1>2. f \in [TiersOf(d) -> TierReview]
    BY <1>1 DEF TierReview, TierStatuses
  <1>3. q.tiers = f /\ q.requestedBy = r.requestedBy /\ q.definition = d
    BY <1>1 DEF ActivateNext, ReviewOf
  <1>4. q.status \in {r.status, "approved"}
    BY DEF ActivateNext, ReviewOf
  <1>5. q \in ReviewOf(d)
    BY <1>1, <1>2, <1>4, RevisedReview DEF ActivateNext, ReviewOf, ReviewStatuses
  <1> QED
    BY <1>1, <1>3, <1>4, <1>5

\* A review one of whose tiers waits has a next tier.
LEMMA NextTierExists ==
    ASSUME NEW d \in Definitions, NEW r \in ReviewOf(d), WaitingTiers(r) # {}
    PROVE  NextTiers(r) # {}
  <1>1. WaitingTiers(r) \in SUBSET Nat
    BY ConfigAssumption DEF WaitingTiers, ReviewOf, TiersOf
  <1>2. PICK t \in WaitingTiers(r) : \A s \in WaitingTiers(r) : t <= s
    BY <1>1, LeastNatural
  <1> QED
    BY <1>1, <1>2 DEF NextTiers

\* Activating the next tiers of a well-formed open review keeps it well formed
\* and completes it only behind approved blocking tiers.
LEMMA ActivateNextOK ==
    ASSUME NEW d \in Definitions, NEW r \in ReviewOf(d), r.status = "pending",
           InSequence(r), NotByRequester(r), Quorate(r, {r.requestedBy}),
           Unfinished(r)
    PROVE  LET q == ActivateNext(r)
           IN  /\ ReviewOK(q)
               /\ q.status \in {"pending", "approved"}
               /\ q.status = "approved" => BlockingTiersApproved(q)
  <1> DEFINE q == ActivateNext(r)
  <1> HIDE DEF q
  <1>1. /\ q \in ReviewOf(d)
        /\ q.requestedBy = r.requestedBy
        /\ q.status \in {"pending", "approved"}
        /\ DOMAIN q.tiers = TiersOf(d)
        /\ DOMAIN r.tiers = TiersOf(d)
    BY ActivateNextShape DEF q
  <1>2. \A t \in TiersOf(d) :
           /\ q.tiers[t].approvedBy = r.tiers[t].approvedBy
           /\ q.tiers[t].status = IF t \in NextTiers(r) THEN "pending"
                                  ELSE r.tiers[t].status
    BY ActivateNextShape DEF q
  <1>3. \A t \in NextTiers(r) : t \in TiersOf(d) /\ r.tiers[t].status = "waiting"
    BY <1>1 DEF NextTiers, WaitingTiers
  <1>4. TiersOf(d) \subseteq Nat
    BY ConfigAssumption DEF TiersOf
  <1>5. InSequence(q)
    <2> SUFFICES ASSUME NEW s \in TiersOf(d), NEW t \in TiersOf(d), s < t
                 PROVE  /\ q.tiers[t].approvedBy # {} \/ q.tiers[t].status = "approved" =>
                              q.tiers[s].status = "approved"
                        /\ q.tiers[t].status = "pending" => q.tiers[s].status # "waiting"
      BY <1>1 DEF InSequence
    <2>1. /\ r.tiers[t].approvedBy # {} \/ r.tiers[t].status = "approved" =>
                r.tiers[s].status = "approved"
          /\ r.tiers[t].status = "pending" => r.tiers[s].status # "waiting"
      BY <1>1 DEF InSequence
    <2>2. q.tiers[t].approvedBy # {} \/ q.tiers[t].status = "approved" =>
             q.tiers[s].status = "approved"
      BY <1>2, <1>3, <2>1
    <2>3. ASSUME t \in NextTiers(r), r.tiers[s].status = "waiting"
          PROVE  s \in NextTiers(r)
      BY <1>1, <1>4, <2>3 DEF NextTiers, WaitingTiers
    <2>4. q.tiers[t].status = "pending" => q.tiers[s].status # "waiting"
      BY <1>2, <2>1, <2>3
    <2> QED
      BY <2>2, <2>4
  <1>6. NotByRequester(q)
    BY <1>1, <1>2 DEF NotByRequester
  <1>7. Quorate(q, {q.requestedBy})
    BY <1>1, <1>2, <1>3 DEF Quorate
  <1>8. \A t \in TiersOf(d) : q.tiers[t].status \in {"waiting", "pending", "approved"}
    BY <1>1, <1>2 DEF Unfinished
  <1>9. q.status = "pending" => \E t \in TiersOf(d) :
           Tier[t].blocking /\ r.tiers[t].status \notin {"approved", "skipped"}
    BY <1>1 DEF q, ActivateNext, ReviewOf
  <1>10. q.status = "pending" => PendingTiers(q) # {}
    <2> SUFFICES ASSUME q.status = "pending" PROVE PendingTiers(q) # {}
      OBVIOUS
    <2>1. PICK t \in TiersOf(d) : r.tiers[t].status \in {"waiting", "pending"}
      BY <1>1, <1>9 DEF Unfinished
    <2>2. CASE r.tiers[t].status = "pending"
      BY <1>1, <1>2, <2>2 DEF PendingTiers
    <2>3. CASE r.tiers[t].status = "waiting"
      <3>1. PICK w \in NextTiers(r) : TRUE
        BY <1>1, <2>3, NextTierExists DEF WaitingTiers
      <3> QED
        BY <1>1, <1>2, <1>3, <3>1 DEF PendingTiers
    <2> QED
      BY <2>1, <2>2, <2>3
  <1>11. q.status = "approved" => BlockingTiersApproved(q)
    <2>1. q.status = "approved" => \A t \in TiersOf(d) :
             Tier[t].blocking => r.tiers[t].status \in {"approved", "skipped"}
      BY <1>1 DEF q, ActivateNext, ReviewOf
    <2> QED
      BY <1>1, <1>2, <1>3, <2>1 DEF BlockingTiersApproved, Unfinished
  <1> QED
    BY <1>1, <1>5, <1>6, <1>7, <1>8, <1>10, <1>11 DEF ReviewOK, q

\* A new review is well formed and waits for approvers unless all its tiers are
\* non-blocking.
LEMMA NewReviewOK ==
    ASSUME NEW d \in Definitions, NEW u \in Users
    PROVE  LET q == NewReview(u, d)
           IN  /\ q \in ReviewOf(d)
               /\ q.requestedBy = u
               /\ ReviewOK(q)
               /\ \/ q.status = "pending"
                  \/ /\ q.status = "approved"
                     /\ TiersOf(d) # {}
                     /\ \A t \in TiersOf(d) : ~Tier[t].blocking
  <1> DEFINE fresh == [definition |-> d, requestedBy |-> u, status |-> "pending",
                       tiers |-> [t \in TiersOf(d) |->
                                    [status |-> "waiting", approvedBy |-> {}]]]
             q == NewReview(u, d)
  <1>1. /\ fresh \in ReviewOf(d)
        /\ DOMAIN fresh.tiers = TiersOf(d)
        /\ fresh.requestedBy = u
        /\ fresh.status = "pending"
    BY DEF ReviewOf, ReviewStatuses, TierReview, TierStatuses
  <1>2. \A t \in TiersOf(d) : /\ fresh.tiers[t].status = "waiting"
                              /\ fresh.tiers[t].approvedBy = {}
    OBVIOUS
  <1>3. InSequence(fresh) /\ NotByRequester(fresh)
        /\ Quorate(fresh, {fresh.requestedBy}) /\ Unfinished(fresh)
    BY <1>1, <1>2 DEF InSequence, NotByRequester, Quorate, Unfinished
  <1> HIDE DEF fresh
  <1>4. q = IF TiersOf(d) = {} THEN fresh ELSE ActivateNext(fresh)
    BY DEF NewReview, fresh
  <1>5. CASE TiersOf(d) = {}
    BY <1>1, <1>3, <1>4, <1>5 DEF ReviewOK, Unfinished
  <1>6. CASE TiersOf(d) # {}
    <2>1. q = ActivateNext(fresh)
      BY <1>4, <1>6
    <2> HIDE DEF q
    <2>2. /\ ReviewOK(q)
          /\ q.status \in {"pending", "approved"}
          /\ q.status = "approved" => BlockingTiersApproved(q)
      BY <1>1, <1>3, <2>1, ActivateNextOK
    <2>3. /\ q \in ReviewOf(d)
          /\ q.requestedBy = u
          /\ DOMAIN q.tiers = TiersOf(d)
      BY <1>1, <2>1, ActivateNextShape
    <2>4. \A t \in TiersOf(d) : q.tiers[t].status # "approved"
      BY <1>1, <1>2, <2>1, ActivateNextShape
    <2>5. q.status = "approved" => \A t \in TiersOf(d) : ~Tier[t].blocking
      BY <2>2, <2>3, <2>4 DEF BlockingTiersApproved
    <2> QED
      BY <1>6, <2>2, <2>3, <2>5 DEF q
  <1> QED
    BY <1>5, <1>6

\* Approving the current tier of a well-formed open review keeps it well formed
\* and approves it only behind approved blocking tiers.
LEMMA ApproveTierOK ==
    ASSUME NEW d \in Definitions, NEW r \in ReviewOf(d), ReviewOK(r),
           r.status = "pending", r.requestedBy = submittedBy,
           NEW t \in PendingTiers(r), \A s \in PendingTiers(r) : t <= s,
           NEW u \in TierApprovers(t), active \subseteq Users,
           Users \ Leavers \subseteq active
    PROVE  LET q == ApproveTier(r, t, u)
           IN  /\ q \in ReviewOf(d)
               /\ q.requestedBy = r.requestedBy
               /\ ReviewOK(q)
               /\ q.status \in {"pending", "approved"}
               /\ q.status = "approved" => BlockingTiersApproved(q)
  <1> DEFINE by == r.tiers[t].approvedBy \cup {u}
             done == TierComplete(t, by)
             now == [status |-> IF done THEN "approved" ELSE "pending", approvedBy |-> by]
             marked == [r EXCEPT !.tiers[t] = now]
             q == ApproveTier(r, t, u)
  <1>1. /\ DOMAIN r.tiers = TiersOf(d)
        /\ r.tiers \in [TiersOf(d) -> TierReview]
        /\ t \in TiersOf(d)
        /\ t \in Tiers
        /\ r.requestedBy \in Users
        /\ r.tiers[t].status = "pending"
        /\ TiersOf(d) \subseteq Nat
    BY ConfigAssumption DEF ReviewOf, PendingTiers, TiersOf
  <1>2. /\ u \in Users
        /\ u \in Tier[t].approvers[r.requestedBy]
        /\ Tier[t].selfApprove \/ u # r.requestedBy
    BY DEF TierApprovers
  <1>3. now \in TierReview
    BY <1>1, <1>2 DEF TierReview, TierStatuses
  <1>4. [r.tiers EXCEPT ![t] = now] \in [TiersOf(d) -> TierReview]
    BY <1>1, <1>3
  <1>5. /\ marked \in ReviewOf(d)
        /\ marked.requestedBy = r.requestedBy
        /\ marked.status = "pending"
        /\ marked.tiers = [r.tiers EXCEPT ![t] = now]
    BY <1>4 DEF ReviewOf
  <1>6. q = IF done THEN ActivateNext(marked) ELSE marked
    BY DEF ApproveTier
  <1>7. /\ DOMAIN marked.tiers = TiersOf(d)
        /\ marked.tiers[t].approvedBy = by
        /\ marked.tiers[t].status = IF done THEN "approved" ELSE "pending"
        /\ \A s \in TiersOf(d) : s # t => marked.tiers[s] = r.tiers[s]
    BY <1>1, <1>5
  <1> HIDE DEF marked, now
  <1>8. \A s \in TiersOf(d) : s < t => r.tiers[s].status = "approved"
    BY <1>1 DEF ReviewOK, InSequence, PendingTiers
  <1>9. InSequence(marked)
    <2> SUFFICES ASSUME NEW i \in TiersOf(d), NEW j \in TiersOf(d), i < j
                 PROVE  /\ marked.tiers[j].approvedBy # {} \/ marked.tiers[j].status = "approved" =>
                              marked.tiers[i].status = "approved"
                        /\ marked.tiers[j].status = "pending" => marked.tiers[i].status # "waiting"
      BY <1>7 DEF InSequence
    <2>1. /\ r.tiers[j].approvedBy # {} \/ r.tiers[j].status = "approved" =>
                r.tiers[i].status = "approved"
          /\ r.tiers[j].status = "pending" => r.tiers[i].status # "waiting"
      BY <1>1 DEF ReviewOK, InSequence
    <2>2. CASE j = t
      BY <1>1, <1>7, <1>8, <2>2
    <2>3. CASE i = t
      BY <1>1, <1>7, <2>1, <2>3
    <2>4. CASE i # t /\ j # t
      BY <1>7, <2>1, <2>4
    <2> QED
      BY <2>2, <2>3, <2>4
  <1>10. NotByRequester(marked)
    BY <1>1, <1>2, <1>5, <1>7 DEF NotByRequester, ReviewOK
  <1>11. Quorate(marked, {marked.requestedBy})
    <2>1. by \subseteq Tier[t].approvers[r.requestedBy]
      BY <1>1, <1>2 DEF ReviewOK, Quorate
    <2>2. Required(t, r.requestedBy, {r.requestedBy}) \subseteq TierApprovers(t)
      BY <1>1, DesignatedAreUsers DEF Required, TierApprovers
    <2>3. done => IF Tier[t].requireAll
                  THEN Required(t, r.requestedBy, {r.requestedBy}) \subseteq by
                  ELSE Cardinality(by) >= Tier[t].minApprovers
      BY <2>2 DEF TierComplete
    <2> HIDE DEF by, done
    <2>4. \A s \in TiersOf(d) : s # t =>
             /\ marked.tiers[s].approvedBy \subseteq Tier[s].approvers[r.requestedBy]
             /\ marked.tiers[s].status = "approved" =>
                   IF Tier[s].requireAll
                   THEN Required(s, r.requestedBy, {r.requestedBy})
                          \subseteq marked.tiers[s].approvedBy
                   ELSE Cardinality(marked.tiers[s].approvedBy) >= Tier[s].minApprovers
      BY <1>1, <1>7 DEF ReviewOK, Quorate
    <2> QED
      BY <1>5, <1>7, <2>1, <2>3, <2>4 DEF Quorate
  <1>12. Unfinished(marked)
    BY <1>1, <1>7 DEF Unfinished, ReviewOK
  <1> HIDE DEF done, by, q
  <1>13. CASE done
    <2>1. q = ActivateNext(marked)
      BY <1>6, <1>13
    <2>2. q \in ReviewOf(d) /\ q.requestedBy = r.requestedBy
      BY <1>5, <2>1, ActivateNextShape
    <2> QED
      BY <1>5, <1>9, <1>10, <1>11, <1>12, <2>1, <2>2, ActivateNextOK DEF q
  <1>14. CASE ~done
    <2>1. q = marked
      BY <1>6, <1>14
    <2>2. t \in PendingTiers(marked)
      BY <1>1, <1>7, <1>14 DEF PendingTiers
    <2>3. ReviewOK(marked)
      BY <1>9, <1>10, <1>11, <1>12, <2>2 DEF ReviewOK, Unfinished
    <2> QED
      BY <1>5, <2>1, <2>3 DEF q
  <1> QED
    BY <1>13, <1>14

\* Rejecting a tier of a well-formed open review rejects the review and keeps
\* it well formed.
LEMMA RejectTierOK ==
    ASSUME NEW d \in Definitions, NEW r \in ReviewOf(d), ReviewOK(r),
           NEW t \in PendingTiers(r)
    PROVE  LET q == RejectTier(r, t)
           IN  /\ q \in ReviewOf(d)
               /\ q.requestedBy = r.requestedBy
               /\ q.status = "rejected"
               /\ ReviewOK(q)
  <1> DEFINE f == [s \in TiersOf(d) |->
                     IF s = t THEN [r.tiers[s] EXCEPT !.status = "rejected"]
                     ELSE IF r.tiers[s].status = "waiting"
                          THEN [r.tiers[s] EXCEPT !.status = "skipped"]
                          ELSE r.tiers[s]]
             q == RejectTier(r, t)
  <1>1. DOMAIN r.tiers = TiersOf(d) /\ r.tiers \in [TiersOf(d) -> TierReview]
    BY DEF ReviewOf
  <1>2. f \in [TiersOf(d) -> TierReview]
    BY <1>1 DEF TierReview, TierStatuses
  <1>3. q = [r EXCEPT !.status = "rejected", !.tiers = f]
    BY <1>1 DEF RejectTier
  <1> HIDE DEF q, f
  <1>4. /\ q \in ReviewOf(d)
        /\ q.requestedBy = r.requestedBy
        /\ q.status = "rejected"
        /\ q.tiers = f
    <2>1. "rejected" \in ReviewStatuses
      BY DEF ReviewStatuses
    <2> QED
      BY <1>2, <1>3, <2>1 DEF ReviewOf
  <1>5. \A s \in TiersOf(d) :
           /\ f[s].approvedBy = r.tiers[s].approvedBy
           /\ f[s].status = IF s = t THEN "rejected"
                            ELSE IF r.tiers[s].status = "waiting" THEN "skipped"
                            ELSE r.tiers[s].status
    BY <1>1 DEF TierReview, f
  <1>6. DOMAIN q.tiers = TiersOf(d)
    BY <1>2, <1>4
  <1>7. InSequence(q)
    BY <1>1, <1>4, <1>5, <1>6 DEF InSequence, ReviewOK, PendingTiers
  <1>8. NotByRequester(q)
    BY <1>1, <1>4, <1>5, <1>6 DEF NotByRequester, ReviewOK
  <1>9. Quorate(q, {q.requestedBy})
    BY <1>1, <1>4, <1>5, <1>6 DEF Quorate, ReviewOK
  <1> QED
    BY <1>4, <1>7, <1>8, <1>9 DEF ReviewOK, q

\* Closing the pending reviews of a sequence decides them and keeps every review
\* well formed, and its tiers as they were.
LEMMA ClosePendingOK ==
    ASSUME NEW rs \in Seq(Review), NEW st \in {"approved", "rejected"},
           \A i \in DOMAIN rs : ReviewOK(rs[i])
    PROVE  LET q == ClosePending(rs, st)
           IN  /\ q \in Seq(Review)
               /\ Len(q) = Len(rs)
               /\ DOMAIN q = DOMAIN rs
               /\ \A i \in DOMAIN rs :
                     /\ q[i].status = IF rs[i].status = "pending" THEN st ELSE rs[i].status
                     /\ q[i].tiers = rs[i].tiers
                     /\ ReviewOK(q[i])
  <1> DEFINE q == ClosePending(rs, st)
             g(r) == IF r.status = "pending" THEN [r EXCEPT !.status = st] ELSE r
  <1>1. ASSUME NEW r \in Review, ReviewOK(r)
        PROVE  /\ g(r) \in Review
               /\ g(r).status = IF r.status = "pending" THEN st ELSE r.status
               /\ g(r).tiers = r.tiers
               /\ ReviewOK(g(r))
    <2>1. r \in ReviewOf(r.definition) /\ r.definition \in Definitions
      BY ReviewShape
    <2>2. /\ g(r) \in ReviewOf(r.definition)
          /\ g(r).status = IF r.status = "pending" THEN st ELSE r.status
          /\ g(r).tiers = r.tiers
          /\ g(r).requestedBy = r.requestedBy
      BY <2>1 DEF ReviewOf, ReviewStatuses
    <2> HIDE DEF g
    <2>3. Quorate(g(r), {g(r).requestedBy})
      BY <1>1, <2>2 DEF ReviewOK, Quorate
    <2>4. InSequence(g(r)) /\ NotByRequester(g(r))
      BY <1>1, <2>2 DEF ReviewOK, InSequence, NotByRequester
    <2>5. g(r).status = "pending" => r.status = "pending"
      BY <2>2
    <2>6. ReviewOK(g(r))
      BY <1>1, <2>2, <2>3, <2>4, <2>5 DEF ReviewOK, PendingTiers
    <2> QED
      BY <2>1, <2>2, <2>6, ReviewIntro
  <1>2. q = [i \in DOMAIN rs |-> g(rs[i])]
    BY DEF ClosePending
  <1> HIDE DEF g, q
  <1>3. DOMAIN rs = 1..Len(rs) /\ Len(rs) \in Nat
    OBVIOUS
  <1>4. \A i \in DOMAIN rs : rs[i] \in Review
    OBVIOUS
  <1>5. q \in [1..Len(rs) -> Review]
    BY <1>1, <1>2, <1>3, <1>4
  <1>6. q \in Seq(Review) /\ Len(q) = Len(rs) /\ DOMAIN q = DOMAIN rs
    BY <1>3, <1>5
  <1>7. \A i \in DOMAIN rs : q[i] = g(rs[i])
    BY <1>2
  <1> QED
    BY <1>1, <1>4, <1>6, <1>7 DEF q

\* Approving the record over well-formed reviews establishes the invariant when
\* an approval through the record leaves the last review's blocking tiers done.
LEMMA DoApproveOK ==
    ASSUME IInv, NEW rs \in Seq(Review),
           \A i \in DOMAIN rs : ReviewOK(rs[i]),
           NEW how \in {"approvers", "batch", "system"},
           DoApprove(rs, how),
           UNCHANGED <<submittedBy, rejectors, active, frozen>>,
           how = "approvers" => /\ Len(rs) > 0
                                /\ rs[Len(rs)].status # "rejected"
                                /\ BlockingTiersApproved(rs[Len(rs)])
    PROVE  IInv'
  <1> DEFINE q == ClosePending(rs, "approved")
  <1>1. /\ reviews' = q
        /\ state' = "approved"
        /\ version' = version + 1
        /\ via' = how
    BY DEF DoApprove
  <1>2. /\ q \in Seq(Review)
        /\ Len(q) = Len(rs)
        /\ DOMAIN q = DOMAIN rs
        /\ \A i \in DOMAIN rs :
              /\ q[i].status = IF rs[i].status = "pending" THEN "approved" ELSE rs[i].status
              /\ q[i].tiers = rs[i].tiers
              /\ ReviewOK(q[i])
    BY ClosePendingOK
  <1> HIDE DEF q
  <1>3. TypeOK'
    BY <1>1, <1>2 DEF IInv, TypeOK, ApprovalStates
  <1>4. \A i \in DOMAIN reviews' : ReviewOK(reviews'[i])
    BY <1>1, <1>2
  <1>5. PendingReviews' = {}
    BY <1>1, <1>2 DEF PendingReviews
  <1>6. MultitierReviewIsLive' /\ RoundOpen'
    BY <1>1, <1>5 DEF MultitierReviewIsLive, RoundOpen
  <1>7. FullyApproved'
    <2> SUFFICES ASSUME how = "approvers"
                 PROVE  q[Len(q)].status = "approved" /\ BlockingTiersApproved(q[Len(q)])
      BY <1>1 DEF FullyApproved, LastReview
    <2>1. Len(rs) \in DOMAIN rs /\ rs[Len(rs)] \in Review
      OBVIOUS
    <2>2. rs[Len(rs)].status \in ReviewStatuses
      BY <2>1, ReviewShape DEF ReviewOf
    <2> QED
      BY <1>2, <2>1, <2>2 DEF ReviewStatuses, BlockingTiersApproved
  <1> QED
    BY <1>3, <1>4, <1>6, <1>7 DEF IInv

-----------------------------------------------------------------------------
(* The inductive invariant *)

\* The active review is well formed, and the last one if it is multi-tier.
LEMMA ActiveReviewOK ==
    ASSUME IInv, PendingReviews # {}
    PROVE  /\ ActiveIndex \in DOMAIN reviews
           /\ ActiveReview \in Review
           /\ ActiveReview.status = "pending"
           /\ ReviewOK(ActiveReview)
           /\ IsMultitier(ActiveReview) => state = "pending" /\ ActiveIndex = Len(reviews)
           /\ Len(reviews) \in PendingReviews => ActiveIndex = Len(reviews)
           /\ ActiveIndex \in 1..Len(reviews) /\ Len(reviews) \in Nat
  <1>1. reviews \in Seq(Review)
    BY DEF IInv, TypeOK
  <1>2. ActiveIndex \in PendingReviews /\ \A j \in PendingReviews : j <= ActiveIndex
    BY <1>1, ActiveIndexNewest
  <1>3. ActiveIndex \in DOMAIN reviews /\ reviews[ActiveIndex].status = "pending"
    BY <1>2 DEF PendingReviews
  <1>4. ActiveIndex \in 1..Len(reviews) /\ Len(reviews) \in Nat
    BY <1>1, <1>3
  <1>5. Len(reviews) \in PendingReviews => ActiveIndex = Len(reviews)
    BY <1>2, <1>4
  <1>6. ActiveReview \in Review /\ ReviewOK(ActiveReview)
    BY <1>1, <1>3 DEF IInv, ActiveReview
  <1>7. IsMultitier(ActiveReview) => state = "pending" /\ ActiveIndex = Len(reviews)
    <2>1. \A i \in PendingReviews :
             IsMultitier(reviews[i]) => state = "pending" /\ i = Len(reviews)
      BY DEF IInv, MultitierReviewIsLive
    <2> QED
      BY <1>2, <2>1 DEF ActiveReview
  <1> QED
    BY <1>3, <1>4, <1>5, <1>6, <1>7 DEF ActiveReview

\* A fresh draft record satisfies the invariant.
LEMMA InitIInv == ASSUME Init PROVE IInv
  <1>1. reviews = <<>> /\ DOMAIN reviews = {}
    BY DEF Init
  <1>2. TypeOK
    <2>1. <<>> \in Seq(Review)
      OBVIOUS
    <2> QED
      BY <1>1, <2>1 DEF Init, TypeOK, ApprovalStates
  <1> QED
    BY <1>1, <1>2 DEF Init, IInv, MultitierReviewIsLive, PendingReviews, RoundOpen,
                      FullyApproved

\* action_submit_for_approval opens a round or approves on the submitter's own
\* authority.
LEMMA SubmitIInv ==
    ASSUME IInv, NEW u \in Users, NEW d \in Definitions, Submit(u, d)
    PROVE  IInv'
  <1> USE DEF IInv
  <1>1. CASE DoApprove(reviews, "system") /\ UNCHANGED submittedBy
    BY <1>1, DoApproveOK DEF Submit, TypeOK
  <1>2. CASE /\ reviews' = Append(reviews, NewReview(u, d))
             /\ state' = "pending"
             /\ submittedBy' = u
             /\ via' = "none"
             /\ UNCHANGED version
    <2> DEFINE q == NewReview(u, d)
    <2> HIDE DEF q
    <2>1. /\ q \in Review
          /\ q.requestedBy = u
          /\ q.definition = d
          /\ ReviewOK(q)
          /\ \/ q.status = "pending"
             \/ /\ q.status = "approved"
                /\ TiersOf(d) # {}
                /\ \A t \in TiersOf(d) : ~Tier[t].blocking
      BY NewReviewOK, ReviewIntro DEF q, ReviewOf
    <2>2. /\ reviews \in Seq(Review)
          /\ Len(reviews) \in Nat
          /\ reviews' = Append(reviews, q)
      BY <1>2 DEF TypeOK, q
    <2>3. /\ reviews' \in Seq(Review)
          /\ Len(reviews') = Len(reviews) + 1
          /\ DOMAIN reviews' = DOMAIN reviews \cup {Len(reviews')}
          /\ reviews'[Len(reviews')] = q
          /\ \A i \in DOMAIN reviews : reviews'[i] = reviews[i]
      BY <2>1, <2>2
    <2>4. TypeOK'
      BY <1>2, <2>3 DEF Submit, TypeOK, ApprovalStates
    <2>5. \A i \in DOMAIN reviews' : ReviewOK(reviews'[i])
      BY <2>1, <2>3
    <2>6. state \in {"draft", "revision"}
      BY ConfigAssumption DEF Submit
    <2>7. \A i \in DOMAIN reviews :
             reviews[i].status = "pending" => ~IsMultitier(reviews[i])
      BY <2>6 DEF MultitierReviewIsLive, PendingReviews
    <2>8. MultitierReviewIsLive'
      BY <1>2, <2>3, <2>7 DEF MultitierReviewIsLive, PendingReviews, IsMultitier
    <2>9. RoundOpen'
      BY <1>2, <2>1, <2>2, <2>3 DEF RoundOpen, LastReview
    <2>10. FullyApproved'
      BY <1>2 DEF FullyApproved
    <2> QED
      BY <2>4, <2>5, <2>8, <2>9, <2>10
  <1> QED
    BY <1>1, <1>2 DEF Submit

\* A handler that puts a well-formed review q in place of the active one, without
\* changing whose it is, keeps the reviews well formed.
LEMMA ReplaceActive ==
    ASSUME IInv, PendingReviews # {}, NEW q \in Review, ReviewOK(q)
    PROVE  LET rs == [reviews EXCEPT ![ActiveIndex] = q]
           IN  /\ rs \in Seq(Review)
               /\ Len(rs) = Len(reviews)
               /\ DOMAIN rs = DOMAIN reviews
               /\ rs[ActiveIndex] = q
               /\ \A i \in DOMAIN reviews : i # ActiveIndex => rs[i] = reviews[i]
               /\ \A i \in DOMAIN rs : ReviewOK(rs[i])
  <1>1. reviews \in Seq(Review) /\ ActiveIndex \in DOMAIN reviews
    BY ActiveReviewOK DEF IInv, TypeOK
  <1>2. \A i \in DOMAIN reviews : ReviewOK(reviews[i])
    BY DEF IInv
  <1> QED
    BY <1>1, <1>2

\* action_approve records one approver at the current tier, or approves the
\* record when that completes its review.
LEMMA ApproveIInv ==
    ASSUME IInv, NEW u \in Users, Approve(u)
    PROVE  IInv'
  <1>1. /\ u \in active
        /\ state = "pending"
        /\ PendingReviews # {}
        /\ UNCHANGED <<submittedBy, rejectors, active, frozen>>
    BY DEF Approve, CanDecide
  <1>2. /\ ActiveIndex \in DOMAIN reviews
        /\ ActiveReview \in Review
        /\ ActiveReview.status = "pending"
        /\ ReviewOK(ActiveReview)
        /\ IsMultitier(ActiveReview) => ActiveIndex = Len(reviews)
        /\ Len(reviews) \in PendingReviews => ActiveIndex = Len(reviews)
        /\ ActiveIndex \in 1..Len(reviews) /\ Len(reviews) \in Nat
    BY <1>1, ActiveReviewOK
  <1>3. /\ reviews \in Seq(Review)
        /\ active \subseteq Users
        /\ Users \ Leavers \subseteq active
        /\ \A i \in DOMAIN reviews : ReviewOK(reviews[i])
        /\ MultitierReviewIsLive
        /\ RoundOpen
    BY DEF IInv, TypeOK
  <1>4. CASE IsMultitier(ActiveReview)
    <2> DEFINE t == CurrentTier(ActiveReview)
               d == ActiveReview.definition
               q == ApproveTier(ActiveReview, t, u)
               rs == [reviews EXCEPT ![ActiveIndex] = q]
    <2>1. PendingTiers(ActiveReview) # {} /\ u \in TierApprovers(t)
      BY <1>4 DEF Approve, CanDecide
    <2>2. t \in PendingTiers(ActiveReview) /\ \A s \in PendingTiers(ActiveReview) : t <= s
      BY <1>2, <2>1, CurrentTierFirst
    <2>3. d \in Definitions /\ ActiveReview \in ReviewOf(d)
      BY <1>2, ReviewShape
    <2>4. ActiveReview = LastReview /\ ActiveIndex = Len(reviews)
      BY <1>2, <1>4 DEF ActiveReview, LastReview
    <2>5. ActiveReview.requestedBy = submittedBy
      BY <1>1, <1>3, <2>4 DEF RoundOpen
    <2>6. \/ /\ rs[ActiveIndex].status = "approved"
             /\ DoApprove(rs, "approvers")
          \/ /\ rs[ActiveIndex].status # "approved"
             /\ reviews' = rs
             /\ UNCHANGED <<state, version, via>>
      BY <1>4 DEF Approve, ActiveReview
    <2> HIDE DEF t, d
    <2>7. /\ q \in ReviewOf(d)
          /\ q.requestedBy = ActiveReview.requestedBy
          /\ ReviewOK(q)
          /\ q.status \in {"pending", "approved"}
          /\ q.status = "approved" => BlockingTiersApproved(q)
      BY <1>2, <1>3, <2>1, <2>2, <2>3, <2>5, ApproveTierOK
    <2>8. q \in Review /\ q.definition = d
      BY <2>3, <2>7, ReviewIntro DEF ReviewOf
    <2> HIDE DEF q, rs
    <2>9. /\ rs \in Seq(Review)
          /\ Len(rs) = Len(reviews)
          /\ DOMAIN rs = DOMAIN reviews
          /\ rs[ActiveIndex] = q
          /\ \A i \in DOMAIN reviews : i # ActiveIndex => rs[i] = reviews[i]
          /\ \A i \in DOMAIN rs : ReviewOK(rs[i])
      BY <1>1, <2>7, <2>8, ReplaceActive DEF rs
    <2>10. CASE q.status = "approved"
      BY <1>1, <1>2, <2>4, <2>6, <2>7, <2>9, <2>10, DoApproveOK
    <2>11. CASE q.status = "pending"
      <3>1. reviews' = rs /\ UNCHANGED <<state, version, via>>
        BY <2>6, <2>9, <2>11
      <3>2. TypeOK'
        BY <1>1, <2>9, <3>1 DEF IInv, TypeOK
      <3>3. \A i \in DOMAIN reviews : reviews'[i].status = reviews[i].status /\
                                      reviews'[i].definition = reviews[i].definition
        BY <1>2, <2>8, <2>9, <2>11, <3>1 DEF ActiveReview, d
      <3>4. MultitierReviewIsLive'
        BY <1>3, <2>9, <3>1, <3>3 DEF MultitierReviewIsLive, PendingReviews, IsMultitier
      <3>5. RoundOpen'
        BY <1>1, <1>2, <1>3, <2>4, <2>5, <2>7, <2>9, <2>11, <3>1 DEF RoundOpen, LastReview
      <3>6. FullyApproved'
        BY <1>1, <3>1 DEF FullyApproved
      <3> QED
        BY <2>9, <3>1, <3>2, <3>4, <3>5, <3>6 DEF IInv
    <2> QED
      BY <2>7, <2>10, <2>11
  <1>5. CASE ~IsMultitier(ActiveReview)
    <2>1. DoApprove(reviews, "approvers")
      BY <1>5 DEF Approve
    <2>2. Len(reviews) \in DOMAIN reviews /\ LastReview \in Review
      BY <1>2, <1>3 DEF LastReview
    <2>3. DOMAIN LastReview.tiers = TiersOf(LastReview.definition)
      BY <2>2, ReviewShape
    <2>4. LastReview.status # "rejected" /\ BlockingTiersApproved(LastReview)
      <3>1. CASE LastReview.status = "pending"
        <4>1. ActiveReview = LastReview
          BY <1>2, <2>2, <3>1 DEF PendingReviews, ActiveReview, LastReview
        <4>2. TiersOf(LastReview.definition) = {}
          BY <1>5, <4>1 DEF TiersOf, IsMultitier
        <4> QED
          BY <2>3, <3>1, <4>2 DEF BlockingTiersApproved
      <3>2. CASE LastReview.status # "pending"
        BY <1>1, <1>3, <2>3, <3>2 DEF RoundOpen, BlockingTiersApproved
      <3> QED
        BY <3>1, <3>2
    <2> QED
      BY <1>1, <1>2, <1>3, <2>1, <2>4, DoApproveOK DEF LastReview
  <1> QED
    BY <1>4, <1>5

\* The rejection wizard closes the active multi-tier review, if there is one.
LEMMA ConfirmRejectionIInv ==
    ASSUME IInv, NEW u \in Users, ConfirmRejection(u)
    PROVE  IInv'
  <1>1. /\ state' = "rejected"
        /\ rejectors' = rejectors \ {u}
        /\ UNCHANGED <<version, submittedBy, active, frozen, via>>
    BY DEF ConfirmRejection
  <1>2. RoundOpen' /\ FullyApproved'
    BY <1>1 DEF RoundOpen, FullyApproved
  <1>3. CASE PendingReviews # {} /\ IsMultitier(ActiveReview)
    <2> DEFINE t == CurrentTier(ActiveReview)
               q == RejectTier(ActiveReview, t)
               rs == [reviews EXCEPT ![ActiveIndex] = q]
    <2>1. reviews' = rs /\ PendingTiers(ActiveReview) # {}
      BY <1>3 DEF ConfirmRejection, ActiveReview
    <2>2. /\ ActiveReview \in Review
          /\ ReviewOK(ActiveReview)
          /\ ActiveIndex = Len(reviews)
      BY <1>3, ActiveReviewOK
    <2>3. t \in PendingTiers(ActiveReview)
      BY <2>1, <2>2, CurrentTierFirst
    <2> HIDE DEF t
    <2>4. q \in Review /\ q.status = "rejected" /\ ReviewOK(q)
      BY <2>2, <2>3, ReviewShape, RejectTierOK, ReviewIntro
    <2> HIDE DEF q, rs
    <2>5. /\ rs \in Seq(Review)
          /\ Len(rs) = Len(reviews)
          /\ DOMAIN rs = DOMAIN reviews
          /\ rs[ActiveIndex] = q
          /\ \A i \in DOMAIN reviews : i # ActiveIndex => rs[i] = reviews[i]
          /\ \A i \in DOMAIN rs : ReviewOK(rs[i])
      BY <1>3, <2>4, ReplaceActive DEF rs
    <2>6. TypeOK'
      BY <1>1, <2>1, <2>5 DEF IInv, TypeOK, ApprovalStates
    <2>7. \A i \in PendingReviews' : i # ActiveIndex /\ i \in PendingReviews /\ reviews'[i] = reviews[i]
      BY <2>1, <2>4, <2>5 DEF PendingReviews
    <2>8. \A i \in PendingReviews' : ~IsMultitier(reviews'[i])
      BY <2>2, <2>7 DEF IInv, MultitierReviewIsLive
    <2>9. MultitierReviewIsLive'
      BY <2>8 DEF MultitierReviewIsLive, IsMultitier
    <2> QED
      BY <1>2, <2>1, <2>5, <2>6, <2>9 DEF IInv
  <1>4. CASE ~(PendingReviews # {} /\ IsMultitier(ActiveReview))
    <2>1. reviews' = reviews
      BY <1>4 DEF ConfirmRejection
    <2>2. TypeOK'
      BY <1>1, <2>1 DEF IInv, TypeOK, ApprovalStates
    <2>3. \A i \in PendingReviews : ~IsMultitier(reviews[i])
      <3> SUFFICES ASSUME NEW i \in PendingReviews, IsMultitier(reviews[i])
                   PROVE  FALSE
        OBVIOUS
      <3>1. i = Len(reviews)
        BY DEF IInv, MultitierReviewIsLive
      <3>2. ActiveIndex = Len(reviews)
        BY <3>1, ActiveReviewOK
      <3> QED
        BY <1>4, <3>1, <3>2 DEF ActiveReview
    <2>4. MultitierReviewIsLive'
      BY <2>1, <2>3 DEF MultitierReviewIsLive, PendingReviews, IsMultitier
    <2> QED
      BY <1>2, <2>1, <2>2, <2>4 DEF IInv
  <1> QED
    BY <1>3, <1>4

\* A request for revision closes every pending review.
LEMMA RequestRevisionIInv ==
    ASSUME IInv, NEW u \in Users, RequestRevision(u)
    PROVE  IInv'
  <1> DEFINE q == ClosePending(reviews, "rejected")
  <1>1. /\ state' = "revision"
        /\ reviews' = q
        /\ UNCHANGED <<version, submittedBy, rejectors, active, frozen, via>>
    BY DEF RequestRevision
  <1>2. /\ q \in Seq(Review)
        /\ DOMAIN q = DOMAIN reviews
        /\ \A i \in DOMAIN q : q[i].status # "pending" /\ ReviewOK(q[i])
    BY ClosePendingOK DEF IInv, TypeOK
  <1> HIDE DEF q
  <1>3. TypeOK'
    BY <1>1, <1>2 DEF IInv, TypeOK, ApprovalStates
  <1>4. MultitierReviewIsLive'
    BY <1>1, <1>2 DEF MultitierReviewIsLive, PendingReviews
  <1> QED
    BY <1>1, <1>2, <1>3, <1>4 DEF IInv, RoundOpen, FullyApproved

\* Steps that leave the reviews alone and end in no pending or approved state, or
\* leave the state alone too.
LEMMA QuietIInv ==
    ASSUME IInv, UNCHANGED <<version, submittedBy, reviews, via>>, TypeOK',
           \/ state' = state
           \/ state \in {"rejected", "revision"} /\ state' = "draft"
    PROVE  IInv'
  BY DEF IInv, MultitierReviewIsLive, PendingReviews, IsMultitier, RoundOpen, LastReview,
         FullyApproved

\* Every step of the record's handlers preserves the invariant.
LEMMA NextIInv ==
    ASSUME ~DirectTierCalls, IInv, [Next]_vars
    PROVE  IInv'
  <1>1. ASSUME NEW u \in Users, NEW d \in Definitions, Submit(u, d) PROVE IInv'
    BY <1>1, SubmitIInv
  <1>2. ASSUME NEW u \in Users, Approve(u) PROVE IInv'
    BY <1>2, ApproveIInv
  <1>3. ASSUME NEW u \in Users, ApproveBatch(u) PROVE IInv'
    BY <1>3, DoApproveOK DEF ApproveBatch, IInv, TypeOK
  <1>4. ASSUME NEW u \in Users, OpenRejection(u) PROVE IInv'
    <2>1. TypeOK'
      BY <1>4 DEF OpenRejection, IInv, TypeOK
    <2> QED
      BY <1>4, <2>1, QuietIInv DEF OpenRejection
  <1>5. ASSUME NEW u \in Users, ConfirmRejection(u) PROVE IInv'
    BY <1>5, ConfirmRejectionIInv
  <1>6. ASSUME NEW u \in Users, RequestRevision(u) PROVE IInv'
    BY <1>6, RequestRevisionIInv
  <1>7. ASSUME NEW u \in Users, ApproveTierAlone(u) \/ RejectTierAlone(u) PROVE IInv'
    BY <1>7 DEF ApproveTierAlone, RejectTierAlone
  <1>8. ASSUME NEW u \in Users, ToggleUser(u) PROVE IInv'
    <2>1. TypeOK'
      BY <1>8 DEF ToggleUser, IInv, TypeOK
    <2> QED
      BY <1>8, <2>1, QuietIInv DEF ToggleUser
  <1>9. ASSUME ApproveSystem PROVE IInv'
    BY <1>9, DoApproveOK DEF ApproveSystem, IInv, TypeOK
  <1>10. ASSUME ResetToDraft PROVE IInv'
    <2>1. TypeOK'
      BY <1>10 DEF ResetToDraft, IInv, TypeOK, ApprovalStates
    <2> QED
      BY <1>10, <2>1, QuietIInv DEF ResetToDraft
  <1>11. ASSUME ToggleFreeze PROVE IInv'
    <2>1. TypeOK'
      BY <1>11 DEF ToggleFreeze, IInv, TypeOK
    <2> QED
      BY <1>11, <2>1, QuietIInv DEF ToggleFreeze
  <1>12. CASE UNCHANGED vars
    <2>1. TypeOK'
      BY <1>12 DEF vars, IInv, TypeOK
    <2> QED
      BY <1>12, <2>1, QuietIInv DEF vars
  <1> QED
    BY <1>1, <1>2, <1>3, <1>4, <1>5, <1>6, <1>7, <1>8, <1>9, <1>10, <1>11, <1>12 DEF Next

\* While approvals go through the record, every reachable state satisfies the
\* inductive invariant (all handlers of spp.approval.mixin).
THEOREM Invariance == ASSUME ~DirectTierCalls PROVE Spec => []IInv
  <1>1. Init => IInv
    BY InitIInv
  <1>2. IInv /\ [Next]_vars => IInv'
    BY NextIInv
  <1> QED
    BY <1>1, <1>2, PTL DEF Spec

-----------------------------------------------------------------------------
(* Types, tier reviews decided without their record included *)

\* Replacing one review.
LEMMA ReplaceTyped ==
    ASSUME NEW rs \in Seq(Review), NEW i, NEW q \in Review
    PROVE  [rs EXCEPT ![i] = q] \in Seq(Review)
  <1>1. rs \in [1..Len(rs) -> Review] /\ Len(rs) \in Nat
    OBVIOUS
  <1>2. [rs EXCEPT ![i] = q] \in [1..Len(rs) -> Review]
    BY <1>1
  <1> QED
    BY <1>1, <1>2

\* Approving a tier keeps the shape of its review.
LEMMA ApproveTierTyped ==
    ASSUME NEW r \in Review, NEW t \in PendingTiers(r), NEW u \in Users
    PROVE  ApproveTier(r, t, u) \in Review
  <1> DEFINE d == r.definition
             by == r.tiers[t].approvedBy \cup {u}
             now == [status |-> IF TierComplete(t, by) THEN "approved" ELSE "pending",
                     approvedBy |-> by]
             marked == [r EXCEPT !.tiers[t] = now]
  <1>1. d \in Definitions /\ r \in ReviewOf(d)
    BY ReviewShape
  <1>2. r.tiers \in [TiersOf(d) -> TierReview] /\ t \in TiersOf(d)
    BY <1>1, ReviewShape DEF ReviewOf, PendingTiers
  <1>3. now \in TierReview
    BY <1>2 DEF TierReview, TierStatuses
  <1> HIDE DEF now, d
  <1>4. [r.tiers EXCEPT ![t] = now] \in [TiersOf(d) -> TierReview]
    BY <1>2, <1>3
  <1>5. marked \in ReviewOf(d)
    BY <1>1, <1>4 DEF ReviewOf
  <1>6. ApproveTier(r, t, u) = IF TierComplete(t, by) THEN ActivateNext(marked) ELSE marked
    BY DEF ApproveTier, now
  <1> HIDE DEF marked
  <1>7. ActivateNext(marked) \in ReviewOf(d)
    BY <1>1, <1>5, ActivateNextShape
  <1> QED
    BY <1>1, <1>5, <1>6, <1>7, ReviewIntro

\* So does rejecting one.
LEMMA RejectTierTyped ==
    ASSUME NEW r \in Review, NEW t
    PROVE  RejectTier(r, t) \in Review
  <1> DEFINE d == r.definition
             f == [s \in TiersOf(d) |->
                     IF s = t THEN [r.tiers[s] EXCEPT !.status = "rejected"]
                     ELSE IF r.tiers[s].status = "waiting"
                          THEN [r.tiers[s] EXCEPT !.status = "skipped"]
                          ELSE r.tiers[s]]
  <1>1. d \in Definitions /\ r \in ReviewOf(d)
    BY ReviewShape
  <1>2. DOMAIN r.tiers = TiersOf(d) /\ r.tiers \in [TiersOf(d) -> TierReview]
    BY <1>1 DEF ReviewOf
  <1>3. f \in [TiersOf(d) -> TierReview]
    BY <1>2 DEF TierReview, TierStatuses
  <1>4. RejectTier(r, t) = [r EXCEPT !.status = "rejected", !.tiers = f]
    BY <1>2 DEF RejectTier
  <1> HIDE DEF f, d
  <1>5. RejectTier(r, t) \in ReviewOf(d)
    BY <1>1, <1>3, <1>4 DEF ReviewOf, ReviewStatuses
  <1> QED
    BY <1>1, <1>5, ReviewIntro

\* Closing the pending reviews keeps the shape of each, and decides it.
LEMMA ClosePendingTyped ==
    ASSUME NEW rs \in Seq(Review), NEW st \in {"approved", "rejected"}
    PROVE  LET q == ClosePending(rs, st)
           IN  /\ q \in Seq(Review)
               /\ DOMAIN q = DOMAIN rs
               /\ \A i \in DOMAIN rs :
                     q[i].status = IF rs[i].status = "pending" THEN st ELSE rs[i].status
  <1> DEFINE q == ClosePending(rs, st)
             g(r) == IF r.status = "pending" THEN [r EXCEPT !.status = st] ELSE r
  <1>1. ASSUME NEW r \in Review
        PROVE  /\ g(r) \in Review
               /\ g(r).status = IF r.status = "pending" THEN st ELSE r.status
    <2>1. r \in ReviewOf(r.definition) /\ r.definition \in Definitions
      BY ReviewShape
    <2>2. /\ g(r) \in ReviewOf(r.definition)
          /\ g(r).status = IF r.status = "pending" THEN st ELSE r.status
      BY <2>1 DEF ReviewOf, ReviewStatuses
    <2> HIDE DEF g
    <2> QED
      BY <2>1, <2>2, ReviewIntro
  <1>2. q = [i \in DOMAIN rs |-> g(rs[i])]
    BY DEF ClosePending
  <1> HIDE DEF g, q
  <1>3. DOMAIN rs = 1..Len(rs) /\ Len(rs) \in Nat /\ \A i \in DOMAIN rs : rs[i] \in Review
    OBVIOUS
  <1>4. q \in [1..Len(rs) -> Review]
    BY <1>1, <1>2, <1>3
  <1>5. \A i \in DOMAIN rs : q[i] = g(rs[i])
    BY <1>2
  <1> QED
    BY <1>1, <1>3, <1>4, <1>5 DEF q

\* Approving the record over typed reviews.
LEMMA DoApproveTyped ==
    ASSUME TypeOK, NEW rs \in Seq(Review), NEW how \in {"approvers", "batch", "system"},
           DoApprove(rs, how), UNCHANGED <<submittedBy, rejectors, active, frozen>>
    PROVE  TypeOK'
  <1>1. ClosePending(rs, "approved") \in Seq(Review)
    BY ClosePendingTyped
  <1> QED
    BY <1>1 DEF DoApprove, TypeOK, ApprovalStates

\* action_submit_for_approval keeps the types.
LEMMA SubmitTyped ==
    ASSUME TypeOK, NEW u \in Users, NEW d \in Definitions, Submit(u, d)
    PROVE  TypeOK'
  <1>1. CASE DoApprove(reviews, "system") /\ UNCHANGED submittedBy
    BY <1>1, DoApproveTyped DEF Submit, TypeOK
  <1>2. CASE /\ reviews' = Append(reviews, NewReview(u, d))
             /\ state' = "pending"
             /\ submittedBy' = u
             /\ via' = "none"
             /\ UNCHANGED version
    <2>1. NewReview(u, d) \in Review
      BY NewReviewOK, ReviewIntro
    <2>2. reviews' \in Seq(Review)
      BY <1>2, <2>1 DEF TypeOK
    <2> QED
      BY <1>2, <2>2 DEF Submit, TypeOK, ApprovalStates
  <1> QED
    BY <1>1, <1>2 DEF Submit

\* The active review, when there is one, is one of the pending reviews.
LEMMA ActiveReviewTyped ==
    ASSUME TypeOK, PendingReviews # {}
    PROVE  /\ ActiveIndex \in DOMAIN reviews
           /\ ActiveReview \in Review
           /\ ActiveReview.status = "pending"
           /\ ActiveReview = reviews[ActiveIndex]
  <1>1. reviews \in Seq(Review)
    BY DEF TypeOK
  <1>2. ActiveIndex \in PendingReviews
    BY <1>1, ActiveIndexNewest
  <1> QED
    BY <1>1, <1>2 DEF PendingReviews, ActiveReview

\* Approving the active review's current tier keeps the reviews typed.
LEMMA TierStepTyped ==
    ASSUME TypeOK, PendingReviews # {}, PendingTiers(ActiveReview) # {}, NEW u \in Users
    PROVE  [reviews EXCEPT ![ActiveIndex] =
              ApproveTier(@, CurrentTier(ActiveReview), u)] \in Seq(Review)
  <1> DEFINE q == ApproveTier(ActiveReview, CurrentTier(ActiveReview), u)
  <1>1. ActiveReview \in Review /\ ActiveReview = reviews[ActiveIndex]
    BY ActiveReviewTyped
  <1>2. q \in Review
    BY <1>1, CurrentTierFirst, ApproveTierTyped
  <1>3. [reviews EXCEPT ![ActiveIndex] = q] \in Seq(Review)
    BY <1>2, ReplaceTyped DEF TypeOK
  <1> QED
    BY <1>1, <1>3

\* action_approve keeps the types.
LEMMA ApproveTyped ==
    ASSUME TypeOK, NEW u \in Users, Approve(u)
    PROVE  TypeOK'
  <1> DEFINE rs == [reviews EXCEPT ![ActiveIndex] =
                      ApproveTier(@, CurrentTier(ActiveReview), u)]
  <1>1. /\ PendingReviews # {}
        /\ IsMultitier(ActiveReview) => PendingTiers(ActiveReview) # {}
        /\ UNCHANGED <<submittedBy, rejectors, active, frozen>>
    BY DEF Approve, CanDecide
  <1>2. CASE ~IsMultitier(ActiveReview)
    BY <1>1, <1>2, DoApproveTyped DEF Approve, TypeOK
  <1>3. CASE IsMultitier(ActiveReview)
    <2>1. rs \in Seq(Review)
      BY <1>1, <1>3, TierStepTyped
    <2>2. DoApprove(rs, "approvers") \/ (reviews' = rs /\ UNCHANGED <<state, version, via>>)
      BY <1>3 DEF Approve
    <2> HIDE DEF rs
    <2> QED
      BY <1>1, <2>1, <2>2, DoApproveTyped DEF TypeOK
  <1> QED
    BY <1>2, <1>3

\* The rejection wizard keeps the types.
LEMMA ConfirmRejectionTyped ==
    ASSUME TypeOK, NEW u \in Users, ConfirmRejection(u)
    PROVE  TypeOK'
  <1>1. reviews' \in Seq(Review)
    <2>1. CASE PendingReviews # {} /\ IsMultitier(ActiveReview)
      <3> DEFINE q == RejectTier(ActiveReview, CurrentTier(ActiveReview))
      <3>1. ActiveReview \in Review /\ ActiveReview = reviews[ActiveIndex]
        BY <2>1, ActiveReviewTyped
      <3>2. q \in Review
        BY <3>1, RejectTierTyped
      <3>3. reviews' = [reviews EXCEPT ![ActiveIndex] = q]
        BY <2>1, <3>1 DEF ConfirmRejection
      <3> QED
        BY <3>2, <3>3, ReplaceTyped DEF TypeOK
    <2>2. CASE ~(PendingReviews # {} /\ IsMultitier(ActiveReview))
      BY <2>2 DEF ConfirmRejection, TypeOK
    <2> QED
      BY <2>1, <2>2
  <1> QED
    BY <1>1 DEF ConfirmRejection, TypeOK, ApprovalStates

\* The decisions of a tier review called alone keep the types.
LEMMA TierAloneTyped ==
    ASSUME TypeOK, NEW u \in Users, ApproveTierAlone(u) \/ RejectTierAlone(u)
    PROVE  TypeOK'
  <1>1. reviews \in Seq(Review) /\ \A i \in DOMAIN reviews : reviews[i] \in Review
    BY DEF TypeOK
  <1>2. CASE ApproveTierAlone(u)
    <2>1. PICK i \in DOMAIN reviews : \E t \in PendingTiers(reviews[i]) :
             reviews' = [reviews EXCEPT ![i] = ApproveTier(@, t, u)]
      BY <1>2 DEF ApproveTierAlone
    <2>2. PICK t \in PendingTiers(reviews[i]) :
             reviews' = [reviews EXCEPT ![i] = ApproveTier(reviews[i], t, u)]
      BY <2>1
    <2>3. ApproveTier(reviews[i], t, u) \in Review
      BY <1>1, ApproveTierTyped
    <2>4. reviews' \in Seq(Review)
      BY <1>1, <2>2, <2>3, ReplaceTyped
    <2> QED
      BY <1>2, <2>4 DEF ApproveTierAlone, TypeOK
  <1>3. CASE RejectTierAlone(u)
    <2>1. PICK i \in DOMAIN reviews : \E t \in PendingTiers(reviews[i]) :
             reviews' = [reviews EXCEPT ![i] = RejectTier(@, t)]
      BY <1>3 DEF RejectTierAlone
    <2>2. PICK t \in PendingTiers(reviews[i]) :
             reviews' = [reviews EXCEPT ![i] = RejectTier(reviews[i], t)]
      BY <2>1
    <2>3. RejectTier(reviews[i], t) \in Review
      BY <1>1, RejectTierTyped
    <2>4. reviews' \in Seq(Review)
      BY <1>1, <2>2, <2>3, ReplaceTyped
    <2> QED
      BY <1>3, <2>4 DEF RejectTierAlone, TypeOK
  <1> QED
    BY <1>2, <1>3

\* The variables keep their types, whether tier reviews are decided through the
\* record or alone.
THEOREM TypeCorrect == Spec => []TypeOK
  <1>1. Init => TypeOK
    BY InitIInv DEF IInv
  <1>2. ASSUME TypeOK, [Next]_vars PROVE TypeOK'
    <2>1. ASSUME NEW u \in Users, NEW d \in Definitions, Submit(u, d) PROVE TypeOK'
      BY <1>2, <2>1, SubmitTyped
    <2>2. ASSUME NEW u \in Users, Approve(u) PROVE TypeOK'
      BY <1>2, <2>2, ApproveTyped
    <2>3. ASSUME NEW u \in Users, ApproveBatch(u) \/ ApproveSystem PROVE TypeOK'
      BY <1>2, <2>3, DoApproveTyped DEF ApproveBatch, ApproveSystem, TypeOK
    <2>4. ASSUME NEW u \in Users, OpenRejection(u) \/ ToggleUser(u) PROVE TypeOK'
      BY <1>2, <2>4 DEF OpenRejection, ToggleUser, TypeOK
    <2>5. ASSUME NEW u \in Users, ConfirmRejection(u) PROVE TypeOK'
      BY <1>2, <2>5, ConfirmRejectionTyped
    <2>6. ASSUME NEW u \in Users, RequestRevision(u) PROVE TypeOK'
      <3>1. ClosePending(reviews, "rejected") \in Seq(Review)
        BY <1>2, ClosePendingTyped DEF TypeOK
      <3> QED
        BY <1>2, <2>6, <3>1 DEF RequestRevision, TypeOK, ApprovalStates
    <2>7. ASSUME NEW u \in Users, ApproveTierAlone(u) \/ RejectTierAlone(u) PROVE TypeOK'
      BY <1>2, <2>7, TierAloneTyped
    <2>8. CASE ApproveSystem
      BY <1>2, <2>8, DoApproveTyped DEF ApproveSystem, TypeOK
    <2>9. CASE ResetToDraft \/ ToggleFreeze \/ UNCHANGED vars
      BY <1>2, <2>9 DEF ResetToDraft, ToggleFreeze, vars, TypeOK, ApprovalStates
    <2> QED
      BY <1>2, <2>1, <2>2, <2>3, <2>4, <2>5, <2>6, <2>7, <2>8, <2>9 DEF Next
  <1> QED
    BY <1>1, <1>2, PTL DEF Spec

-----------------------------------------------------------------------------
(* What holds of tier reviews decided without their record *)

\* The designated approvers of no tier depend on who submits.
FixedApprovers ==
    \A t \in Tiers : \A u, v \in Users \cup {NoUser} :
        Tier[t].approvers[u] = Tier[t].approvers[v]

\* Replacing one review leaves the others alone.
LEMMA ReplaceOne ==
    ASSUME NEW rs \in Seq(Review), NEW i \in DOMAIN rs, NEW q \in Review
    PROVE  LET new == [rs EXCEPT ![i] = q]
           IN  /\ new \in Seq(Review)
               /\ Len(new) = Len(rs)
               /\ DOMAIN new = DOMAIN rs
               /\ new[i] = q
               /\ \A j \in DOMAIN rs : j # i => new[j] = rs[j]
  OBVIOUS

\* The more users a tier may do without, the easier its quorum.
LEMMA QuorateGrows ==
    ASSUME NEW r, NEW S, NEW T, S \subseteq T, Quorate(r, S)
    PROVE  Quorate(r, T)
  BY DEF Quorate, Required

\* Activating the next tiers needs no more approvals of any tier.
LEMMA ActivateNextQuorate ==
    ASSUME NEW S, NEW d \in Definitions, NEW r \in ReviewOf(d), Quorate(r, S)
    PROVE  /\ Quorate(ActivateNext(r), S)
           /\ ActivateNext(r).requestedBy = r.requestedBy
  <1> DEFINE q == ActivateNext(r)
  <1>1. /\ q.requestedBy = r.requestedBy
        /\ DOMAIN q.tiers = TiersOf(d)
        /\ DOMAIN r.tiers = TiersOf(d)
    BY ActivateNextShape
  <1>2. \A t \in TiersOf(d) :
           /\ q.tiers[t].approvedBy = r.tiers[t].approvedBy
           /\ q.tiers[t].status = IF t \in NextTiers(r) THEN "pending"
                                  ELSE r.tiers[t].status
    BY ActivateNextShape
  <1> HIDE DEF q
  <1>3. Quorate(q, S)
    BY <1>1, <1>2 DEF Quorate
  <1> QED
    BY <1>1, <1>3 DEF q

\* The approval of a tier by one of its approvers, when whom it requires may
\* approve it: it belongs to the same user and no tier completed early.
LEMMA ApproveTierQuorate ==
    ASSUME NEW S, NEW r \in Review, NEW t \in PendingTiers(r), NEW u \in Users,
           u \in Tier[t].approvers[r.requestedBy], Quorate(r, S),
           Required(t, r.requestedBy, S) \subseteq TierApprovers(t)
    PROVE  /\ Quorate(ApproveTier(r, t, u), S)
           /\ ApproveTier(r, t, u).requestedBy = r.requestedBy
  <1> DEFINE d == r.definition
             by == r.tiers[t].approvedBy \cup {u}
             done == TierComplete(t, by)
             now == [status |-> IF done THEN "approved" ELSE "pending", approvedBy |-> by]
             marked == [r EXCEPT !.tiers[t] = now]
  <1>1. d \in Definitions /\ r \in ReviewOf(d)
    BY ReviewShape
  <1>2. r.tiers \in [TiersOf(d) -> TierReview] /\ t \in TiersOf(d)
    BY <1>1, ReviewShape DEF ReviewOf, PendingTiers
  <1>3. now \in TierReview
    BY <1>2 DEF TierReview, TierStatuses
  <1>4. [r.tiers EXCEPT ![t] = now] \in [TiersOf(d) -> TierReview]
    BY <1>2, <1>3
  <1>5. /\ now.approvedBy = by
        /\ now.status = "approved" => done
    OBVIOUS
  <1>6. by \subseteq Tier[t].approvers[r.requestedBy]
    BY <1>2 DEF Quorate
  <1>7. done => IF Tier[t].requireAll THEN Required(t, r.requestedBy, S) \subseteq by
                ELSE Cardinality(by) >= Tier[t].minApprovers
    BY DEF TierComplete
  <1>8. ApproveTier(r, t, u) = IF done THEN ActivateNext(marked) ELSE marked
    BY DEF ApproveTier
  <1> HIDE DEF now, d, by, done
  <1>9. /\ marked \in ReviewOf(d)
        /\ marked.requestedBy = r.requestedBy
        /\ marked.tiers = [r.tiers EXCEPT ![t] = now]
    BY <1>1, <1>4 DEF ReviewOf
  <1> HIDE DEF marked
  <1>10. DOMAIN marked.tiers = TiersOf(d) /\ DOMAIN r.tiers = TiersOf(d)
    BY <1>2, <1>4, <1>9
  <1>11. marked.tiers[t] = now /\ \A s \in TiersOf(d) : s # t => marked.tiers[s] = r.tiers[s]
    BY <1>2, <1>9
  <1>12. ASSUME NEW s \in TiersOf(d)
         PROVE  /\ marked.tiers[s].approvedBy \subseteq Tier[s].approvers[r.requestedBy]
                /\ marked.tiers[s].status = "approved" =>
                      IF Tier[s].requireAll
                      THEN Required(s, r.requestedBy, S) \subseteq marked.tiers[s].approvedBy
                      ELSE Cardinality(marked.tiers[s].approvedBy) >= Tier[s].minApprovers
    <2>1. CASE s = t
      BY <1>5, <1>6, <1>7, <1>11, <2>1
    <2>2. CASE s # t
      BY <1>10, <1>11, <2>2 DEF Quorate
    <2> QED
      BY <2>1, <2>2
  <1>13. Quorate(marked, S)
    BY <1>9, <1>10, <1>12 DEF Quorate
  <1> QED
    BY <1>1, <1>8, <1>9, <1>13, ActivateNextQuorate

\* Rejecting a tier completes none.
LEMMA RejectTierQuorate ==
    ASSUME NEW S, NEW r \in Review, NEW t, Quorate(r, S)
    PROVE  /\ Quorate(RejectTier(r, t), S)
           /\ RejectTier(r, t).requestedBy = r.requestedBy
  <1> DEFINE d == r.definition
             q == RejectTier(r, t)
  <1>1. d \in Definitions /\ r \in ReviewOf(d)
    BY ReviewShape
  <1>2. DOMAIN r.tiers = TiersOf(d) /\ r.tiers \in [TiersOf(d) -> TierReview]
    BY <1>1 DEF ReviewOf
  <1> HIDE DEF d
  <1>3. /\ q.requestedBy = r.requestedBy
        /\ DOMAIN q.tiers = TiersOf(d)
        /\ \A s \in TiersOf(d) :
              /\ q.tiers[s].approvedBy = r.tiers[s].approvedBy
              /\ q.tiers[s].status \in {r.tiers[s].status, "rejected", "skipped"}
    BY <1>1, <1>2 DEF RejectTier, ReviewOf, TierReview
  <1> HIDE DEF q
  <1>4. Quorate(q, S)
    BY <1>2, <1>3 DEF Quorate
  <1> QED
    BY <1>3, <1>4 DEF q

\* The reviews rs are the present ones a step later: they belong to the same users
\* and no tier completed early.
Follows(rs) ==
    /\ rs \in Seq(Review)
    /\ DOMAIN rs = DOMAIN reviews
    /\ \A i \in DOMAIN reviews :
          /\ rs[i].requestedBy = reviews[i].requestedBy
          /\ Quorate(rs[i], Submitters)

\* What holds of tier reviews decided alone: the record's submitter asked for one
\* of its reviews, and completed tiers have their quorum.
AloneInv == submittedBy \in Submitters \cup {NoUser} /\ TiersAloneHaveQuorum

LEMMA FollowsKeeps ==
    ASSUME NEW rs, Follows(rs), reviews' = rs, AloneInv, UNCHANGED submittedBy
    PROVE  AloneInv'
  <1>1. Submitters' = Submitters
    BY DEF Submitters, Follows
  <1> QED
    BY <1>1 DEF AloneInv, TiersAloneHaveQuorum, Follows

\* Closing the pending reviews leaves who they belong to and their tiers alone.
LEMMA FollowsClosed ==
    ASSUME NEW rs, Follows(rs), NEW st \in {"approved", "rejected"}
    PROVE  Follows(ClosePending(rs, st))
  <1> DEFINE q == ClosePending(rs, st)
  <1>1. rs \in Seq(Review) /\ DOMAIN rs = DOMAIN reviews
    BY DEF Follows
  <1>2. q \in Seq(Review) /\ DOMAIN q = DOMAIN rs
    BY <1>1, ClosePendingTyped
  <1>3. ASSUME NEW i \in DOMAIN rs
        PROVE  /\ q[i].tiers = rs[i].tiers
               /\ q[i].requestedBy = rs[i].requestedBy
    <2>1. rs[i] \in ReviewOf(rs[i].definition)
      BY <1>1, ReviewShape
    <2> QED
      BY <2>1 DEF ClosePending, ReviewOf
  <1> HIDE DEF q
  <1>4. ASSUME NEW i \in DOMAIN reviews
        PROVE  q[i].requestedBy = reviews[i].requestedBy /\ Quorate(q[i], Submitters)
    <2>1. rs[i].requestedBy = reviews[i].requestedBy /\ Quorate(rs[i], Submitters)
      BY DEF Follows
    <2> QED
      BY <1>1, <1>3, <2>1 DEF Quorate
  <1>5. Follows(q)
    BY <1>1, <1>2, <1>4 DEF Follows
  <1> QED
    BY <1>5 DEF q

\* So does a decision of one tier.
LEMMA FollowsReplaced ==
    ASSUME Follows(reviews), NEW i \in DOMAIN reviews, NEW q \in Review,
           q.requestedBy = reviews[i].requestedBy, Quorate(q, Submitters)
    PROVE  Follows([reviews EXCEPT ![i] = q])
  <1>1. reviews \in Seq(Review)
    BY DEF Follows
  <1>2. /\ [reviews EXCEPT ![i] = q] \in Seq(Review)
        /\ DOMAIN [reviews EXCEPT ![i] = q] = DOMAIN reviews
    BY <1>1, ReplaceOne
  <1> QED
    BY <1>2 DEF Follows

\* Where the approvers of no tier depend on the submitter, an approver of a tier
\* is designated for the review, and whom the review requires may approve.
LEMMA ApproversForAll ==
    ASSUME FixedApprovers, TypeOK, submittedBy \in Submitters \cup {NoUser},
           NEW r \in Review, NEW t \in PendingTiers(r)
    PROVE  /\ TierApprovers(t) \subseteq Users
           /\ TierApprovers(t) \subseteq Tier[t].approvers[r.requestedBy]
           /\ Required(t, r.requestedBy, Submitters) \subseteq TierApprovers(t)
  <1>1. t \in Tiers
    BY ReviewShape DEF PendingTiers, TiersOf
  <1>2. r.requestedBy \in Users
    BY ReviewShape DEF ReviewOf
  <1>3. Tier[t].approvers[r.requestedBy] = Tier[t].approvers[submittedBy]
    BY <1>1, <1>2 DEF FixedApprovers, TypeOK
  <1>4. Tier[t].approvers[r.requestedBy] \subseteq Users /\ NoUser \notin Users
    BY <1>1, <1>2, DesignatedAreUsers, ConfigAssumption
  <1>5. Users \ Leavers \subseteq active /\ active \subseteq Users
    BY DEF TypeOK
  <1> QED
    BY <1>3, <1>4, <1>5 DEF TierApprovers, Required

\* Every handler keeps the quorum, those of tier reviews called alone included.
LEMMA QuorumNext ==
    ASSUME FixedApprovers, TypeOK, AloneInv, [Next]_vars
    PROVE  AloneInv'
  <1>1. /\ Follows(reviews)
        /\ \A i \in DOMAIN reviews : reviews[i] \in Review /\ Quorate(reviews[i], Submitters)
        /\ submittedBy \in Submitters \cup {NoUser}
    BY DEF TypeOK, AloneInv, TiersAloneHaveQuorum, Follows
  <1>2. ASSUME NEW i \in DOMAIN reviews, NEW t \in PendingTiers(reviews[i]),
               NEW u \in TierApprovers(t)
        PROVE  Follows([reviews EXCEPT ![i] = ApproveTier(reviews[i], t, u)])
    <2>1. /\ u \in Users
          /\ u \in Tier[t].approvers[reviews[i].requestedBy]
          /\ Required(t, reviews[i].requestedBy, Submitters) \subseteq TierApprovers(t)
      BY <1>1, ApproversForAll
    <2>2. ApproveTier(reviews[i], t, u) \in Review
      BY <1>1, <2>1, ApproveTierTyped
    <2>3. /\ Quorate(ApproveTier(reviews[i], t, u), Submitters)
          /\ ApproveTier(reviews[i], t, u).requestedBy = reviews[i].requestedBy
      BY <1>1, <2>1, ApproveTierQuorate
    <2> QED
      BY <1>1, <2>2, <2>3, FollowsReplaced
  <1>3. ASSUME NEW i \in DOMAIN reviews, NEW t
        PROVE  Follows([reviews EXCEPT ![i] = RejectTier(reviews[i], t)])
    BY <1>1, RejectTierTyped, RejectTierQuorate, FollowsReplaced
  <1>4. ASSUME NEW rs, Follows(rs), NEW how, DoApprove(rs, how), UNCHANGED submittedBy
        PROVE  AloneInv'
    <2>1. reviews' = ClosePending(rs, "approved")
      BY <1>4 DEF DoApprove
    <2>2. Follows(ClosePending(rs, "approved"))
      BY <1>4, FollowsClosed
    <2> QED
      BY <1>4, <2>1, <2>2, FollowsKeeps
  <1>5. ASSUME NEW u \in Users, NEW d \in Definitions, Submit(u, d)
        PROVE  AloneInv'
    <2>1. CASE DoApprove(reviews, "system") /\ UNCHANGED submittedBy
      BY <1>1, <1>4, <2>1
    <2>2. CASE reviews' = Append(reviews, NewReview(u, d)) /\ submittedBy' = u
      <3> DEFINE q == NewReview(u, d)
      <3>1. q \in Review /\ q.requestedBy = u /\ Quorate(q, {q.requestedBy})
        BY NewReviewOK, ReviewIntro DEF ReviewOK
      <3> HIDE DEF q
      <3>2. reviews' = Append(reviews, q) /\ reviews \in Seq(Review)
        BY <1>1, <2>2 DEF q, Follows
      <3>3. /\ DOMAIN reviews \subseteq DOMAIN reviews'
            /\ Len(reviews) + 1 \in DOMAIN reviews'
            /\ reviews'[Len(reviews) + 1] = q
            /\ \A i \in DOMAIN reviews' : i \in DOMAIN reviews \/ i = Len(reviews) + 1
            /\ \A i \in DOMAIN reviews : reviews'[i] = reviews[i]
        BY <3>2
      <3>4. Submitters \subseteq Submitters' /\ u \in Submitters'
        BY <3>1, <3>3 DEF Submitters
      <3>5. ASSUME NEW i \in DOMAIN reviews' PROVE Quorate(reviews'[i], Submitters')
        <4>1. CASE i \in DOMAIN reviews
          BY <1>1, <3>3, <3>4, <4>1, QuorateGrows
        <4>2. CASE i = Len(reviews) + 1
          <5>1. reviews'[i] = q /\ {q.requestedBy} \subseteq Submitters'
            BY <3>1, <3>3, <3>4, <4>2
          <5> QED
            BY <3>1, <5>1, QuorateGrows
        <4> QED
          BY <3>3, <4>1, <4>2
      <3> QED
        BY <2>2, <3>4, <3>5 DEF AloneInv, TiersAloneHaveQuorum
    <2> QED
      BY <1>5, <2>1, <2>2 DEF Submit
  <1>6. ASSUME NEW u \in Users, Approve(u) PROVE AloneInv'
    <2>0. UNCHANGED submittedBy
      BY <1>6 DEF Approve
    <2>1. CASE IsMultitier(ActiveReview)
      <3> DEFINE t == CurrentTier(ActiveReview)
                 rs == [reviews EXCEPT ![ActiveIndex] = ApproveTier(reviews[ActiveIndex], t, u)]
      <3>1. /\ PendingReviews # {}
            /\ PendingTiers(ActiveReview) # {}
            /\ u \in TierApprovers(t)
        BY <1>6, <2>1 DEF Approve, CanDecide
      <3>2. /\ ActiveIndex \in DOMAIN reviews
            /\ ActiveReview \in Review
            /\ ActiveReview = reviews[ActiveIndex]
        BY <3>1, ActiveReviewTyped
      <3>3. t \in PendingTiers(reviews[ActiveIndex])
        BY <3>1, <3>2, CurrentTierFirst
      <3>4. DoApprove(rs, "approvers") \/ reviews' = rs
        BY <1>6, <2>1, <3>2 DEF Approve
      <3> HIDE DEF t
      <3>5. Follows(rs)
        BY <1>2, <3>1, <3>2, <3>3
      <3> HIDE DEF rs
      <3> QED
        BY <1>4, <2>0, <3>4, <3>5, FollowsKeeps
    <2>2. CASE ~IsMultitier(ActiveReview)
      BY <1>1, <1>4, <1>6, <2>0, <2>2 DEF Approve
    <2> QED
      BY <2>1, <2>2
  <1>7. ASSUME NEW u \in Users, ConfirmRejection(u) PROVE AloneInv'
    <2>0. UNCHANGED submittedBy
      BY <1>7 DEF ConfirmRejection
    <2>1. CASE PendingReviews # {} /\ IsMultitier(ActiveReview)
      <3>1. ActiveIndex \in DOMAIN reviews /\ ActiveReview = reviews[ActiveIndex]
        BY <2>1, ActiveReviewTyped
      <3>2. PICK t : reviews' = [reviews EXCEPT ![ActiveIndex] =
                                   RejectTier(reviews[ActiveIndex], t)]
        BY <1>7, <2>1, <3>1 DEF ConfirmRejection
      <3> QED
        BY <1>3, <2>0, <3>1, <3>2, FollowsKeeps
    <2>2. CASE ~(PendingReviews # {} /\ IsMultitier(ActiveReview))
      BY <1>1, <1>7, <2>0, <2>2, FollowsKeeps DEF ConfirmRejection
    <2> QED
      BY <2>1, <2>2
  <1>8. ASSUME NEW u \in Users, RequestRevision(u) PROVE AloneInv'
    <2>1. reviews' = ClosePending(reviews, "rejected") /\ UNCHANGED submittedBy
      BY <1>8 DEF RequestRevision
    <2>2. Follows(ClosePending(reviews, "rejected"))
      BY <1>1, FollowsClosed
    <2> QED
      BY <2>1, <2>2, FollowsKeeps
  <1>9. ASSUME NEW u \in Users, ApproveTierAlone(u) PROVE AloneInv'
    <2>1. PICK i \in DOMAIN reviews : \E t \in PendingTiers(reviews[i]) :
             /\ u \in TierApprovers(t)
             /\ reviews' = [reviews EXCEPT ![i] = ApproveTier(@, t, u)]
      BY <1>9 DEF ApproveTierAlone
    <2>2. PICK t \in PendingTiers(reviews[i]) :
             /\ u \in TierApprovers(t)
             /\ reviews' = [reviews EXCEPT ![i] = ApproveTier(reviews[i], t, u)]
      BY <2>1
    <2>3. UNCHANGED submittedBy
      BY <1>9 DEF ApproveTierAlone
    <2> QED
      BY <1>2, <2>2, <2>3, FollowsKeeps
  <1>10. ASSUME NEW u \in Users, RejectTierAlone(u) PROVE AloneInv'
    <2>1. PICK i \in DOMAIN reviews : \E t \in PendingTiers(reviews[i]) :
             reviews' = [reviews EXCEPT ![i] = RejectTier(@, t)]
      BY <1>10 DEF RejectTierAlone
    <2>2. PICK t \in PendingTiers(reviews[i]) :
             reviews' = [reviews EXCEPT ![i] = RejectTier(reviews[i], t)]
      BY <2>1
    <2>3. UNCHANGED submittedBy
      BY <1>10 DEF RejectTierAlone
    <2> QED
      BY <1>3, <2>2, <2>3, FollowsKeeps
  <1>11. ASSUME NEW u \in Users, ApproveBatch(u) PROVE AloneInv'
    BY <1>1, <1>4, <1>11 DEF ApproveBatch
  <1>12. CASE ApproveSystem
    BY <1>1, <1>4, <1>12 DEF ApproveSystem
  <1>13. ASSUME NEW u \in Users, OpenRejection(u) \/ ToggleUser(u)
         PROVE  AloneInv'
    BY <1>1, <1>13, FollowsKeeps DEF OpenRejection, ToggleUser
  <1>14. CASE ResetToDraft \/ ToggleFreeze \/ UNCHANGED vars
    BY <1>1, <1>14, FollowsKeeps DEF ResetToDraft, ToggleFreeze, vars
  <1> QED
    BY <1>5, <1>6, <1>7, <1>8, <1>9, <1>10, <1>11, <1>12, <1>13, <1>14 DEF Next

\* A tier that is approved heard from enough of its designated approvers, and a
\* require-all tier from all but those who submitted the record or whose account
\* was archived, even where tier reviews are decided without their record, in any
\* round, provided the approvers of no tier depend on the submitter: a tier review
\* left open by an earlier round is decided by those of the present submitter.
THEOREM QuorumOfTiersAlone ==
    ASSUME FixedApprovers
    PROVE  Spec => []TiersAloneHaveQuorum
  <1>1. Init => AloneInv
    BY DEF Init, AloneInv, TiersAloneHaveQuorum
  <1>2. TypeOK /\ AloneInv /\ [Next]_vars => AloneInv'
    BY QuorumNext
  <1>3. AloneInv => TiersAloneHaveQuorum
    BY DEF AloneInv
  <1> QED
    BY <1>1, <1>2, <1>3, TypeCorrect, PTL DEF Spec

\* Approving a tier may complete its review but reopens none, and moves it to no
\* other definition.
LEMMA ApproveTierStatus ==
    ASSUME NEW r \in Review, NEW t \in PendingTiers(r), NEW u \in Users
    PROVE  /\ ApproveTier(r, t, u).status \in {r.status, "approved"}
           /\ ApproveTier(r, t, u).definition = r.definition
  BY ReviewShape DEF ApproveTier, ActivateNext, ReviewOf

\* Rejecting one closes the review.
LEMMA RejectTierStatus ==
    ASSUME NEW r \in Review, NEW t
    PROVE  RejectTier(r, t) \in Review /\ RejectTier(r, t).status = "rejected"
  <1>1. RejectTier(r, t).status = "rejected"
    BY ReviewShape DEF RejectTier, ReviewOf
  <1> QED
    BY <1>1, RejectTierTyped

\* Where no multi-tier review is pending, none is orphaned.
LEMMA NoneLive ==
    ASSUME \A i \in DOMAIN reviews' : reviews'[i].status = "pending" =>
               ~IsMultitier(reviews'[i])
    PROVE  MultitierReviewIsLive'
  BY DEF MultitierReviewIsLive, PendingReviews, IsMultitier

\* A step that opens no review of a record it leaves where it is orphans none.
LEMMA StillLive ==
    ASSUME MultitierReviewIsLive, state' = state,
           NEW rs \in Seq(Review), reviews' = rs,
           Len(rs) = Len(reviews), DOMAIN rs = DOMAIN reviews,
           \A i \in DOMAIN reviews : rs[i].status = "pending" =>
               reviews[i].status = "pending" /\ rs[i].definition = reviews[i].definition
    PROVE  MultitierReviewIsLive'
  BY DEF MultitierReviewIsLive, PendingReviews, IsMultitier

\* Every handler keeps pending multi-tier reviews live, those of tier reviews
\* called alone included.
LEMMA LiveNext ==
    ASSUME TypeOK, MultitierReviewIsLive, [Next]_vars
    PROVE  MultitierReviewIsLive'
  <1>1. /\ reviews \in Seq(Review)
        /\ Len(reviews) \in Nat
        /\ \A i \in DOMAIN reviews : reviews[i] \in Review
    BY DEF TypeOK
  <1>2. ASSUME NEW rs \in Seq(Review), NEW how, DoApprove(rs, how)
        PROVE  MultitierReviewIsLive'
    <2>1. \A i \in DOMAIN reviews' : reviews'[i].status # "pending"
      BY <1>2, ClosePendingTyped DEF DoApprove
    <2> QED
      BY <2>1, NoneLive
  <1>3. ASSUME NEW i \in DOMAIN reviews, NEW q \in Review, state' = state,
               reviews' = [reviews EXCEPT ![i] = q],
               q.status = "pending" => reviews[i].status = "pending" /\
                                       q.definition = reviews[i].definition
        PROVE  MultitierReviewIsLive'
    <2> DEFINE rs == [reviews EXCEPT ![i] = q]
    <2>1. /\ rs \in Seq(Review)
          /\ Len(rs) = Len(reviews)
          /\ DOMAIN rs = DOMAIN reviews
          /\ rs[i] = q
          /\ \A j \in DOMAIN reviews : j # i => rs[j] = reviews[j]
      BY <1>1, ReplaceOne
    <2>2. reviews' = rs
      BY <1>3
    <2> HIDE DEF rs
    <2>3. \A j \in DOMAIN reviews : rs[j].status = "pending" =>
             reviews[j].status = "pending" /\ rs[j].definition = reviews[j].definition
      BY <1>3, <2>1
    <2> QED
      BY <1>3, <2>1, <2>2, <2>3, StillLive
  <1>4. ASSUME NEW i \in DOMAIN reviews, NEW t \in PendingTiers(reviews[i]), NEW u \in Users,
               state' = state,
               reviews' = [reviews EXCEPT ![i] = ApproveTier(reviews[i], t, u)]
        PROVE  MultitierReviewIsLive'
    <2> DEFINE q == ApproveTier(reviews[i], t, u)
    <2>1. q \in Review
      BY <1>1, ApproveTierTyped
    <2>2. q.status \in {reviews[i].status, "approved"} /\ q.definition = reviews[i].definition
      BY <1>1, ApproveTierStatus
    <2> HIDE DEF q
    <2> QED
      BY <1>3, <1>4, <2>1, <2>2 DEF q
  <1>5. ASSUME NEW u \in Users, NEW d \in Definitions, Submit(u, d)
        PROVE  MultitierReviewIsLive'
    <2>1. CASE DoApprove(reviews, "system")
      BY <1>1, <1>2, <2>1
    <2>2. CASE reviews' = Append(reviews, NewReview(u, d)) /\ state' = "pending"
      <3> DEFINE q == NewReview(u, d)
      <3>1. q \in Review
        BY NewReviewOK, ReviewIntro
      <3> HIDE DEF q
      <3>2. reviews' = Append(reviews, q)
        BY <2>2 DEF q
      <3>3. /\ Len(reviews') = Len(reviews) + 1
            /\ DOMAIN reviews' = DOMAIN reviews \cup {Len(reviews')}
            /\ \A i \in DOMAIN reviews : reviews'[i] = reviews[i]
        BY <1>1, <3>1, <3>2
      <3>4. state # "pending"
        BY <1>5, ConfigAssumption DEF Submit
      <3>5. \A i \in DOMAIN reviews :
               reviews[i].status = "pending" => ~IsMultitier(reviews[i])
        BY <3>4 DEF MultitierReviewIsLive, PendingReviews
      <3> QED
        BY <2>2, <3>3, <3>5 DEF MultitierReviewIsLive, PendingReviews, IsMultitier
    <2>3. CASE Def[d].autoApprove /\ u \in DefApprovers(d)
      BY <1>5, <2>1, <2>3 DEF Submit
    <2>4. CASE ~(Def[d].autoApprove /\ u \in DefApprovers(d))
      BY <1>5, <2>2, <2>4 DEF Submit
    <2> QED
      BY <2>3, <2>4
  <1>6. ASSUME NEW u \in Users, Approve(u) PROVE MultitierReviewIsLive'
    <2>1. CASE IsMultitier(ActiveReview)
      <3> DEFINE t == CurrentTier(ActiveReview)
                 q == ApproveTier(ActiveReview, t, u)
                 rs == [reviews EXCEPT ![ActiveIndex] = q]
      <3>1. PendingReviews # {} /\ PendingTiers(ActiveReview) # {}
        BY <1>6, <2>1 DEF Approve, CanDecide
      <3>2. /\ ActiveIndex \in DOMAIN reviews
            /\ ActiveReview \in Review
            /\ ActiveReview = reviews[ActiveIndex]
        BY <3>1, ActiveReviewTyped
      <3>3. t \in PendingTiers(reviews[ActiveIndex])
        BY <3>1, <3>2, CurrentTierFirst
      <3>4. DoApprove(rs, "approvers") \/ (reviews' = rs /\ state' = state)
        BY <1>6, <2>1, <3>2 DEF Approve
      <3>5. q = ApproveTier(reviews[ActiveIndex], t, u)
        BY <3>2
      <3> HIDE DEF t
      <3>6. q \in Review
        BY <3>2, <3>3, ApproveTierTyped
      <3> HIDE DEF q
      <3>7. rs \in Seq(Review)
        BY <1>1, <3>6, ReplaceTyped
      <3>8. CASE DoApprove(rs, "approvers")
        BY <1>2, <3>7, <3>8
      <3>9. CASE reviews' = rs /\ state' = state
        BY <1>4, <3>2, <3>3, <3>5, <3>9
      <3> QED
        BY <3>4, <3>8, <3>9
    <2>2. CASE ~IsMultitier(ActiveReview)
      BY <1>1, <1>2, <1>6, <2>2 DEF Approve
    <2> QED
      BY <2>1, <2>2
  <1>7. ASSUME NEW u \in Users, ConfirmRejection(u) PROVE MultitierReviewIsLive'
    <2>1. PendingReviews # {} =>
             /\ ActiveIndex \in PendingReviews
             /\ ActiveIndex \in DOMAIN reviews
             /\ ActiveReview \in Review
             /\ ActiveReview = reviews[ActiveIndex]
             /\ \A j \in PendingReviews : j <= ActiveIndex
      BY <1>1, ActiveIndexNewest, ActiveReviewTyped
    <2>2. \A i \in PendingReviews : IsMultitier(reviews[i]) =>
             i = ActiveIndex /\ IsMultitier(ActiveReview)
      BY <1>1, <2>1 DEF MultitierReviewIsLive, PendingReviews
    <2>3. CASE PendingReviews # {} /\ IsMultitier(ActiveReview)
      <3> DEFINE q == RejectTier(ActiveReview, CurrentTier(ActiveReview))
                 rs == [reviews EXCEPT ![ActiveIndex] = q]
      <3>1. reviews' = rs
        BY <1>7, <2>1, <2>3 DEF ConfirmRejection
      <3>2. q \in Review /\ q.status = "rejected"
        BY <2>1, <2>3, RejectTierStatus
      <3> HIDE DEF q
      <3>3. /\ DOMAIN rs = DOMAIN reviews
            /\ rs[ActiveIndex] = q
            /\ \A j \in DOMAIN reviews : j # ActiveIndex => rs[j] = reviews[j]
        BY <1>1, <2>1, <2>3, <3>2, ReplaceOne
      <3> HIDE DEF rs
      <3>4. \A i \in DOMAIN rs : rs[i].status = "pending" => ~IsMultitier(rs[i])
        BY <2>2, <3>2, <3>3 DEF PendingReviews
      <3> QED
        BY <3>1, <3>4, NoneLive
    <2>4. CASE ~(PendingReviews # {} /\ IsMultitier(ActiveReview))
      <3>1. reviews' = reviews
        BY <1>7, <2>4 DEF ConfirmRejection
      <3>2. \A i \in DOMAIN reviews : reviews[i].status = "pending" =>
               ~IsMultitier(reviews[i])
        BY <2>2, <2>4 DEF PendingReviews
      <3> QED
        BY <3>1, <3>2, NoneLive
    <2> QED
      BY <2>3, <2>4
  <1>8. ASSUME NEW u \in Users, RequestRevision(u) PROVE MultitierReviewIsLive'
    <2>1. \A i \in DOMAIN reviews' : reviews'[i].status # "pending"
      BY <1>1, <1>8, ClosePendingTyped DEF RequestRevision
    <2> QED
      BY <2>1, NoneLive
  <1>9. ASSUME NEW u \in Users, ApproveTierAlone(u) PROVE MultitierReviewIsLive'
    <2>1. PICK i \in DOMAIN reviews : \E t \in PendingTiers(reviews[i]) :
             reviews' = [reviews EXCEPT ![i] = ApproveTier(@, t, u)]
      BY <1>9 DEF ApproveTierAlone
    <2>2. PICK t \in PendingTiers(reviews[i]) :
             reviews' = [reviews EXCEPT ![i] = ApproveTier(reviews[i], t, u)]
      BY <2>1
    <2> QED
      BY <1>4, <1>9, <2>2 DEF ApproveTierAlone
  <1>10. ASSUME NEW u \in Users, RejectTierAlone(u) PROVE MultitierReviewIsLive'
    <2>1. PICK i \in DOMAIN reviews : \E t \in PendingTiers(reviews[i]) :
             reviews' = [reviews EXCEPT ![i] = RejectTier(@, t)]
      BY <1>10 DEF RejectTierAlone
    <2>2. PICK t \in PendingTiers(reviews[i]) :
             reviews' = [reviews EXCEPT ![i] = RejectTier(reviews[i], t)]
      BY <2>1
    <2>3. RejectTier(reviews[i], t) \in Review /\ RejectTier(reviews[i], t).status = "rejected"
      BY <1>1, RejectTierStatus
    <2> QED
      BY <1>3, <1>10, <2>2, <2>3 DEF RejectTierAlone
  <1>11. ASSUME NEW u \in Users, ApproveBatch(u) \/ ApproveSystem
         PROVE  MultitierReviewIsLive'
    BY <1>1, <1>2, <1>11 DEF ApproveBatch, ApproveSystem
  <1>12. CASE ApproveSystem
    BY <1>1, <1>2, <1>12 DEF ApproveSystem
  <1>13. ASSUME NEW u \in Users, OpenRejection(u) \/ ToggleUser(u)
         PROVE  MultitierReviewIsLive'
    BY <1>1, <1>13, StillLive DEF OpenRejection, ToggleUser
  <1>14. CASE ToggleFreeze \/ UNCHANGED vars
    BY <1>1, <1>14, StillLive DEF ToggleFreeze, vars
  <1>15. CASE ResetToDraft
    <2>1. \A i \in DOMAIN reviews : reviews[i].status = "pending" => ~IsMultitier(reviews[i])
      BY <1>15 DEF ResetToDraft, MultitierReviewIsLive, PendingReviews
    <2> QED
      BY <1>15, <2>1, NoneLive DEF ResetToDraft
  <1> QED
    BY <1>5, <1>6, <1>7, <1>8, <1>9, <1>10, <1>11, <1>12, <1>13, <1>14, <1>15 DEF Next

-----------------------------------------------------------------------------
(* What follows from it *)

\* A record approved through action_approve passed every blocking tier of its
\* last submission.
THEOREM ApprovalIsComplete == ASSUME ~DirectTierCalls PROVE Spec => []FullyApproved
  <1>1. IInv => FullyApproved
    BY DEF IInv
  <1> QED
    BY <1>1, Invariance, PTL

\* get_approvers never lets the requester of a review approve a tier of it that
\* forbids self-approval.
THEOREM RequesterDoesNotApprove == ASSUME ~DirectTierCalls PROVE Spec => []NoSelfApproval
  <1>1. IInv => NoSelfApproval
    BY DEF IInv, NoSelfApproval, ReviewOK
  <1> QED
    BY <1>1, Invariance, PTL

\* Decided through its record, no tier hears an approval while an earlier blocking
\* tier is open.
THEOREM TierOrder == ASSUME ~DirectTierCalls PROVE Spec => []TiersInOrder
  <1>1. IInv => TiersInOrder
    BY DEF IInv, TiersInOrder, BehindBlocking, ReviewOK, InSequence
  <1> QED
    BY <1>1, Invariance, PTL

\* A tier approved through its record heard from enough of the users designated
\* for the requester, and a require-all tier from each of them who stayed.
THEOREM TierQuorum == ASSUME ~DirectTierCalls PROVE Spec => []ApprovedTiersHaveQuorum
  <1>1. IInv => ApprovedTiersHaveQuorum
    BY DEF IInv, ApprovedTiersHaveQuorum, ReviewOK
  <1> QED
    BY <1>1, Invariance, PTL

\* No round ends and leaves its multi-tier review open, whoever decides its tiers
\* and in whatever way.
THEOREM NoOrphanReview == Spec => []MultitierReviewIsLive
  <1>1. Init => MultitierReviewIsLive
    BY DEF Init, MultitierReviewIsLive, PendingReviews
  <1>2. TypeOK /\ MultitierReviewIsLive /\ [Next]_vars => MultitierReviewIsLive'
    BY LiveNext
  <1> QED
    BY <1>1, <1>2, TypeCorrect, PTL DEF Spec

\* When every multi-tier definition has a blocking tier, a pending record has a
\* pending review, and a pending tier if that review is multi-tier.
THEOREM PendingCanBeDecided ==
    ASSUME ~DirectTierCalls,
           \A d \in Definitions : Def[d].useMultitier =>
               \E t \in TiersOf(d) : Tier[t].blocking
    PROVE  Spec => []PendingIsDecidable
  <1>1. ASSUME IInv PROVE PendingIsDecidable
    <2> SUFFICES ASSUME state = "pending"
                 PROVE  /\ PendingReviews # {}
                        /\ IsMultitier(ActiveReview) => PendingTiers(ActiveReview) # {}
      BY DEF PendingIsDecidable
    <2>1. RoundOpen /\ reviews \in Seq(Review)
      BY <1>1 DEF IInv, TypeOK
    <2>2. Len(reviews) \in DOMAIN reviews /\ LastReview \in Review
      BY <2>1 DEF RoundOpen, LastReview
    <2>3. /\ LastReview.definition \in Definitions
          /\ \A t \in TiersOf(LastReview.definition) : Def[LastReview.definition].useMultitier
      BY <2>2, ReviewShape DEF TiersOf
    <2>4. LastReview.status = "pending"
      BY <2>1, <2>3 DEF RoundOpen
    <2>5. PendingReviews # {}
      BY <2>2, <2>4 DEF PendingReviews, LastReview
    <2>6. /\ ActiveReview \in Review
          /\ ActiveReview.status = "pending"
          /\ ReviewOK(ActiveReview)
      BY <1>1, <2>5, ActiveReviewOK
    <2>7. ASSUME IsMultitier(ActiveReview) PROVE PendingTiers(ActiveReview) # {}
      <3>1. /\ ActiveReview.definition \in Definitions
            /\ DOMAIN ActiveReview.tiers = TiersOf(ActiveReview.definition)
        BY <2>6, ReviewShape
      <3>2. \E t \in DOMAIN ActiveReview.tiers : Tier[t].blocking
        BY <2>7, <3>1 DEF IsMultitier
      <3> QED
        BY <2>6, <3>2 DEF ReviewOK
    <2> QED
      BY <2>5, <2>7
  <1> QED
    BY <1>1, Invariance, PTL

\* A decided review, with its tiers, never changes again.
THEOREM DecisionsAreFinal == ASSUME ~DirectTierCalls PROVE Spec => ReviewsStayClosed
  <1> DEFINE Kept == \A i \in DOMAIN reviews :
                reviews[i].status # "pending" => reviews'[i] = reviews[i]
  <1>1. ASSUME IInv, Next PROVE Kept
    <2>1. reviews \in Seq(Review)
      BY <1>1 DEF IInv, TypeOK
    <2>2. ASSUME NEW st, reviews' = ClosePending(reviews, st) PROVE Kept
      BY <2>2 DEF ClosePending
    <2>3. ASSUME UNCHANGED reviews PROVE Kept
      BY <2>3
    <2>4. ASSUME NEW q, PendingReviews # {}, reviews' = [reviews EXCEPT ![ActiveIndex] = q]
          PROVE  Kept
      BY <1>1, <2>1, <2>4, ActiveReviewOK DEF ActiveReview
    <2>5. ASSUME NEW q, reviews' = Append(reviews, q) PROVE Kept
      BY <2>1, <2>5
    <2>6. ASSUME NEW u \in Users, NEW d \in Definitions, Submit(u, d) PROVE Kept
      BY <2>2, <2>5, <2>6 DEF Submit, DoApprove
    <2>7. ASSUME NEW u \in Users, Approve(u) PROVE Kept
      <3>1. PendingReviews # {}
        BY <2>7 DEF Approve, CanDecide
      <3>2. CASE ~IsMultitier(ActiveReview)
        BY <2>2, <2>7, <3>2 DEF Approve, DoApprove
      <3>3. CASE IsMultitier(ActiveReview)
        <4> DEFINE rs == [reviews EXCEPT ![ActiveIndex] =
                            ApproveTier(ActiveReview, CurrentTier(ActiveReview), u)]
        <4>1. reviews' = rs \/ reviews' = ClosePending(rs, "approved")
          BY <2>7, <3>3 DEF Approve, DoApprove, ActiveReview
        <4>2. \A i \in DOMAIN reviews : reviews[i].status # "pending" => rs[i] = reviews[i]
          BY <1>1, <2>1, <3>1, ActiveReviewOK DEF ActiveReview
        <4>3. DOMAIN rs = DOMAIN reviews
          OBVIOUS
        <4> HIDE DEF rs
        <4> QED
          BY <4>1, <4>2, <4>3 DEF ClosePending
      <3> QED
        BY <3>2, <3>3
    <2>8. ASSUME NEW u \in Users, ConfirmRejection(u) PROVE Kept
      BY <2>3, <2>4, <2>8 DEF ConfirmRejection
    <2>9. ASSUME NEW u \in Users,
                 ApproveBatch(u) \/ RequestRevision(u) \/ ApproveSystem PROVE Kept
      BY <2>2, <2>9 DEF ApproveBatch, RequestRevision, ApproveSystem, DoApprove
    <2>10. ASSUME NEW u \in Users,
                  ApproveTierAlone(u) \/ RejectTierAlone(u) \/ OpenRejection(u)
                    \/ ToggleUser(u)
           PROVE  Kept
      BY <2>3, <2>10 DEF ApproveTierAlone, RejectTierAlone, OpenRejection, ToggleUser
    <2>11. ASSUME ResetToDraft \/ ToggleFreeze \/ ApproveSystem PROVE Kept
      BY <2>2, <2>3, <2>11 DEF ResetToDraft, ToggleFreeze, ApproveSystem, DoApprove
    <2> HIDE DEF Kept
    <2> QED
      BY <1>1, <2>6, <2>7, <2>8, <2>9, <2>10, <2>11 DEF Next
  <1>2. IInv /\ [Next]_vars => [Kept]_vars
    BY <1>1
  <1> QED
    BY <1>2, Invariance, PTL DEF Spec, ReviewsStayClosed

\* Approval implements ApprovalLife, which the models that inherit the mixin
\* rest on; tier reviews decided without their record included.
THEOREM ImplementsLife == Spec => ApprovalLifeSpec
  <1>1. Init => state = "draft"
    BY DEF Init
  <1>2. ASSUME [Next]_vars PROVE [Life!LifeNext]_state
    <2> DEFINE Lives == [Life!LifeNext]_state
    <2>1. ASSUME NEW rs, NEW how, DoApprove(rs, how) PROVE Lives
      BY <2>1 DEF DoApprove, Life!LifeNext, Life!Approved
    <2>2. ASSUME UNCHANGED state PROVE Lives
      BY <2>2
    <2>3. ASSUME NEW u \in Users, NEW d \in Definitions, Submit(u, d) PROVE Lives
      <3>1. CASE state' = "pending"
        BY <2>3, <3>1 DEF Submit, Life!LifeNext, Life!Submitted
      <3>2. CASE state' # "pending"
        BY <2>1, <2>3, <3>2 DEF Submit
      <3> QED
        BY <3>1, <3>2
    <2>4. ASSUME NEW u \in Users, Approve(u) PROVE Lives
      BY <2>1, <2>2, <2>4 DEF Approve
    <2>5. ASSUME NEW u \in Users, ConfirmRejection(u) PROVE Lives
      BY <2>5 DEF ConfirmRejection, Life!LifeNext, Life!Rejected
    <2>6. ASSUME NEW u \in Users, RequestRevision(u) PROVE Lives
      BY <2>6 DEF RequestRevision, CanDecide, Life!LifeNext, Life!RevisionRequested
    <2>7. CASE ResetToDraft
      BY <2>7 DEF ResetToDraft, Life!LifeNext, Life!Reset
    <2>8. ASSUME NEW u \in Users, ApproveBatch(u) \/ ApproveSystem PROVE Lives
      BY <2>1, <2>8 DEF ApproveBatch, ApproveSystem
    <2>9. ASSUME NEW u \in Users,
                 OpenRejection(u) \/ ApproveTierAlone(u) \/ RejectTierAlone(u) \/ ToggleUser(u)
          PROVE  Lives
      BY <2>2, <2>9 DEF OpenRejection, ApproveTierAlone, RejectTierAlone, ToggleUser
    <2>10. CASE ApproveSystem
      BY <2>1, <2>10 DEF ApproveSystem
    <2>11. CASE ToggleFreeze \/ UNCHANGED vars
      BY <2>2, <2>11 DEF ToggleFreeze, vars
    <2> HIDE DEF Lives
    <2> QED
      BY <1>2, <2>3, <2>4, <2>5, <2>6, <2>7, <2>8, <2>9, <2>10, <2>11 DEF Next, Lives
  <1> QED
    BY <1>1, <1>2, PTL DEF Spec, ApprovalLifeSpec, Life!LifeSpec
=============================================================================
