--------------------------- MODULE CycleJobsProofs ---------------------------
(***************************************************************************)
(* Proofs about CycleJobs for every number of beneficiaries, workers,      *)
(* users and pipelines: whatever overlaps, is retried or repeated, nobody  *)
(* gets two entitlements and no entitlement is disbursed twice; the jobs   *)
(* implement the fund of module Fund; and without a restart some group is  *)
(* under way for as long as the lock is held.                              *)
(***************************************************************************)
EXTENDS CycleJobs, SumProofs, TLAPS

LEMMA Names ==
    Operations = {"eligibility", "prepare", "payments", "pending", "validate", "cancel"}
  BY DEF Operations, Channel

-----------------------------------------------------------------------------
(* Writes *)

\* The functions of a set of writes are functions of some of the beneficiaries.
LEMMA WriteSetShape ==
    ASSUME NEW w \in WriteSet
    PROVE  /\ DOMAIN w.ent \in SUBSET Beneficiaries
           /\ \A b \in DOMAIN w.ent : w.ent[b] \in EntStates
           /\ DOMAIN w.member \in SUBSET Beneficiaries
           /\ \A b \in DOMAIN w.member : w.member[b] \in MemberStates
           /\ w.granted \in SUBSET Beneficiaries
           /\ w.disbursed \in SUBSET Beneficiaries
           /\ w.paid \in SUBSET Beneficiaries
  <1>1. PICK M \in SUBSET Beneficiaries : w.member \in [M -> MemberStates]
    BY DEF WriteSet
  <1>2. PICK E \in SUBSET Beneficiaries : w.ent \in [E -> EntStates]
    BY DEF WriteSet
  <1>3. /\ w.granted \in SUBSET Beneficiaries
        /\ w.disbursed \in SUBSET Beneficiaries
        /\ w.paid \in SUBSET Beneficiaries
    BY DEF WriteSet
  <1> QED BY <1>1, <1>2, <1>3

LEMMA WriteSetIntro ==
    ASSUME NEW M \in SUBSET Beneficiaries, NEW f \in [M -> MemberStates],
           NEW E \in SUBSET Beneficiaries, NEW g \in [E -> EntStates],
           NEW A \in SUBSET Beneficiaries, NEW D \in SUBSET Beneficiaries,
           NEW P \in SUBSET Beneficiaries
    PROVE  [member |-> f, ent |-> g, granted |-> A, disbursed |-> D, paid |-> P]
              \in WriteSet
  <1>1. f \in UNION {[S -> MemberStates] : S \in SUBSET Beneficiaries}
    OBVIOUS
  <1>2. g \in UNION {[S -> EntStates] : S \in SUBSET Beneficiaries}
    OBVIOUS
  <1> QED BY <1>1, <1>2 DEF WriteSet

\* The rows of an operation, as its transaction begins.
LEMMA EligibilitySound ==
    ASSUME TypeOK, NEW S \in SUBSET Beneficiaries, NEW w \in Eligibility(S)
    PROVE  w \in WriteSet /\ Sound(ent, w)
  <1>1. PICK E \in SUBSET S :
            w = [NoWrites EXCEPT
                    !.member = [b \in S |-> IF b \in E THEN "enrolled" ELSE "not_eligible"],
                    !.ent = To("cancelled", (S \ E) \ In({"none"}))]
    BY DEF Eligibility
  <1> DEFINE f == [b \in S |-> IF b \in E THEN "enrolled" ELSE "not_eligible"]
             g == To("cancelled", (S \ E) \ In({"none"}))
  <1>2. w = [member |-> f, ent |-> g, granted |-> {}, disbursed |-> {}, paid |-> {}]
    BY <1>1 DEF NoWrites
  <1>3. f \in [S -> MemberStates]
    BY DEF MemberStates
  <1>4. g \in [(S \ E) \ In({"none"}) -> EntStates]
    BY DEF To, EntStates
  <1>5. w \in WriteSet
    BY <1>2, <1>3, <1>4, WriteSetIntro
  <1>6. Sound(ent, w)
    BY <1>2, TypeOK DEF Sound, To, In, TypeOK
  <1> QED BY <1>5, <1>6

LEMMA PreparationSound ==
    ASSUME TypeOK, NEW S \in SUBSET Beneficiaries, NEW w \in Preparation(S)
    PROVE  w \in WriteSet /\ Sound(ent, w)
  <1> DEFINE R == S \cap Enrolled \cap In({"none"})
  <1>1. w = [member |-> To("", {}), ent |-> To("draft", R), granted |-> R,
             disbursed |-> {}, paid |-> {}]
    BY DEF Preparation, NoWrites
  <1>2. To("", {}) \in [{} -> MemberStates]
    BY DEF To
  <1>3. To("draft", R) \in [R -> EntStates]
    BY DEF To, EntStates
  <1>4. w \in WriteSet
    BY <1>1, <1>2, <1>3, WriteSetIntro
  <1>5. Sound(ent, w)
    BY <1>1 DEF Sound, To, In
  <1> QED BY <1>4, <1>5

LEMMA ApprovalsSound ==
    ASSUME TypeOK, NEW S \in SUBSET Beneficiaries, NEW w \in Approvals(S)
    PROVE  w \in WriteSet /\ Sound(ent, w)
  <1>1. PICK P \in Affordable(S \cap Undecided) :
            /\ P \cap In({"draft"}) = {}
            /\ w = [NoWrites EXCEPT !.ent = To("approved", P), !.disbursed = P]
    BY DEF Approvals
  <1>2. P \subseteq S \cap Undecided
    BY DEF Affordable
  <1>3. w = [member |-> To("", {}), ent |-> To("approved", P), granted |-> {},
             disbursed |-> P, paid |-> {}]
    BY <1>1 DEF NoWrites
  <1>4. To("", {}) \in [{} -> MemberStates] /\ To("approved", P) \in [P -> EntStates]
    BY DEF To, EntStates
  <1>5. w \in WriteSet
    BY <1>2, <1>3, <1>4, WriteSetIntro
  <1>6. \A b \in P : ent[b] = "pending_validation"
    BY <1>1, <1>2 DEF Undecided, In
  <1>7. Sound(ent, w)
    BY <1>3, <1>6 DEF Sound, To
  <1> QED BY <1>5, <1>7

LEMMA WritesSound ==
    ASSUME TypeOK, NEW op \in Operations, NEW S \in SUBSET Beneficiaries,
           RowsExist(ent, op, S), NEW w \in Writes(op, S)
    PROVE  w \in WriteSet /\ Sound(ent, w)
  <1>1. CASE op = "eligibility"
    BY <1>1, EligibilitySound DEF Writes
  <1>2. CASE op = "prepare"
    BY <1>2, PreparationSound DEF Writes
  <1>3. CASE op = "validate"
    BY <1>3, ApprovalsSound DEF Writes
  <1>a. To("", {}) \in [{} -> MemberStates] /\ To("", {}) \in [{} -> EntStates]
    BY DEF To
  <1>4. CASE op = "payments"
    <2> DEFINE P == {b \in S \cap In({"approved"}) : paid[b] = 0}
    <2>1. w = [member |-> To("", {}), ent |-> To("", {}), granted |-> {},
               disbursed |-> {}, paid |-> P]
      BY <1>4 DEF Writes, Payments, NoWrites
    <2>2. w \in WriteSet
      BY <2>1, <1>a, WriteSetIntro
    <2> QED BY <2>1, <2>2 DEF Sound, To
  <1>5. CASE op = "cancel"
    <2>1. w = [member |-> To("", {}), ent |-> To("cancelled", S), granted |-> {},
               disbursed |-> {}, paid |-> {}]
      BY <1>5 DEF Writes, NoWrites
    <2>2. To("cancelled", S) \in [S -> EntStates]
      BY DEF To, EntStates
    <2>3. w \in WriteSet
      BY <2>1, <2>2, <1>a, WriteSetIntro
    <2> QED BY <1>5, <2>1, <2>3 DEF Sound, To, RowsExist
  <1>6. CASE op = "pending"
    <2>1. /\ S \subseteq In({"draft"})
          /\ w = [member |-> To("", {}), ent |-> To("pending_validation", S),
                  granted |-> {}, disbursed |-> {}, paid |-> {}]
      BY <1>6 DEF Writes, NoWrites
    <2>2. To("pending_validation", S) \in [S -> EntStates]
      BY DEF To, EntStates
    <2>3. w \in WriteSet
      BY <2>1, <2>2, <1>a, WriteSetIntro
    <2> QED BY <2>1, <2>3 DEF Sound, To, In
  <1> QED BY <1>1, <1>2, <1>3, <1>4, <1>5, <1>6, Names

\* What is sound stays sound while the entitlements that it writes do.
LEMMA SoundFrame ==
    ASSUME NEW e, NEW f, NEW w, Sound(e, w), \A b \in DOMAIN w.ent : f[b] = e[b]
    PROVE  Sound(f, w)
  BY DEF Sound

\* Two sound transactions that update no row in common write no entitlement in
\* common: the beneficiary's row tells them apart where both would create one.
LEMMA SoundApart ==
    ASSUME NEW e, NEW v \in WriteSet, NEW w \in WriteSet,
           Sound(e, v), Sound(e, w), Rows(v) \cap Rows(w) = {}
    PROVE  DOMAIN v.ent \cap DOMAIN w.ent = {}
  <1> SUFFICES ASSUME NEW b \in DOMAIN v.ent, b \in DOMAIN w.ent
               PROVE  FALSE
    OBVIOUS
  <1>1. CASE b \in v.granted
    <2>1. b \in w.granted
      BY <1>1 DEF Sound
    <2>2. <<"partner", b>> \in Rows(v) /\ <<"partner", b>> \in Rows(w)
      BY <1>1, <2>1 DEF Rows
    <2> QED BY <2>2
  <1>2. CASE b \notin v.granted
    <2>1. b \notin w.granted
      BY <1>2 DEF Sound
    <2>2. <<"entitlement", b>> \in Rows(v) /\ <<"entitlement", b>> \in Rows(w)
      BY <1>2, <2>1 DEF Rows
    <2> QED BY <2>2
  <1> QED BY <1>1, <1>2

-----------------------------------------------------------------------------
(* Steps *)

LEMMA InvalidateOK ==
    ASSUME NEW q \in [Sessions -> Transactions \cup {Idle}], NEW rows,
           NEW p, p = Invalidate(q, rows)
    PROVE  /\ p \in [Sessions -> Transactions \cup {Idle}]
           /\ \A s \in Sessions : p[s] # Idle =>
                 /\ q[s] # Idle
                 /\ p[s].op = q[s].op /\ p[s].slot = q[s].slot
                 /\ p[s].rows = q[s].rows /\ p[s].writes = q[s].writes
                 /\ ~p[s].stale => ~q[s].stale /\ Rows(q[s].writes) \cap rows = {}
  <1>1. ASSUME NEW s \in Sessions
        PROVE  /\ p[s] \in Transactions \cup {Idle}
               /\ p[s] # Idle =>
                     /\ q[s] # Idle
                     /\ p[s].op = q[s].op /\ p[s].slot = q[s].slot
                     /\ p[s].rows = q[s].rows /\ p[s].writes = q[s].writes
                     /\ ~p[s].stale => ~q[s].stale /\ Rows(q[s].writes) \cap rows = {}
    <2>1. CASE q[s] # Idle /\ Rows(q[s].writes) \cap rows # {}
      <3>1. p[s] = [q[s] EXCEPT !.stale = TRUE]
        BY <2>1 DEF Invalidate
      <3>2. q[s] \in Transactions
        BY <2>1
      <3> QED BY <2>1, <3>1, <3>2 DEF Transactions
    <2>2. CASE ~(q[s] # Idle /\ Rows(q[s].writes) \cap rows # {})
      <3>1. p[s] = q[s]
        BY <2>2 DEF Invalidate
      <3> QED BY <2>2, <3>1
    <2> QED BY <2>1, <2>2
  <1>2. p = [s \in Sessions |-> p[s]]
    BY DEF Invalidate
  <1>3. p \in [Sessions -> Transactions \cup {Idle}]
    BY <1>1, <1>2
  <1> QED BY <1>1, <1>3

\* The writes of a sound transaction keep types and counts, unmake no
\* entitlement and leave alone those that they do not name.
LEMMA ApplyOK ==
    ASSUME TypeOK, CountsMatch, NEW w \in WriteSet, Sound(ent, w), Apply(w)
    PROVE  /\ member' \in [Beneficiaries -> MemberStates]
           /\ ent' \in [Beneficiaries -> EntStates]
           /\ granted' \in [Beneficiaries -> Nat]
           /\ disbursed' \in [Beneficiaries -> Nat]
           /\ paid' \in [Beneficiaries -> Nat]
           /\ CountsMatch'
           /\ \A b \in Beneficiaries : ent[b] # "none" => ent'[b] # "none"
           /\ \A b \in Beneficiaries \ DOMAIN w.ent : ent'[b] = ent[b]
  <1> USE WriteSetShape
  <1>1. member' \in [Beneficiaries -> MemberStates]
    BY DEF Apply, Over, TypeOK
  <1>2. ent' \in [Beneficiaries -> EntStates]
    BY DEF Apply, Over, TypeOK
  <1>3. \A b \in Beneficiaries :
            /\ ent'[b] = IF b \in DOMAIN w.ent THEN w.ent[b] ELSE ent[b]
            /\ granted'[b] = granted[b] + (IF b \in w.granted THEN 1 ELSE 0)
            /\ disbursed'[b] = disbursed[b] + (IF b \in w.disbursed THEN 1 ELSE 0)
    BY DEF Apply, Over, Plus
  <1>4. /\ granted' \in [Beneficiaries -> Nat]
        /\ disbursed' \in [Beneficiaries -> Nat]
        /\ paid' \in [Beneficiaries -> Nat]
    BY DEF Apply, Plus, TypeOK
  <1>5. ASSUME NEW b \in Beneficiaries
        PROVE  /\ granted'[b] = IF ent'[b] = "none" THEN 0 ELSE 1
               /\ disbursed'[b] <= 1
               /\ ent'[b] \in {"none", "draft", "pending_validation"} => disbursed'[b] = 0
    <2>1. /\ granted[b] = IF ent[b] = "none" THEN 0 ELSE 1
          /\ disbursed[b] \in Nat /\ disbursed[b] <= 1
          /\ ent[b] \in {"none", "draft", "pending_validation"} => disbursed[b] = 0
      BY DEF CountsMatch, TypeOK
    <2>2. CASE b \notin DOMAIN w.ent
      <3>1. b \notin w.granted /\ b \notin w.disbursed
        BY <2>2 DEF Sound
      <3> QED BY <1>3, <2>1, <2>2, <3>1
    <2>3. CASE b \in DOMAIN w.ent
      <3>1. /\ w.ent[b] # "none"
            /\ ent[b] = "none" <=> b \in w.granted
            /\ w.ent[b] = "draft" <=> b \in w.granted
            /\ w.ent[b] = "pending_validation" => ent[b] = "draft"
            /\ b \in w.disbursed => w.ent[b] = "approved" /\ ent[b] = "pending_validation"
        BY <2>3 DEF Sound
      <3>2. CASE b \in w.disbursed
        BY <1>3, <2>1, <2>3, <3>1, <3>2
      <3>3. CASE b \notin w.disbursed
        <4>1. disbursed'[b] = disbursed[b] /\ ent'[b] = w.ent[b]
          BY <1>3, <2>1, <2>3, <3>3
        <4>2. granted'[b] = 1
          BY <1>3, <2>1, <3>1
        <4> QED BY <2>1, <3>1, <4>1, <4>2
      <3> QED BY <3>2, <3>3
    <2> QED BY <2>2, <2>3
  <1>6. CountsMatch'
    BY <1>5 DEF CountsMatch
  <1>7. \A b \in Beneficiaries : ent[b] # "none" => ent'[b] # "none"
    BY <1>3 DEF Sound
  <1> QED BY <1>1, <1>2, <1>3, <1>4, <1>6, <1>7

\* A step that begins no transaction: what is left of them is as sound as
\* before if none that is not stale writes an entitlement that changed.
LEMMA JobsFrame ==
    ASSUME JobsInv, TypeOK',
           \A b \in Beneficiaries : ent[b] # "none" => ent'[b] # "none",
           \A s \in Sessions : tx'[s] # Idle =>
              /\ tx[s] # Idle
              /\ tx'[s].op = tx[s].op /\ tx'[s].slot = tx[s].slot
              /\ tx'[s].rows = tx[s].rows /\ tx'[s].writes = tx[s].writes
              /\ ~tx'[s].stale =>
                    /\ ~tx[s].stale
                    /\ \A b \in DOMAIN tx[s].writes.ent : ent'[b] = ent[b]
              /\ tx[s].slot # 0 => pipelines'[tx[s].slot].op = pipelines[tx[s].slot].op,
           \A i \in Slots : \A S \in pipelines'[i].todo : RowsExist(ent, pipelines'[i].op, S)
    PROVE  JobsSound'
  <1>1. ASSUME NEW s \in Sessions, tx'[s] # Idle
        PROVE  /\ ~tx'[s].stale => Sound(ent', tx'[s].writes)
               /\ tx'[s].slot # 0 => pipelines'[tx'[s].slot].op = tx'[s].op
               /\ RowsExist(ent', tx'[s].op, tx'[s].rows)
    <2>1. /\ tx[s] # Idle
          /\ tx'[s].op = tx[s].op /\ tx'[s].slot = tx[s].slot
          /\ tx'[s].rows = tx[s].rows /\ tx'[s].writes = tx[s].writes
      BY <1>1
    <2>2. /\ ~tx[s].stale => Sound(ent, tx[s].writes)
          /\ tx[s].slot # 0 => pipelines[tx[s].slot].op = tx[s].op
          /\ RowsExist(ent, tx[s].op, tx[s].rows)
      BY <2>1 DEF JobsInv, JobsSound
    <2>3. tx[s].rows \subseteq Beneficiaries
      BY <2>1 DEF JobsInv, TypeOK, Transactions
    <2>4. RowsExist(ent', tx'[s].op, tx'[s].rows)
      BY <2>1, <2>2, <2>3 DEF RowsExist
    <2>5. ASSUME ~tx'[s].stale
          PROVE  Sound(ent', tx'[s].writes)
      BY <1>1, <2>1, <2>2, <2>5, SoundFrame
    <2> QED BY <1>1, <2>1, <2>2, <2>4, <2>5
  <1>2. ASSUME NEW i \in Slots, NEW S \in pipelines'[i].todo
        PROVE  RowsExist(ent', pipelines'[i].op, S)
    <2>1. S \subseteq Beneficiaries
      BY <1>2 DEF TypeOK, Pipeline, Free
    <2> QED BY <1>2, <2>1 DEF RowsExist
  <1> QED BY <1>1, <1>2 DEF JobsSound

\* The entry points that queue jobs.
LEMMA EnqueueOK ==
    ASSUME JobsInv, NEW op \in Operations, NEW jobs \in SUBSET SUBSET Beneficiaries,
           \A S \in jobs : RowsExist(ent, op, S),
           Enqueue(op, jobs) \/ UNCHANGED <<pipelines, locked>>,
           UNCHANGED <<data, tx>>,
           cycle' \in {"draft", "to_approve", "approved", "cancelled"},
           reviewed' \in BOOLEAN
    PROVE  JobsInv'
  <1> USE DEF JobsInv
  <1>1. CASE pipelines' = pipelines
    <2>1. TypeOK'
      BY <1>1 DEF TypeOK, data, Enqueue
    <2>2. CountsMatch' /\ JobsSound'
      BY <1>1 DEF data, CountsMatch, JobsSound
    <2> QED BY <2>1, <2>2
  <1>2. ASSUME NEW i \in FreeSlots, NEW new \in SUBSET jobs,
               pipelines' = [pipelines EXCEPT ![i] =
                               [op |-> op, todo |-> new, failed |-> FALSE]]
        PROVE  JobsInv'
    <2>1. i \in Slots /\ pipelines[i] = Free
      BY DEF FreeSlots
    <2>2. [op |-> op, todo |-> new, failed |-> FALSE] \in Pipeline
      BY DEF Pipeline
    <2>3. pipelines' \in [Slots -> Pipeline \cup {Free}]
      BY <1>2, <2>2 DEF TypeOK
    <2>4. TypeOK'
      BY <2>3 DEF TypeOK, data, Enqueue
    <2>5. CountsMatch'
      BY DEF CountsMatch, data
    <2>6. ASSUME NEW s \in Sessions, tx[s] # Idle, tx[s].slot # 0
          PROVE  pipelines'[tx[s].slot].op = pipelines[tx[s].slot].op
      <3>1. tx[s].op \in Operations /\ tx[s].slot \in Slots
        BY <2>6 DEF TypeOK, Transactions
      <3>2. pipelines[tx[s].slot].op = tx[s].op
        BY <2>6 DEF JobsSound
      <3>3. tx[s].slot # i
        BY <2>1, <3>1, <3>2, Names DEF Free
      <3> QED BY <1>2, <3>1, <3>3 DEF TypeOK
    <2>7. ASSUME NEW k \in Slots, NEW S \in pipelines'[k].todo
          PROVE  RowsExist(ent, pipelines'[k].op, S)
      <3>1. CASE k = i
        BY <1>2, <2>1, <2>7, <3>1 DEF TypeOK
      <3>2. CASE k # i
        <4>1. pipelines'[k] = pipelines[k]
          BY <1>2, <3>2 DEF TypeOK
        <4> QED BY <2>7, <4>1 DEF JobsSound
      <3> QED BY <3>1, <3>2
    <2>8. ent' = ent /\ tx' = tx
      BY DEF data
    <2>9. JobsSound'
      BY <2>4, <2>6, <2>7, <2>8, JobsFrame
    <2> QED BY <2>4, <2>5, <2>9
  <1>3. Fresh(op, jobs) \in SUBSET jobs
    BY DEF Fresh
  <1> QED BY <1>1, <1>2, <1>3 DEF Enqueue

\* Handlers that write the cycle's row and the entitlements of S, none of them
\* disbursed, and beat the transactions that update these.
LEMMA RewriteOK ==
    ASSUME JobsInv, NEW to \in {"draft", "cancelled"}, NEW S \in SUBSET Beneficiaries,
           \A b \in S : ent[b] # "none" /\ disbursed[b] = 0,
           ent' = Over(ent, To(to, S)),
           tx' = Invalidate(tx, {"entitlement"} \X S),
           cycle' \in {"draft", "to_approve", "approved", "cancelled"},
           UNCHANGED <<reviewed, locked, member, granted, disbursed, paid, pipelines>>
    PROVE  JobsInv'
  <1> USE DEF JobsInv
  <1>1. \A b \in Beneficiaries : ent'[b] = IF b \in S THEN to ELSE ent[b]
    BY DEF Over, To
  <1>2. ent' \in [Beneficiaries -> EntStates]
    BY DEF Over, To, TypeOK, EntStates
  <1>3. tx \in [Sessions -> Transactions \cup {Idle}]
    BY DEF TypeOK
  <1>4. /\ tx' \in [Sessions -> Transactions \cup {Idle}]
        /\ \A s \in Sessions : tx'[s] # Idle =>
              /\ tx[s] # Idle
              /\ tx'[s].op = tx[s].op /\ tx'[s].slot = tx[s].slot
              /\ tx'[s].rows = tx[s].rows /\ tx'[s].writes = tx[s].writes
              /\ ~tx'[s].stale =>
                    ~tx[s].stale /\ Rows(tx[s].writes) \cap ({"entitlement"} \X S) = {}
    BY <1>3, InvalidateOK
  <1>5. TypeOK'
    BY <1>2, <1>4 DEF TypeOK
  <1>6. CountsMatch'
    BY <1>1 DEF CountsMatch
  <1>7. ASSUME NEW s \in Sessions, tx'[s] # Idle, ~tx'[s].stale,
               NEW b \in DOMAIN tx[s].writes.ent
        PROVE  ent'[b] = ent[b]
    <2>1. /\ tx[s] # Idle /\ ~tx[s].stale
          /\ Rows(tx[s].writes) \cap ({"entitlement"} \X S) = {}
      BY <1>4, <1>7
    <2>2. Sound(ent, tx[s].writes) /\ tx[s].writes \in WriteSet
      BY <1>3, <2>1 DEF JobsSound, Transactions
    <2>3. b \in Beneficiaries
      BY <2>2, WriteSetShape
    <2>4. ASSUME b \in S PROVE FALSE
      <3>1. b \notin tx[s].writes.granted
        BY <2>2, <2>4 DEF Sound
      <3>2. <<"entitlement", b>> \in Rows(tx[s].writes)
        BY <1>7, <3>1 DEF Rows
      <3> QED BY <2>1, <2>4, <3>2
    <2> QED BY <1>1, <2>3, <2>4
  <1>8. \A b \in Beneficiaries : ent[b] # "none" => ent'[b] # "none"
    BY <1>1
  <1>9. \A i \in Slots : \A T \in pipelines'[i].todo : RowsExist(ent, pipelines'[i].op, T)
    BY DEF JobsSound
  <1>10. JobsSound'
    BY <1>4, <1>5, <1>7, <1>8, <1>9, JobsFrame
  <1> QED BY <1>5, <1>6, <1>10

LEMMA RejectCycleInv == ASSUME JobsInv, RejectCycle PROVE JobsInv'
  <1> DEFINE S == In({"pending_validation"})
  <1>1. S \in SUBSET Beneficiaries /\ \A b \in S : ent[b] # "none" /\ disbursed[b] = 0
    BY DEF In, JobsInv, CountsMatch
  <1>2. /\ ent' = Over(ent, To("cancelled", S))
        /\ tx' = Invalidate(tx, {"entitlement"} \X S)
        /\ cycle' = "cancelled"
        /\ UNCHANGED <<reviewed, locked, member, granted, disbursed, paid, pipelines>>
    BY DEF RejectCycle
  <1> HIDE DEF S
  <1> QED BY <1>1, <1>2, RewriteOK

LEMMA ResetCycleInv == ASSUME JobsInv, ResetCycle PROVE JobsInv'
  <1> DEFINE S == In({"pending_validation", "cancelled"})
  <1>1. S \in SUBSET Beneficiaries /\ \A b \in S : ent[b] # "none" /\ disbursed[b] = 0
    BY DEF In, ResetCycle
  <1>2. /\ ent' = Over(ent, To("draft", S))
        /\ tx' = Invalidate(tx, {"entitlement"} \X S)
        /\ cycle' = "draft"
        /\ UNCHANGED <<reviewed, locked, member, granted, disbursed, paid, pipelines>>
    BY DEF ResetCycle
  <1> HIDE DEF S
  <1> QED BY <1>1, <1>2, RewriteOK

LEMMA ChunksShape ==
    ASSUME NEW S \in SUBSET Beneficiaries
    PROVE  Chunks(S) \in SUBSET SUBSET Beneficiaries /\ \A T \in Chunks(S) : T \subseteq S
  BY DEF Chunks

LEMMA DispatchInv ==
    ASSUME JobsInv, NEW op \in {"eligibility", "prepare", "validate", "payments"},
           Dispatch(op)
    PROVE  JobsInv'
  <1> DEFINE jobs == IF op = "payments" THEN {RowsFor(op)} ELSE Chunks(RowsFor(op))
  <1>1. RowsFor(op) \in SUBSET Beneficiaries
    BY DEF RowsFor, Enrolled, Undecided, In
  <1>2. jobs \in SUBSET SUBSET Beneficiaries
    BY <1>1, ChunksShape
  <1>3. \A S \in jobs : RowsExist(ent, op, S)
    BY DEF RowsExist
  <1>4. Enqueue(op, jobs) /\ UNCHANGED <<cycle, reviewed, data, tx>>
    BY DEF Dispatch
  <1>5. cycle' \in {"draft", "to_approve", "approved", "cancelled"} /\ reviewed' \in BOOLEAN
    BY <1>4 DEF JobsInv, TypeOK
  <1>6. op \in Operations
    BY Names
  <1> HIDE DEF jobs
  <1> QED BY <1>2, <1>3, <1>4, <1>5, <1>6, EnqueueOK

LEMMA SubmitCycleInv == ASSUME JobsInv, SubmitCycle PROVE JobsInv'
  <1> DEFINE jobs == Chunks(In({"draft"}))
  <1>1. jobs \in SUBSET SUBSET Beneficiaries
    BY ChunksShape DEF In
  <1>2. \A S \in jobs : RowsExist(ent, "pending", S)
    BY DEF RowsExist
  <1>3. /\ Enqueue("pending", jobs) \/ UNCHANGED <<pipelines, locked>>
        /\ UNCHANGED <<reviewed, data, tx>>
        /\ cycle' = "to_approve"
    BY DEF SubmitCycle, EnqueueIf
  <1>4. reviewed' \in BOOLEAN
    BY <1>3 DEF JobsInv, TypeOK
  <1>5. "pending" \in Operations
    BY Names
  <1> HIDE DEF jobs
  <1> QED BY <1>1, <1>2, <1>3, <1>4, <1>5, EnqueueOK

LEMMA ApproveCycleInv == ASSUME JobsInv, ApproveCycle PROVE JobsInv'
  <1> DEFINE jobs == Chunks(Undecided)
  <1>1. jobs \in SUBSET SUBSET Beneficiaries
    BY ChunksShape DEF Undecided, In
  <1>2. \A S \in jobs : RowsExist(ent, "validate", S)
    BY DEF RowsExist
  <1>3. /\ Enqueue("validate", jobs) \/ UNCHANGED <<pipelines, locked>>
        /\ UNCHANGED <<data, tx>>
        /\ cycle' = "approved" /\ reviewed' = TRUE
    BY DEF ApproveCycle, EnqueueIf
  <1>4. "validate" \in Operations
    BY Names
  <1> HIDE DEF jobs
  <1> QED BY <1>1, <1>2, <1>3, <1>4, EnqueueOK

LEMMA ArchiveProgramInv == ASSUME JobsInv, ArchiveProgram PROVE JobsInv'
  <1> DEFINE S == Undecided \cup In({"approved"})
             jobs == Chunks(S)
  <1>1. S \in SUBSET Beneficiaries /\ \A b \in S : ent[b] # "none"
    BY DEF Undecided, In
  <1>2. jobs \in SUBSET SUBSET Beneficiaries /\ \A T \in jobs : T \subseteq S
    BY <1>1, ChunksShape
  <1>3. \A T \in jobs : RowsExist(ent, "cancel", T)
    BY <1>1, <1>2 DEF RowsExist
  <1>4. /\ Enqueue("cancel", jobs) \/ UNCHANGED <<pipelines, locked>>
        /\ UNCHANGED <<reviewed, data, tx>>
        /\ cycle' = "cancelled"
    BY DEF ArchiveProgram, EnqueueIf
  <1>5. reviewed' \in BOOLEAN
    BY <1>4 DEF JobsInv, TypeOK
  <1>6. "cancel" \in Operations
    BY Names
  <1> HIDE DEF jobs
  <1> QED BY <1>2, <1>3, <1>4, <1>5, <1>6, EnqueueOK

LEMMA ForceUnlockInv == ASSUME JobsInv, ForceUnlock PROVE JobsInv'
  <1>1. TypeOK'
    BY DEF JobsInv, ForceUnlock, TypeOK, data
  <1>2. CountsMatch' /\ JobsSound'
    BY DEF JobsInv, ForceUnlock, CountsMatch, JobsSound, data
  <1> QED BY <1>1, <1>2 DEF JobsInv

\* A transaction that begins, for a request or a job.
LEMMA BeginOK ==
    ASSUME JobsInv, NEW s \in Sessions, NEW op \in Operations, NEW slot \in Slots \cup {0},
           NEW S \in SUBSET Beneficiaries, NEW w \in Writes(op, S),
           RowsExist(ent, op, S),
           slot # 0 => pipelines[slot].op = op,
           tx' = [tx EXCEPT ![s] = Transaction(op, slot, S, w)],
           pipelines' \in [Slots -> Pipeline \cup {Free}],
           \A i \in Slots : pipelines'[i].op = pipelines[i].op
                            /\ pipelines'[i].todo \subseteq pipelines[i].todo,
           UNCHANGED <<cycle, reviewed, locked, data>>
    PROVE  JobsInv'
  <1> USE DEF JobsInv
  <1>1. w \in WriteSet /\ Sound(ent, w)
    BY WritesSound
  <1>2. Transaction(op, slot, S, w) \in Transactions
    BY <1>1 DEF Transaction, Transactions
  <1>3. TypeOK'
    BY <1>2 DEF TypeOK, data
  <1>4. CountsMatch'
    BY DEF CountsMatch, data
  <1>5. ent' = ent
    BY DEF data
  <1>6. ASSUME NEW r \in Sessions, tx'[r] # Idle
        PROVE  /\ ~tx'[r].stale => Sound(ent', tx'[r].writes)
               /\ tx'[r].slot # 0 => pipelines'[tx'[r].slot].op = tx'[r].op
               /\ RowsExist(ent', tx'[r].op, tx'[r].rows)
    <2>1. CASE r = s
      <3>1. tx'[r] = Transaction(op, slot, S, w)
        BY <2>1 DEF TypeOK
      <3> QED BY <1>1, <1>5, <3>1 DEF Transaction
    <2>2. CASE r # s
      <3>1. tx'[r] = tx[r]
        BY <2>2 DEF TypeOK
      <3>2. tx[r].slot \in Slots \cup {0}
        BY <1>6, <3>1 DEF TypeOK, Transactions
      <3> QED BY <1>5, <1>6, <3>1, <3>2 DEF JobsSound
    <2> QED BY <2>1, <2>2
  <1>7. \A i \in Slots : \A T \in pipelines'[i].todo : RowsExist(ent', pipelines'[i].op, T)
    BY <1>5 DEF JobsSound
  <1> QED BY <1>3, <1>4, <1>6, <1>7 DEF JobsSound

\* A job that waits leaves its group.
LEMMA TakeJobOK ==
    ASSUME JobsInv, NEW i \in Slots, NEW S \in pipelines[i].todo, NEW fail,
           fail \in BOOLEAN,
           pipelines' = [pipelines EXCEPT ![i] =
                           [pipelines[i] EXCEPT !.todo = pipelines[i].todo \ {S},
                                                !.failed = fail]]
    PROVE  /\ pipelines[i].op \in Operations
           /\ S \in SUBSET Beneficiaries
           /\ RowsExist(ent, pipelines[i].op, S)
           /\ pipelines' \in [Slots -> Pipeline \cup {Free}]
           /\ \A k \in Slots : pipelines'[k].op = pipelines[k].op
                               /\ pipelines'[k].todo \subseteq pipelines[k].todo
  <1>1. pipelines[i] \in Pipeline
    BY DEF JobsInv, TypeOK, Free
  <1>2. [pipelines[i] EXCEPT !.todo = pipelines[i].todo \ {S}, !.failed = fail] \in Pipeline
    BY <1>1 DEF Pipeline
  <1>3. pipelines' \in [Slots -> Pipeline \cup {Free}]
    BY <1>2 DEF JobsInv, TypeOK
  <1>4. ASSUME NEW k \in Slots
        PROVE  /\ pipelines'[k].op = pipelines[k].op
               /\ pipelines'[k].todo \subseteq pipelines[k].todo
    <2>1. CASE k = i
      BY <1>1, <2>1 DEF Pipeline, JobsInv, TypeOK
    <2>2. CASE k # i
      BY <2>2 DEF JobsInv, TypeOK
    <2> QED BY <2>1, <2>2
  <1>5. RowsExist(ent, pipelines[i].op, S)
    BY DEF JobsInv, JobsSound
  <1> QED BY <1>1, <1>3, <1>4, <1>5 DEF Pipeline

LEMMA StartJobInv ==
    ASSUME JobsInv, NEW s \in Sessions, NEW i \in Slots, NEW S \in pipelines[i].todo,
           StartJob(s, i, S)
    PROVE  JobsInv'
  <1> DEFINE op == pipelines[i].op
  <1>1. /\ pipelines' = [pipelines EXCEPT ![i].todo = @ \ {S}]
        /\ UNCHANGED <<cycle, reviewed, locked, data>>
    BY DEF StartJob
  <1>2. PICK w \in Writes(op, S) : tx' = [tx EXCEPT ![s] = Transaction(op, i, S, w)]
    BY DEF StartJob
  <1>3. pipelines[i] \in Pipeline
    BY DEF JobsInv, TypeOK, Free
  <1>4. pipelines[i].failed \in BOOLEAN
        /\ [pipelines[i] EXCEPT !.todo = pipelines[i].todo \ {S}]
           = [pipelines[i] EXCEPT !.todo = pipelines[i].todo \ {S},
                                  !.failed = pipelines[i].failed]
    BY <1>3 DEF Pipeline
  <1>5. pipelines' = [pipelines EXCEPT ![i] =
                        [pipelines[i] EXCEPT !.todo = pipelines[i].todo \ {S},
                                             !.failed = pipelines[i].failed]]
    BY <1>1, <1>4
  <1>6. /\ op \in Operations
        /\ S \in SUBSET Beneficiaries
        /\ RowsExist(ent, op, S)
        /\ pipelines' \in [Slots -> Pipeline \cup {Free}]
        /\ \A k \in Slots : pipelines'[k].op = pipelines[k].op
                            /\ pipelines'[k].todo \subseteq pipelines[k].todo
    BY <1>4, <1>5, TakeJobOK
  <1>7. i \in Slots \cup {0} /\ (i # 0 => pipelines[i].op = op)
    OBVIOUS
  <1> HIDE DEF op
  <1> QED BY <1>1, <1>2, <1>6, <1>7, BeginOK

LEMMA FailJobInv ==
    ASSUME JobsInv, NEW i \in Slots, NEW S \in pipelines[i].todo, FailJob(i, S)
    PROVE  JobsInv'
  <1>1. /\ pipelines' = [pipelines EXCEPT ![i].todo = @ \ {S}, ![i].failed = TRUE]
        /\ UNCHANGED <<cycle, reviewed, locked, data, tx>>
    BY DEF FailJob
  <1>2. pipelines' = [pipelines EXCEPT ![i] =
                        [pipelines[i] EXCEPT !.todo = pipelines[i].todo \ {S},
                                             !.failed = TRUE]]
    BY <1>1 DEF JobsInv, TypeOK
  <1>3. /\ pipelines' \in [Slots -> Pipeline \cup {Free}]
        /\ \A k \in Slots : pipelines'[k].op = pipelines[k].op
                            /\ pipelines'[k].todo \subseteq pipelines[k].todo
    BY <1>2, TakeJobOK
  <1>4. TypeOK'
    BY <1>1, <1>3 DEF JobsInv, TypeOK, data
  <1>5. CountsMatch'
    BY <1>1 DEF JobsInv, CountsMatch, data
  <1>6. JobsSound'
    BY <1>1, <1>3 DEF JobsInv, JobsSound, data, TypeOK, Transactions
  <1> QED BY <1>4, <1>5, <1>6 DEF JobsInv

LEMMA StartRequestInv ==
    ASSUME JobsInv, NEW c \in Clerks,
           NEW op \in {"eligibility", "prepare", "validate", "payments"},
           StartRequest(c, op)
    PROVE  JobsInv'
  <1>1. PICK S \in Selections(op) \ {{}} :
            \E w \in Writes(op, S) : tx' = [tx EXCEPT ![c] = Transaction(op, 0, S, w)]
    BY DEF StartRequest
  <1>2. PICK w \in Writes(op, S) : tx' = [tx EXCEPT ![c] = Transaction(op, 0, S, w)]
    BY <1>1
  <1>3. S \in SUBSET Beneficiaries
    BY DEF Selections, RowsFor, Enrolled, Undecided, In
  <1>4. RowsExist(ent, op, S) /\ op \in Operations /\ c \in Sessions
    BY Names DEF RowsExist, Sessions
  <1>5. pipelines' = pipelines /\ UNCHANGED <<cycle, reviewed, locked, data>>
    BY DEF StartRequest
  <1>6. pipelines' \in [Slots -> Pipeline \cup {Free}]
    BY <1>5 DEF JobsInv, TypeOK
  <1> QED BY <1>2, <1>3, <1>4, <1>5, <1>6, BeginOK

\* A job that goes back to its group takes rows that exist with it.
LEMMA RequeueOK ==
    ASSUME JobsInv, NEW s \in Sessions, tx[s] # Idle,
           Requeue(s) \/ UNCHANGED pipelines
    PROVE  /\ pipelines' \in [Slots -> Pipeline \cup {Free}]
           /\ \A i \in Slots : pipelines'[i].op = pipelines[i].op
           /\ \A i \in Slots : \A S \in pipelines'[i].todo :
                 RowsExist(ent, pipelines'[i].op, S)
  <1>1. CASE pipelines' = pipelines
    BY <1>1 DEF JobsInv, TypeOK, JobsSound
  <1>2. CASE pipelines' # pipelines
    <2> DEFINE k == tx[s].slot
    <2>1. /\ k # 0
          /\ pipelines' = [pipelines EXCEPT ![k].todo = @ \cup {tx[s].rows}]
      BY <1>2 DEF Requeue
    <2>2. tx[s] \in Transactions /\ k \in Slots
      BY <2>1 DEF JobsInv, TypeOK, Transactions
    <2>3. pipelines[k].op = tx[s].op /\ RowsExist(ent, tx[s].op, tx[s].rows)
      BY <2>1 DEF JobsInv, JobsSound
    <2>4. tx[s].op \in Operations /\ tx[s].rows \in SUBSET Beneficiaries
      BY <2>2 DEF Transactions
    <2>5. pipelines[k] \in Pipeline
      BY <2>2, <2>3, <2>4, Names DEF JobsInv, TypeOK, Free
    <2> DEFINE q == [pipelines[k] EXCEPT !.todo = pipelines[k].todo \cup {tx[s].rows}]
    <2>6. /\ q \in Pipeline
          /\ q.op = pipelines[k].op
          /\ q.todo = pipelines[k].todo \cup {tx[s].rows}
      BY <2>4, <2>5 DEF Pipeline
    <2>7. pipelines' = [pipelines EXCEPT ![k] = q]
      BY <2>1, <2>2 DEF JobsInv, TypeOK
    <2> HIDE DEF q, k
    <2>8. pipelines' \in [Slots -> Pipeline \cup {Free}]
      BY <2>6, <2>7 DEF JobsInv, TypeOK
    <2>9. ASSUME NEW i \in Slots
          PROVE  /\ pipelines'[i].op = pipelines[i].op
                 /\ \A S \in pipelines'[i].todo : RowsExist(ent, pipelines'[i].op, S)
      <3>1. CASE i = k
        <4>1. pipelines'[i] = q
          BY <2>7, <3>1 DEF JobsInv, TypeOK
        <4> QED BY <2>2, <2>3, <2>6, <3>1, <4>1 DEF JobsInv, JobsSound
      <3>2. CASE i # k
        <4>1. pipelines'[i] = pipelines[i]
          BY <2>7, <3>2 DEF JobsInv, TypeOK
        <4> QED BY <4>1 DEF JobsInv, JobsSound
      <3> QED BY <3>1, <3>2
    <2> QED BY <2>8, <2>9
  <1> QED BY <1>1, <1>2

LEMMA CommitOK ==
    ASSUME JobsInv, NEW s \in Sessions, tx[s] # Idle, ~tx[s].stale,
           Apply(tx[s].writes),
           tx' = Invalidate([tx EXCEPT ![s] = Idle], Rows(tx[s].writes)),
           Requeue(s) \/ UNCHANGED pipelines,
           UNCHANGED <<cycle, reviewed, locked>>
    PROVE  JobsInv'
  <1> USE DEF JobsInv
  <1> DEFINE w == tx[s].writes
             idle == [tx EXCEPT ![s] = Idle]
  <1>1. w \in WriteSet /\ Sound(ent, w)
    BY DEF TypeOK, Transactions, JobsSound
  <1>2. idle \in [Sessions -> Transactions \cup {Idle}]
        /\ \A r \in Sessions : idle[r] # Idle => r # s /\ idle[r] = tx[r]
    BY DEF TypeOK
  <1>3. tx' = Invalidate(idle, Rows(w))
    OBVIOUS
  <1>4. Apply(w)
    OBVIOUS
  <1> HIDE DEF w, idle
  <1>5. /\ member' \in [Beneficiaries -> MemberStates]
        /\ ent' \in [Beneficiaries -> EntStates]
        /\ granted' \in [Beneficiaries -> Nat]
        /\ disbursed' \in [Beneficiaries -> Nat]
        /\ paid' \in [Beneficiaries -> Nat]
        /\ CountsMatch'
        /\ \A b \in Beneficiaries : ent[b] # "none" => ent'[b] # "none"
        /\ \A b \in Beneficiaries \ DOMAIN w.ent : ent'[b] = ent[b]
    BY <1>1, <1>4, ApplyOK
  <1>6. /\ tx' \in [Sessions -> Transactions \cup {Idle}]
        /\ \A r \in Sessions : tx'[r] # Idle =>
              /\ idle[r] # Idle
              /\ tx'[r].op = idle[r].op /\ tx'[r].slot = idle[r].slot
              /\ tx'[r].rows = idle[r].rows /\ tx'[r].writes = idle[r].writes
              /\ ~tx'[r].stale => ~idle[r].stale /\ Rows(idle[r].writes) \cap Rows(w) = {}
    BY <1>2, <1>3, InvalidateOK
  <1>7. /\ pipelines' \in [Slots -> Pipeline \cup {Free}]
        /\ \A i \in Slots : pipelines'[i].op = pipelines[i].op
        /\ \A i \in Slots : \A S \in pipelines'[i].todo :
              RowsExist(ent, pipelines'[i].op, S)
    BY RequeueOK
  <1>8. TypeOK'
    BY <1>5, <1>6, <1>7 DEF TypeOK
  <1>9. ASSUME NEW r \in Sessions, tx'[r] # Idle
        PROVE  /\ tx[r] # Idle
               /\ tx'[r].op = tx[r].op /\ tx'[r].slot = tx[r].slot
               /\ tx'[r].rows = tx[r].rows /\ tx'[r].writes = tx[r].writes
               /\ ~tx'[r].stale =>
                     /\ ~tx[r].stale
                     /\ \A b \in DOMAIN tx[r].writes.ent : ent'[b] = ent[b]
               /\ tx[r].slot # 0 => pipelines'[tx[r].slot].op = pipelines[tx[r].slot].op
    <2>1. idle[r] = tx[r] /\ tx[r] # Idle
      BY <1>2, <1>6, <1>9
    <2>2. tx[r] \in Transactions
      BY <2>1 DEF TypeOK
    <2>3. ASSUME ~tx'[r].stale
          PROVE  /\ ~tx[r].stale
                 /\ \A b \in DOMAIN tx[r].writes.ent : ent'[b] = ent[b]
      <3>1. ~tx[r].stale /\ Rows(tx[r].writes) \cap Rows(w) = {}
        BY <1>6, <1>9, <2>1, <2>3
      <3>2. Sound(ent, tx[r].writes) /\ tx[r].writes \in WriteSet
        BY <2>1, <2>2, <3>1 DEF JobsSound, Transactions
      <3>3. DOMAIN tx[r].writes.ent \cap DOMAIN w.ent = {}
        BY <1>1, <3>1, <3>2, SoundApart
      <3>4. DOMAIN tx[r].writes.ent \subseteq Beneficiaries
        BY <3>2, WriteSetShape
      <3> QED BY <1>5, <3>1, <3>3, <3>4
    <2>4. tx[r].slot # 0 => pipelines'[tx[r].slot].op = pipelines[tx[r].slot].op
      BY <1>7, <2>2 DEF Transactions
    <2> QED BY <1>6, <1>9, <2>1, <2>3, <2>4
  <1>10. JobsSound'
    BY <1>5, <1>7, <1>8, <1>9, JobsFrame
  <1> QED BY <1>5, <1>8, <1>10

LEMMA RetryInv == ASSUME JobsInv, NEW s \in Sessions, Retry(s) PROVE JobsInv'
  <1>1. /\ tx[s] # Idle
        /\ tx' = [tx EXCEPT ![s] = Idle]
        /\ Requeue(s)
        /\ UNCHANGED <<cycle, reviewed, locked, data>>
    BY DEF Retry
  <1>2. /\ pipelines' \in [Slots -> Pipeline \cup {Free}]
        /\ \A i \in Slots : pipelines'[i].op = pipelines[i].op
        /\ \A i \in Slots : \A S \in pipelines'[i].todo :
              RowsExist(ent, pipelines'[i].op, S)
    BY <1>1, RequeueOK
  <1>3. TypeOK'
    BY <1>1, <1>2 DEF JobsInv, TypeOK, data
  <1>4. CountsMatch'
    BY <1>1 DEF JobsInv, CountsMatch, data
  <1>5. ASSUME NEW r \in Sessions, tx'[r] # Idle
        PROVE  tx'[r] = tx[r] /\ (tx[r].slot # 0 => tx[r].slot \in Slots)
    BY <1>1, <1>5 DEF JobsInv, TypeOK, Transactions
  <1>6. ent' = ent
    BY <1>1 DEF data
  <1>7. JobsSound'
    BY <1>2, <1>5, <1>6 DEF JobsInv, JobsSound
  <1> QED BY <1>3, <1>4, <1>7 DEF JobsInv

LEMMA CallbackInv == ASSUME JobsInv, NEW i \in Slots, Callback(i) PROVE JobsInv'
  <1>1. /\ Running(i) = {}
        /\ pipelines' = [pipelines EXCEPT ![i] = Free]
        /\ locked' = FALSE
        /\ UNCHANGED <<cycle, reviewed, data, tx>>
    BY DEF Callback
  <1>2. TypeOK'
    BY <1>1 DEF JobsInv, TypeOK, data
  <1>3. CountsMatch'
    BY <1>1 DEF JobsInv, CountsMatch, data
  <1>4. ASSUME NEW s \in Sessions, tx[s] # Idle, tx[s].slot # 0
        PROVE  pipelines'[tx[s].slot].op = pipelines[tx[s].slot].op
    <2>1. tx[s].slot \in Slots \ {i}
      BY <1>1, <1>4 DEF JobsInv, TypeOK, Transactions, Running
    <2> QED BY <1>1, <2>1 DEF JobsInv, TypeOK
  <1>5. \A k \in Slots : \A S \in pipelines'[k].todo : RowsExist(ent, pipelines'[k].op, S)
    BY <1>1 DEF JobsInv, JobsSound, TypeOK, Free
  <1>6. ent' = ent /\ tx' = tx
    BY <1>1 DEF data
  <1>7. JobsSound'
    BY <1>4, <1>5, <1>6 DEF JobsInv, JobsSound
  <1> QED BY <1>2, <1>3, <1>7 DEF JobsInv

LEMMA RestartInv == ASSUME JobsInv, Restart PROVE JobsInv'
  <1>1. /\ tx' = [s \in Sessions |-> Idle]
        /\ pipelines' = [i \in Slots |-> Free]
        /\ UNCHANGED <<cycle, reviewed, locked, data>>
    BY DEF Restart
  <1>2. TypeOK'
    BY <1>1 DEF JobsInv, TypeOK, data
  <1>3. CountsMatch'
    BY <1>1 DEF JobsInv, CountsMatch, data
  <1>4. JobsSound'
    BY <1>1 DEF JobsSound, Free
  <1> QED BY <1>2, <1>3, <1>4 DEF JobsInv

LEMMA InitJobsInv == ASSUME Init PROVE JobsInv
  <1>1. TypeOK
    BY DEF Init, TypeOK, To, MemberStates, EntStates
  <1>2. CountsMatch
    BY DEF Init, CountsMatch, To
  <1>3. JobsSound
    BY DEF Init, JobsSound, Free
  <1> QED BY <1>1, <1>2, <1>3 DEF JobsInv

LEMMA StutterJobsInv == ASSUME JobsInv, UNCHANGED vars PROVE JobsInv'
  <1>1. TypeOK'
    BY DEF JobsInv, TypeOK, vars, data
  <1>2. CountsMatch' /\ JobsSound'
    BY DEF JobsInv, CountsMatch, JobsSound, vars, data
  <1> QED BY <1>1, <1>2 DEF JobsInv

LEMMA NextJobsInv == ASSUME JobsInv, Next PROVE JobsInv'
  <1>1. CASE UserNext
    <2>1. ASSUME NEW op \in {"eligibility", "prepare", "validate", "payments"}, Dispatch(op)
          PROVE  JobsInv'
      BY <2>1, DispatchInv
    <2>2. ASSUME NEW c \in Clerks,
                 NEW op \in {"eligibility", "prepare", "validate", "payments"},
                 StartRequest(c, op)
          PROVE  JobsInv'
      BY <2>2, StartRequestInv
    <2> QED BY <1>1, <2>1, <2>2, SubmitCycleInv, ApproveCycleInv, RejectCycleInv,
               ResetCycleInv, ArchiveProgramInv, ForceUnlockInv DEF UserNext
  <1>2. CASE JobNext
    <2>1. ASSUME NEW i \in Slots, NEW S \in pipelines[i].todo, FailJob(i, S)
          PROVE  JobsInv'
      BY <2>1, FailJobInv
    <2>2. ASSUME NEW i \in Slots, NEW S \in pipelines[i].todo, NEW s \in Workers,
                 StartJob(s, i, S)
          PROVE  JobsInv'
      BY <2>2, StartJobInv DEF Sessions
    <2>3. ASSUME NEW i \in Slots, Callback(i) PROVE JobsInv'
      BY <2>3, CallbackInv
    <2>4. ASSUME NEW s \in Sessions, Commit(s) PROVE JobsInv'
      BY <2>4, CommitOK DEF Commit
    <2>5. ASSUME NEW s \in Sessions, CommitUnnoticed(s) PROVE JobsInv'
      BY <2>5, CommitOK DEF CommitUnnoticed
    <2>6. ASSUME NEW s \in Sessions, Retry(s) PROVE JobsInv'
      BY <2>6, RetryInv
    <2> QED BY <1>2, <2>1, <2>2, <2>3, <2>4, <2>5, <2>6, RestartInv DEF JobNext
  <1> QED BY <1>1, <1>2 DEF Next

-----------------------------------------------------------------------------
(* Theorems *)

\* JobsInv is inductive.
THEOREM JobsInvariance == Spec => []JobsInv
  <1>1. Init => JobsInv
    BY InitJobsInv
  <1>2. JobsInv /\ [Next]_vars => JobsInv'
    BY NextJobsInv, StutterJobsInv
  <1> QED BY <1>1, <1>2, PTL DEF Spec

\* Every reachable state of the jobs is well typed.
THEOREM JobsTypeCorrect == Spec => []TypeOK
  <1>1. JobsInv => TypeOK
    BY DEF JobsInv
  <1> QED BY <1>1, JobsInvariance, PTL

\* However many jobs and requests overlap, are retried after a serialization
\* failure or repeated after a crash, over any rounds of approval and reset, no
\* entitlement is disbursed twice (approve_entitlements).
THEOREM NoDoubleDisbursement == Spec => []DisbursedOnce
  <1>1. JobsInv => DisbursedOnce
    BY DEF JobsInv, CountsMatch, DisbursedOnce
  <1> QED BY <1>1, JobsInvariance, PTL

\* However many jobs and requests prepare the entitlements of a cycle at the
\* same time, no beneficiary gets two (prepare_entitlements): what keeps them
\* apart is the row of the beneficiary that each of them updates.
THEOREM NoDoubleEntitlement == Spec => []OneEntitlementEach
  <1>1. JobsInv => OneEntitlementEach
    BY DEF JobsInv, CountsMatch, OneEntitlementEach
  <1> QED BY <1>1, JobsInvariance, PTL

-----------------------------------------------------------------------------
(* Totals *)

LEMMA TotalSum ==
    ASSUME NEW S \in SUBSET Beneficiaries
    PROVE  Total(S) = SumFunctionOnSet(Amount, S) /\ Total(S) \in Nat
  <1>1. Total(S) = SumFunctionOnSet(Amount, S)
    BY SumOfMap DEF Total
  <1>2. IsFiniteSet(S) /\ \A b \in S : Amount[b] \in Nat
    BY JobsAssumption, FS_Subset
  <1>3. SumFunctionOnSet(Amount, S) \in Nat
    BY <1>2, SumNat
  <1> QED BY <1>1, <1>3

\* The total of two sets is at most that of both.
LEMMA TotalOfUnion ==
    ASSUME NEW S \in SUBSET Beneficiaries, NEW T \in SUBSET Beneficiaries
    PROVE  Total(S \cup T) <= Total(S) + Total(T)
  <1> DEFINE U == S \cup T
  <1>1. IsFiniteSet(S) /\ IsFiniteSet(T)
    BY JobsAssumption, FS_Subset
  <1>2. NaturalOn(Amount, S \cup T)
    BY JobsAssumption DEF NaturalOn
  <1>3. SumFunctionOnSet(Amount, U) <=
           SumFunctionOnSet(Amount, S) + SumFunctionOnSet(Amount, T)
    BY <1>1, <1>2, SumUnion
  <1>4. U \in SUBSET Beneficiaries
    OBVIOUS
  <1> HIDE DEF U
  <1>5. /\ Total(S) = SumFunctionOnSet(Amount, S)
        /\ Total(T) = SumFunctionOnSet(Amount, T)
        /\ Total(U) = SumFunctionOnSet(Amount, U)
    BY <1>4, TotalSum
  <1> QED BY <1>3, <1>5 DEF U

\* That of a part is at most that of the whole.
LEMMA TotalOfPart ==
    ASSUME NEW S \in SUBSET Beneficiaries, NEW T \in SUBSET S
    PROVE  Total(T) <= Total(S)
  <1>1. IsFiniteSet(S) /\ T \subseteq S /\ \A b \in S : Amount[b] \in Nat
    BY JobsAssumption, FS_Subset
  <1>2. SumFunctionOnSet(Amount, T) <= SumFunctionOnSet(Amount, S)
    BY <1>1, SumSubset
  <1>3. T \in SUBSET Beneficiaries
    OBVIOUS
  <1> QED BY <1>2, <1>3, TotalSum

-----------------------------------------------------------------------------
(* The jobs and the fund *)

Charged == In({"approved"})

\* What a transaction t means to the fund while the entitlements of C are
\* charged: only approvals charge it, and those of a transaction that nobody
\* beat are covered together with C.
TxFund(t, C) ==
    /\ t.op # "validate" => \A b \in DOMAIN t.writes.ent : t.writes.ent[b] # "approved"
    /\ t.op = "validate" => \A b \in DOMAIN t.writes.ent : t.writes.ent[b] = "approved"
    /\ t.op = "validate" /\ ~t.stale => Total(C \cup DOMAIN t.writes.ent) <= Posted

\* Approvals are the jobs of one worker at a time.
OneApprover ==
    /\ \A s \in Sessions : tx[s].op = "validate" => s \in Workers
    /\ \A r, s \in Sessions : tx[r].op = "validate" /\ tx[s].op = "validate" => r = s

FundInv == OneApprover /\ \A s \in Sessions : tx[s] # Idle => TxFund(tx[s], Charged)

\* A transaction that was covered stays covered while less is charged.
LEMMA TxFundLess ==
    ASSUME NEW t, NEW u, NEW C \in SUBSET Beneficiaries, NEW D \in SUBSET C,
           t.writes \in WriteSet, TxFund(t, C),
           u.op = t.op, u.writes = t.writes, ~u.stale => ~t.stale
    PROVE  TxFund(u, D)
  <1> DEFINE E == DOMAIN t.writes.ent
  <1>1. E \in SUBSET Beneficiaries
    BY WriteSetShape
  <1>2. ASSUME t.op = "validate", ~t.stale PROVE Total(D \cup E) <= Posted
    <2> DEFINE V == C \cup E
               W == D \cup E
    <2>1. V \in SUBSET Beneficiaries /\ W \in SUBSET V
      BY <1>1
    <2>2. Total(V) <= Posted
      BY <1>2 DEF TxFund
    <2> HIDE DEF V, W
    <2>3. Total(W) <= Total(V) /\ Total(W) \in Nat /\ Total(V) \in Nat
      BY <2>1, TotalOfPart, TotalSum
    <2>4. Total(W) <= Posted
      BY <2>2, <2>3, JobsAssumption
    <2> QED BY <2>4 DEF W
  <1> QED BY <1>2 DEF TxFund

\* A step in which no transaction begins and nothing is approved.
LEMMA FundFrame ==
    ASSUME TypeOK, FundInv,
           \A b \in Beneficiaries : ent'[b] = "approved" => ent[b] = "approved",
           \A s \in Sessions : tx'[s] = Idle \/
              /\ tx[s] # Idle
              /\ tx'[s].op = tx[s].op /\ tx'[s].writes = tx[s].writes
              /\ ~tx'[s].stale => ~tx[s].stale
    PROVE  FundInv'
  <1> DEFINE C == Charged
             D == {b \in Beneficiaries : ent'[b] \in {"approved"}}
  <1>1. C \in SUBSET Beneficiaries /\ D \in SUBSET C
    BY DEF Charged, In
  <1>2. Charged' = D
    BY DEF Charged, In
  <1>3. Idle.op # "validate"
    BY DEF Idle
  <1>4. \A s \in Sessions : tx'[s].op = "validate" => tx[s].op = "validate"
    BY <1>3
  <1>5. OneApprover'
    BY <1>4 DEF FundInv, OneApprover
  <1> HIDE DEF C, D
  <1>6. ASSUME NEW s \in Sessions, tx'[s] # Idle PROVE TxFund(tx'[s], D)
    <2>1. tx[s].writes \in WriteSet
      BY <1>6 DEF TypeOK, Transactions
    <2>2. TxFund(tx[s], C)
      BY <1>6 DEF FundInv, C
    <2> QED BY <1>1, <1>6, <2>1, <2>2, TxFundLess
  <1> QED BY <1>2, <1>5, <1>6 DEF FundInv

\* What an operation writes from the present state is covered by the fund.
LEMMA WritesFund ==
    ASSUME TypeOK, NEW op \in Operations, NEW S \in SUBSET Beneficiaries, NEW i,
           NEW w \in Writes(op, S)
    PROVE  TxFund(Transaction(op, i, S, w), Charged)
  <1> DEFINE t == Transaction(op, i, S, w)
  <1> SUFFICES TxFund(t, Charged)
    OBVIOUS
  <1>1. t.op = op /\ t.writes = w /\ t.stale = FALSE
    BY DEF Transaction
  <1> HIDE DEF t
  <1>2. CASE op = "validate"
    <2>1. PICK P \in Affordable(S \cap Undecided) :
              w = [NoWrites EXCEPT !.ent = To("approved", P), !.disbursed = P]
      BY <1>2 DEF Writes, Approvals
    <2>2. P \in SUBSET Beneficiaries /\ Total(P) <= Posted - Total(Charged)
      BY DEF Affordable, Balance, Charged
    <2>3. w.ent = [b \in P |-> "approved"]
      BY <2>1 DEF NoWrites, To
    <2>4. DOMAIN w.ent = P /\ \A b \in P : w.ent[b] = "approved"
      BY <2>3
    <2>5. Charged \in SUBSET Beneficiaries
      BY DEF Charged, In
    <2>6. /\ Total(Charged \cup P) <= Total(Charged) + Total(P)
          /\ Total(P) \in Nat /\ Total(Charged) \in Nat
      BY <2>2, <2>5, TotalOfUnion, TotalSum
    <2> DEFINE U == Charged \cup P
    <2>7. U \in SUBSET Beneficiaries
      BY <2>2, <2>5
    <2> HIDE DEF U
    <2>8. Total(U) \in Nat
      BY <2>7, TotalSum
    <2>9. Total(U) <= Posted
      BY <2>2, <2>6, <2>8, JobsAssumption DEF U
    <2> QED BY <1>1, <1>2, <2>4, <2>9 DEF TxFund, U
  <1>3. CASE op # "validate"
    <2>1. \A b \in DOMAIN w.ent : w.ent[b] # "approved"
      <3>1. CASE op = "eligibility"
        <4>1. PICK E \in SUBSET S :
                 w = [NoWrites EXCEPT
                        !.member = [b \in S |-> IF b \in E THEN "enrolled" ELSE "not_eligible"],
                        !.ent = To("cancelled", (S \ E) \ In({"none"}))]
          BY <3>1 DEF Writes, Eligibility
        <4>2. w.ent = To("cancelled", (S \ E) \ In({"none"}))
          BY <4>1 DEF NoWrites
        <4> QED BY <4>2 DEF To
      <3>2. CASE op = "prepare"
        <4> DEFINE R == S \cap Enrolled \cap In({"none"})
        <4>1. w.ent = To("draft", R)
          BY <3>2 DEF Writes, Preparation, NoWrites
        <4> HIDE DEF R
        <4> QED BY <4>1 DEF To
      <3>3. CASE op = "payments"
        <4>1. w.ent = To("", {})
          BY <3>3 DEF Writes, Payments, NoWrites
        <4> QED BY <4>1 DEF To
      <3>4. CASE op = "cancel" \/ op = "pending"
        <4>1. w.ent = To("cancelled", S) \/ w.ent = To("pending_validation", S)
          BY <3>4 DEF Writes, NoWrites
        <4> QED BY <4>1 DEF To
      <3> QED BY <1>3, <3>1, <3>2, <3>3, <3>4, Names
    <2> QED BY <1>1, <1>3, <2>1 DEF TxFund
  <1> QED BY <1>2, <1>3

\* A transaction begins; if it approves, a worker's and the only one.
LEMMA BeginFund ==
    ASSUME TypeOK, FundInv, NEW s \in Sessions, NEW t, TxFund(t, Charged),
           t.op = "validate" =>
              s \in Workers /\ \A r \in Sessions \ {s} : tx[r].op # "validate",
           tx' = [tx EXCEPT ![s] = t], UNCHANGED ent
    PROVE  FundInv'
  <1>1. \A r \in Sessions : tx'[r] = IF r = s THEN t ELSE tx[r]
    BY DEF TypeOK
  <1>2. Charged' = Charged
    BY DEF Charged, In
  <1>3. OneApprover'
    BY <1>1 DEF FundInv, OneApprover
  <1>4. \A r \in Sessions : tx'[r] # Idle => TxFund(tx'[r], Charged)
    BY <1>1 DEF FundInv
  <1> QED BY <1>2, <1>3, <1>4 DEF FundInv

\* The channel of the approvals takes one job at a time.
LEMMA RoomForOne ==
    ASSUME TypeOK, OneApprover, Room("validate")
    PROVE  \A r \in Sessions : tx[r].op # "validate"
  <1> DEFINE T == {s \in Workers : tx[s] # Idle /\ Channel[tx[s].op] = Channel["validate"]}
  <1>1. Cardinality(T) < 1
    BY DEF Room, Limit, Channel
  <1>2. IsFiniteSet(T)
    BY JobsAssumption, FS_Subset
  <1> HIDE DEF T
  <1>3. T = {}
    BY <1>1, <1>2, FS_CardinalityType, FS_EmptySet
  <1>4. ASSUME NEW r \in Sessions, tx[r].op = "validate" PROVE FALSE
    <2>1. r \in Workers
      BY <1>4 DEF OneApprover
    <2>2. tx[r] # Idle
      BY <1>4 DEF Idle
    <2> QED BY <1>3, <1>4, <2>1, <2>2 DEF T
  <1> QED BY <1>4

LEMMA StartJobFund ==
    ASSUME JobsInv, FundInv, NEW s \in Workers, NEW i \in Slots,
           NEW S \in pipelines[i].todo, StartJob(s, i, S)
    PROVE  FundInv'
  <1> DEFINE op == pipelines[i].op
  <1>1. PICK w \in Writes(op, S) : tx' = [tx EXCEPT ![s] = Transaction(op, i, S, w)]
    BY DEF StartJob
  <1>2. pipelines[i] \in Pipeline
    BY DEF JobsInv, TypeOK, Free
  <1>3. op \in Operations /\ S \in SUBSET Beneficiaries
    BY <1>2 DEF Pipeline
  <1>4. Room(op) /\ UNCHANGED ent
    BY DEF StartJob, data
  <1> HIDE DEF op
  <1>5. TypeOK
    BY DEF JobsInv
  <1>6. TxFund(Transaction(op, i, S, w), Charged)
    BY <1>3, <1>5, WritesFund
  <1>7. op = "validate" => \A r \in Sessions : tx[r].op # "validate"
    BY <1>4, <1>5, RoomForOne DEF FundInv
  <1>8. Transaction(op, i, S, w).op = op
    BY DEF Transaction
  <1> QED BY <1>1, <1>4, <1>5, <1>6, <1>7, <1>8, BeginFund DEF Sessions

LEMMA StartRequestFund ==
    ASSUME "validate" \notin Direct, JobsInv, FundInv, NEW c \in Clerks,
           NEW op \in {"eligibility", "prepare", "validate", "payments"},
           StartRequest(c, op)
    PROVE  FundInv'
  <1>1. PICK S \in Selections(op) \ {{}} :
            \E w \in Writes(op, S) : tx' = [tx EXCEPT ![c] = Transaction(op, 0, S, w)]
    BY DEF StartRequest
  <1>2. PICK w \in Writes(op, S) : tx' = [tx EXCEPT ![c] = Transaction(op, 0, S, w)]
    BY <1>1
  <1>3. op # "validate" /\ op \in Operations /\ UNCHANGED ent /\ TypeOK
    BY Names DEF StartRequest, data, JobsInv
  <1>4. S \in SUBSET Beneficiaries
    BY DEF Selections, RowsFor, Enrolled, Undecided, In
  <1>5. TxFund(Transaction(op, 0, S, w), Charged)
    BY <1>3, <1>4, WritesFund
  <1>6. Transaction(op, 0, S, w).op # "validate"
    BY <1>3 DEF Transaction
  <1> QED BY <1>2, <1>3, <1>5, <1>6, BeginFund DEF Sessions

\* What a step does to the fund: it charges a set that the fund covers, or
\* releases some, or leaves it as it is.
FundStep ==
    \/ Charged' \in SUBSET Charged
    \/ \E P \in SUBSET Beneficiaries :
          Charged' = Charged \cup P /\ Total(Charged \cup P) <= Posted

\* A commit of approvals charges what was covered when they were computed, which
\* no other approvals were since; any other commit at most releases.
LEMMA CommitFund ==
    ASSUME JobsInv, FundInv, NEW s \in Sessions, tx[s] # Idle, ~tx[s].stale,
           Apply(tx[s].writes),
           tx' = Invalidate([tx EXCEPT ![s] = Idle], Rows(tx[s].writes))
    PROVE  FundInv' /\ FundStep
  <1> DEFINE w == tx[s].writes
             idle == [tx EXCEPT ![s] = Idle]
  <1>1. TypeOK /\ w \in WriteSet
    BY DEF JobsInv, TypeOK, Transactions
  <1>2. idle \in [Sessions -> Transactions \cup {Idle}]
        /\ \A r \in Sessions : idle[r] # Idle => r # s /\ idle[r] = tx[r]
    BY <1>1 DEF TypeOK
  <1>3. tx' = Invalidate(idle, Rows(w)) /\ TxFund(tx[s], Charged)
    BY DEF FundInv
  <1>4. ent' = Over(ent, w.ent)
    BY DEF Apply
  <1> HIDE DEF idle
  <1>5. \A r \in Sessions : tx'[r] = Idle \/
           /\ r # s /\ tx[r] # Idle
           /\ tx'[r].op = tx[r].op /\ tx'[r].writes = tx[r].writes
           /\ ~tx'[r].stale => ~tx[r].stale
    <2>1. \A r \in Sessions : tx'[r] # Idle =>
             /\ idle[r] # Idle
             /\ tx'[r].op = idle[r].op /\ tx'[r].writes = idle[r].writes
             /\ ~tx'[r].stale => ~idle[r].stale
      BY <1>2, <1>3, InvalidateOK
    <2> QED BY <1>2, <2>1
  <1>6. \A b \in Beneficiaries : ent'[b] = IF b \in DOMAIN w.ent THEN w.ent[b] ELSE ent[b]
    BY <1>4 DEF Over
  <1>7. DOMAIN w.ent \in SUBSET Beneficiaries
    BY <1>1, WriteSetShape
  <1>8. CASE tx[s].op = "validate"
    <2>1. /\ \A b \in DOMAIN w.ent : w.ent[b] = "approved"
          /\ Total(Charged \cup DOMAIN w.ent) <= Posted
      BY <1>3, <1>8 DEF TxFund
    <2>2. Charged' = Charged \cup DOMAIN w.ent
      BY <1>6, <1>7, <2>1 DEF Charged, In
    <2>3. \A r \in Sessions : r # s => tx[r].op # "validate"
      BY <1>8 DEF FundInv, OneApprover
    <2>4. Idle.op # "validate"
      BY DEF Idle
    <2>5. \A r \in Sessions : tx'[r].op # "validate"
      BY <1>5, <2>3, <2>4
    <2>6. OneApprover'
      BY <2>5 DEF OneApprover
    <2>7. ASSUME NEW r \in Sessions, tx'[r] # Idle PROVE TxFund(tx'[r], Charged')
      <3>1. TxFund(tx[r], Charged) /\ tx'[r].op = tx[r].op /\ tx'[r].writes = tx[r].writes
        BY <1>5, <2>7 DEF FundInv
      <3> QED BY <2>5, <3>1 DEF TxFund
    <2> QED BY <1>7, <2>1, <2>2, <2>6, <2>7 DEF FundInv, FundStep
  <1>9. CASE tx[s].op # "validate"
    <2>1. \A b \in DOMAIN w.ent : w.ent[b] # "approved"
      BY <1>3, <1>9 DEF TxFund
    <2>2. \A b \in Beneficiaries : ent'[b] = "approved" => ent[b] = "approved"
      BY <1>6, <2>1
    <2>3. FundInv'
      BY <1>1, <1>5, <2>2, FundFrame
    <2> QED BY <2>2, <2>3 DEF FundStep, Charged, In
  <1> QED BY <1>8, <1>9

\* The handlers that rewrite entitlements approve none.
LEMMA RewriteFund ==
    ASSUME JobsInv, FundInv, RejectCycle \/ ResetCycle
    PROVE  FundInv' /\ FundStep
  <1>1. PICK to \in {"draft", "cancelled"}, S \in SUBSET Beneficiaries :
           ent' = Over(ent, To(to, S)) /\ tx' = Invalidate(tx, {"entitlement"} \X S)
    <2>1. In({"pending_validation"}) \in SUBSET Beneficiaries
          /\ In({"pending_validation", "cancelled"}) \in SUBSET Beneficiaries
      BY DEF In
    <2> QED BY <2>1 DEF RejectCycle, ResetCycle
  <1>2. \A b \in Beneficiaries : ent'[b] = "approved" => ent[b] = "approved"
    BY <1>1 DEF Over, To
  <1>3. tx \in [Sessions -> Transactions \cup {Idle}] /\ TypeOK
    BY DEF JobsInv, TypeOK
  <1>4. \A s \in Sessions : tx'[s] # Idle =>
           /\ tx[s] # Idle
           /\ tx'[s].op = tx[s].op /\ tx'[s].writes = tx[s].writes
           /\ ~tx'[s].stale => ~tx[s].stale
    BY <1>1, <1>3, InvalidateOK
  <1>5. FundInv'
    BY <1>2, <1>3, <1>4, FundFrame
  <1> QED BY <1>2, <1>5 DEF FundStep, Charged, In

\* Steps that touch no entitlement and begin no transaction.
LEMMA QuietFund ==
    ASSUME JobsInv, FundInv, UNCHANGED ent,
           \A s \in Sessions : tx'[s] = Idle \/ tx'[s] = tx[s]
    PROVE  FundInv' /\ FundStep
  <1>1. TypeOK
    BY DEF JobsInv
  <1>2. FundInv'
    BY <1>1, FundFrame
  <1> QED BY <1>2 DEF FundStep, Charged, In

LEMMA FundNext ==
    ASSUME "validate" \notin Direct, JobsInv, FundInv, [Next]_vars
    PROVE  FundInv' /\ FundStep
  <1> DEFINE Goal == FundInv' /\ FundStep
  <1>1. ASSUME UNCHANGED ent, FundInv' PROVE Goal
    BY <1>1 DEF FundStep, Charged, In
  <1>2. ASSUME NEW op \in {"eligibility", "prepare", "validate", "payments"}, Dispatch(op)
        PROVE  Goal
    BY <1>2, QuietFund DEF Dispatch, data
  <1>3. ASSUME SubmitCycle \/ ApproveCycle \/ ArchiveProgram \/ ForceUnlock \/ UNCHANGED vars
        PROVE  Goal
    BY <1>3, QuietFund DEF SubmitCycle, ApproveCycle, ArchiveProgram, ForceUnlock, vars, data
  <1>4. ASSUME NEW c \in Clerks,
               NEW op \in {"eligibility", "prepare", "validate", "payments"},
               StartRequest(c, op)
        PROVE  Goal
    BY <1>1, <1>4, StartRequestFund DEF StartRequest, data
  <1>5. ASSUME NEW i \in Slots, NEW S \in pipelines[i].todo, FailJob(i, S)
        PROVE  Goal
    BY <1>5, QuietFund DEF FailJob, data
  <1>6. ASSUME NEW i \in Slots, NEW S \in pipelines[i].todo, NEW s \in Workers,
               StartJob(s, i, S)
        PROVE  Goal
    BY <1>1, <1>6, StartJobFund DEF StartJob, data
  <1>7. ASSUME NEW i \in Slots, Callback(i) PROVE Goal
    BY <1>7, QuietFund DEF Callback, data
  <1>8. ASSUME NEW s \in Sessions, Commit(s) \/ CommitUnnoticed(s) PROVE Goal
    BY <1>8, CommitFund DEF Commit, CommitUnnoticed
  <1>9. ASSUME NEW s \in Sessions, Retry(s) PROVE Goal
    <2>1. \A r \in Sessions : tx'[r] = Idle \/ tx'[r] = tx[r]
      BY <1>9 DEF Retry, JobsInv, TypeOK
    <2> QED BY <1>9, <2>1, QuietFund DEF Retry, data
  <1>10. ASSUME Restart PROVE Goal
    <2>1. \A r \in Sessions : tx'[r] = Idle
      BY <1>10 DEF Restart
    <2> QED BY <1>10, <2>1, QuietFund DEF Restart, data
  <1>11. ASSUME RejectCycle \/ ResetCycle PROVE Goal
    BY <1>11, RewriteFund
  <1> HIDE DEF Goal
  <1>12. ASSUME UserNext PROVE Goal
    BY <1>2, <1>3, <1>4, <1>11, <1>12 DEF UserNext
  <1>13. ASSUME JobNext PROVE Goal
    BY <1>5, <1>6, <1>7, <1>8, <1>9, <1>10, <1>13 DEF JobNext
  <1>14. Goal
    BY <1>3, <1>12, <1>13 DEF Next
  <1> QED BY <1>14 DEF Goal

\* The fund's own words for it.
LEMMA FundMoves == ASSUME FundStep PROVE [F!Next]_<<Posted, In({"approved"})>>
  <1>1. CASE Charged' \in SUBSET Charged
    BY <1>1 DEF Charged, F!Next, F!Release
  <1>2. ASSUME NEW P \in SUBSET Beneficiaries,
               Charged' = Charged \cup P, Total(Charged \cup P) <= Posted
        PROVE  [F!Next]_<<Posted, In({"approved"})>>
    <2> DEFINE S == P \ Charged
               U == Charged \cup P
    <2>1. S \in SUBSET (Beneficiaries \ Charged) /\ Charged \cup S = U
      OBVIOUS
    <2>2. U \in SUBSET Beneficiaries
      BY DEF Charged, In
    <2>3. Charged' = U /\ Total(U) <= Posted
      BY <1>2
    <2>4. S = {} => Charged' = Charged
      BY <1>2
    <2> HIDE DEF U, S
    <2>5. F!Cost(U) = Total(U)
      <3>1. F!Cost(U) = SumFunctionOnSet(Amount, U)
        BY DEF F!Cost, F!MapThenSumSet, F!MapThenFoldSet, SumFunctionOnSet,
               FoldFunctionOnSet, MapThenFoldSet
      <3> QED BY <2>2, <3>1, TotalSum
    <2>6. F!Cost(Charged \cup S) <= Posted /\ Charged' = Charged \cup S
      BY <2>1, <2>3, <2>5
    <2>7. CASE S = {}
      BY <2>4, <2>7 DEF Charged
    <2>8. CASE S # {}
      BY <2>1, <2>6, <2>8 DEF F!Next, F!Charge, Charged
    <2> QED BY <2>7, <2>8
  <1> QED BY <1>1, <1>2 DEF FundStep

\* While approvals run as jobs, in the channel that takes one at a time, they
\* implement the fund: over any overlap of pipelines, retries, repetitions and
\* crashes, what is approved never exceeds what the fund holds.
THEOREM JobsImplementFund ==
    ASSUME "validate" \notin Direct
    PROVE  Spec => FundSpec
  <1>1. ASSUME Init PROVE FundInv /\ F!Init
    <2>1. \A s \in Sessions : tx[s] = Idle
      BY <1>1 DEF Init
    <2>2. Idle.op # "validate"
      BY DEF Idle
    <2>3. In({"approved"}) = {}
      BY <1>1 DEF Init, In, To
    <2> QED BY <2>1, <2>2, <2>3, JobsAssumption DEF FundInv, OneApprover, F!Init
  <1>2. JobsInv /\ FundInv /\ [Next]_vars => FundInv' /\ [F!Next]_<<Posted, In({"approved"})>>
    BY FundNext, FundMoves
  <1> QED BY <1>1, <1>2, JobsInvariance, PTL DEF Spec, FundSpec, F!Spec

-----------------------------------------------------------------------------
(* The lock *)

\* Whoever locked the cycle left a group that calls back, or found its jobs in one.
LockHeld == locked => \E i \in Slots : pipelines[i] # Free

LEMMA EnqueueHolds ==
    ASSUME TypeOK, NEW op \in Operations, NEW jobs, jobs # {}, Enqueue(op, jobs)
    PROVE  LockHeld'
<1>1. op # "none"
  BY DEF Operations, Channel
<1>2. CASE Fresh(op, jobs) = {} /\ UNCHANGED pipelines
  <2>1. jobs \cap UnderWay(op) # {}
    BY <1>2 DEF Fresh
  <2>2. PICK i \in Slots : pipelines[i].op = op
    BY <2>1 DEF UnderWay
  <2>3. pipelines[i] # Free
    BY <1>1, <2>2 DEF Free
  <2>. QED BY <1>2, <2>3 DEF LockHeld
<1>3. CASE Fresh(op, jobs) # {}
  <2> DEFINE group == [op |-> op, todo |-> Fresh(op, jobs), failed |-> FALSE]
  <2>1. PICK i \in Slots : pipelines' = [pipelines EXCEPT ![i] = group]
    BY <1>3 DEF Enqueue, FreeSlots
  <2>2. group # Free
    BY <1>1 DEF Free
  <2>3. pipelines'[i] = group
    BY <2>1 DEF TypeOK
  <2>. QED BY <2>2, <2>3 DEF LockHeld
<1>. QED BY <1>2, <1>3 DEF Enqueue

LEMMA EnqueueIfHolds ==
    ASSUME TypeOK, LockHeld, NEW op \in Operations, NEW jobs, EnqueueIf(op, jobs)
    PROVE  LockHeld'
<1>1. CASE jobs = {}
  BY <1>1 DEF EnqueueIf, LockHeld
<1>2. CASE jobs # {}
  BY <1>2, EnqueueHolds DEF EnqueueIf
<1>. QED BY <1>1, <1>2

\* A group that is under way has an operation, also after a step.
LEMMA GroupHasOp ==
    ASSUME NEW g \in Pipeline \cup {Free}
    PROVE  g # Free <=> g.op # "none"
BY DEF Pipeline, Free, Operations, Channel

LEMMA GroupsKept ==
    ASSUME TypeOK, TypeOK', LockHeld, locked' => locked,
           \A i \in Slots : pipelines'[i].op = pipelines[i].op
    PROVE  LockHeld'
<1>1. \A i \in Slots : pipelines[i] # Free <=> pipelines[i].op # "none"
  BY GroupHasOp DEF TypeOK
<1>2. \A i \in Slots : pipelines'[i] # Free <=> pipelines'[i].op # "none"
  BY GroupHasOp DEF TypeOK
<1>. QED BY <1>1, <1>2 DEF LockHeld

LEMMA RequeueKeeps ==
    ASSUME TypeOK, NEW s, Requeue(s)
    PROVE  \A i \in Slots : pipelines'[i].op = pipelines[i].op
<1> SUFFICES ASSUME NEW i \in Slots PROVE pipelines'[i].op = pipelines[i].op
  OBVIOUS
<1>1. pipelines[i] \in Pipeline \cup {Free}
  BY DEF TypeOK
<1>2. pipelines'[i] = pipelines[i]
      \/ pipelines'[i] = [pipelines[i] EXCEPT !.todo = @ \cup {tx[s].rows}]
  BY DEF Requeue, TypeOK
<1>. QED BY <1>1, <1>2 DEF Pipeline, Free

LEMMA LockNext ==
    ASSUME JobsInv, JobsInv', LockHeld, ~Crashes, [Next]_vars
    PROVE  LockHeld'
<1>1. TypeOK /\ TypeOK'
  BY DEF JobsInv
<1>2. {"eligibility", "prepare", "validate", "payments", "pending", "cancel"}
         \subseteq Operations
  BY DEF Operations, Channel
<1>3. ASSUME NEW op \in {"eligibility", "prepare", "validate", "payments"}, Dispatch(op)
      PROVE  LockHeld'
  <2> DEFINE jobs == IF op = "payments" THEN {RowsFor(op)} ELSE Chunks(RowsFor(op))
  <2>1. Enqueue(op, jobs) /\ RowsFor(op) # {}
    BY <1>3 DEF Dispatch
  <2>2. jobs # {}
    BY <2>1 DEF Chunks
  <2> HIDE DEF jobs
  <2>. QED BY <1>1, <1>2, <1>3, <2>1, <2>2, EnqueueHolds
<1>4. CASE SubmitCycle \/ ApproveCycle \/ ArchiveProgram
  <2>1. \/ \E op \in Operations : \E jobs : EnqueueIf(op, jobs)
        \/ UNCHANGED <<pipelines, locked>>
    BY <1>2, <1>4 DEF SubmitCycle, ApproveCycle, ArchiveProgram
  <2>. QED BY <1>1, <2>1, EnqueueIfHolds DEF LockHeld
<1>5. CASE RejectCycle \/ ResetCycle
  BY <1>5 DEF RejectCycle, ResetCycle, LockHeld
<1>6. CASE ForceUnlock \/ Restart \/ \E s \in Sessions : CommitUnnoticed(s)
  BY <1>6 DEF ForceUnlock, Restart, CommitUnnoticed
<1>7. ASSUME NEW c \in Clerks,
             NEW op \in {"eligibility", "prepare", "validate", "payments"},
             StartRequest(c, op)
      PROVE  LockHeld'
  BY <1>7 DEF StartRequest, LockHeld
<1>8. ASSUME NEW i \in Slots, NEW S \in pipelines[i].todo,
             FailJob(i, S) \/ \E s \in Workers : StartJob(s, i, S)
      PROVE  LockHeld'
  <2>1. pipelines[i] \in Pipeline
    BY <1>1, <1>8 DEF TypeOK, Free
  <2>2. /\ UNCHANGED locked
        /\ \/ pipelines' = [pipelines EXCEPT ![i].todo = @ \ {S}]
           \/ pipelines' = [pipelines EXCEPT ![i].todo = @ \ {S}, ![i].failed = TRUE]
    BY <1>8 DEF FailJob, StartJob
  <2>3. ASSUME NEW j \in Slots PROVE pipelines'[j].op = pipelines[j].op
    <3>1. CASE j = i
      BY <1>1, <2>1, <2>2, <3>1 DEF TypeOK, Pipeline
    <3>2. CASE j # i
      BY <1>1, <2>2, <3>2 DEF TypeOK
    <3>. QED BY <3>1, <3>2
  <2>. QED BY <1>1, <2>2, <2>3, GroupsKept
<1>9. ASSUME NEW i \in Slots, Callback(i) PROVE LockHeld'
  BY <1>9 DEF Callback, LockHeld
<1>10. ASSUME NEW s \in Sessions, Commit(s) PROVE LockHeld'
  BY <1>10 DEF Commit, LockHeld
<1>11. ASSUME NEW s \in Sessions, Retry(s) PROVE LockHeld'
  BY <1>1, <1>11, RequeueKeeps, GroupsKept DEF Retry
<1>12. CASE UNCHANGED vars
  BY <1>12 DEF vars, LockHeld
<1>. QED
  BY <1>3, <1>4, <1>5, <1>6, <1>7, <1>8, <1>9, <1>10, <1>11, <1>12
     DEF Next, UserNext, JobNext

\* While no server restarts nobody is locked out for nothing: as long as the lock
\* is held some group is under way whose callback clears it, even if the jobs of
\* the one that set it were all queued already or another callback came before.
THEOREM LockHasHolder ==
    ASSUME ~Crashes
    PROVE  Spec => []LockHeld
<1>1. Init => LockHeld
  BY DEF Init, LockHeld
<1>2. JobsInv /\ JobsInv' /\ LockHeld /\ [Next]_vars => LockHeld'
  BY LockNext
<1>. QED BY <1>1, <1>2, JobsInvariance, PTL DEF Spec

=============================================================================
