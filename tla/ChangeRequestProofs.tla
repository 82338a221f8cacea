------------------------ MODULE ChangeRequestProofs ------------------------
(***************************************************************************)
(* Proofs about ChangeRequest for every set of requests, fields, values    *)
(* and types with any rules: what is applied is what was routed, the       *)
(* approval state moves as the mixin promises, and submitted requests that *)
(* block each other were let through by an override, a batch or an overlap.*)
(*                                                                         *)
(* The argument: a handler on a stale snapshot writes the rows it decided  *)
(* upon, so it commits only if these rows are as its snapshot has them;    *)
(* and the details of a submitted request are those it was routed with.    *)
(***************************************************************************)
EXTENDS ChangeRequest, TLAPS

Filed == {"pending", "approved"}

\* The details of a submitted request are those it was routed with.
FiledAsRouted == \A r \in Requests : state[r] \in Filed => routed[r] = detail[r]

\* What a snapshot s still knows: of rows that were not written since.
Current(s) == \A r \in Requests :
    /\ <<"request", r>> \notin dirty =>
          /\ s.state[r] = state[r]
          /\ s.state[r] \in Filed => s.detail[r] = routed[r]
    /\ <<"detail", r>> \notin dirty =>
          /\ s.detail[r] = detail[r]
          /\ s.state[r] = state[r] \/ {s.state[r], state[r]} \subseteq Filed

SnapshotIsCurrent == \A s \in Snapshot : snap = <<s>> => Current(s)

\* The inductive invariant.
RequestInv == TypeOK /\ FiledAsRouted /\ SnapshotIsCurrent

-----------------------------------------------------------------------------
(* Snapshots and commits *)

LEMMA NowTyped == ASSUME TypeOK PROVE Now \in Snapshot
BY DEF TypeOK, Now, Snapshot

LEMMA ViewsTyped == ASSUME TypeOK, NEW s \in Views PROVE s \in Snapshot
<1>1. CASE s = Now
  BY <1>1, NowTyped
<1>2. CASE s # Now
  <2>1. snap # <<>> /\ \E i \in DOMAIN snap : s = snap[i]
    BY <1>2 DEF Views
  <2>2. PICK q \in Snapshot : snap = <<q>>
    BY <2>1 DEF TypeOK
  <2>. QED BY <2>1, <2>2
<1>. QED BY <1>1, <1>2

\* What a handler that commits knows of the requests whose rows it writes.
LEMMA Consistent ==
    ASSUME RequestInv, NEW s \in Snapshot, NEW w, Commit(w, s), NEW r \in Requests
    PROVE  /\ <<"request", r>> \in w =>
                 /\ s.state[r] = state[r]
                 /\ s.state[r] \in Filed => s.detail[r] = routed[r]
           /\ <<"detail", r>> \in w =>
                 /\ s.detail[r] = detail[r]
                 /\ s.state[r] = state[r] \/ {s.state[r], state[r]} \subseteq Filed
<1>1. CASE s = Now
  BY <1>1 DEF RequestInv, FiledAsRouted, Now
<1>2. CASE snap = <<s>> /\ w \cap dirty = {}
  <2>1. Current(s)
    BY <1>2 DEF RequestInv, SnapshotIsCurrent
  <2>. QED BY <1>2, <2>1 DEF Current
<1>. QED BY <1>1, <1>2 DEF Commit

\* Commits keep the snapshot and the written rows well typed.
LEMMA CommitTyped ==
    ASSUME TypeOK, NEW s, NEW w, w \subseteq Row, Commit(w, s)
    PROVE  /\ snap' \in {<<>>} \cup {<<q>> : q \in Snapshot}
           /\ dirty' \subseteq Row
           /\ snap' # <<>> => snap' = snap /\ dirty' = dirty \cup w
BY DEF Commit, TypeOK

\* A handler that writes w changes at most the request q, and its state, detail
\* and routing only with the rows they are in.
LEMMA CommitKeeps ==
    ASSUME RequestInv, TypeOK', NEW s, NEW w, w \subseteq Row, Commit(w, s),
           NEW q \in Requests,
           \A r \in Requests \ {q} : /\ state'[r] = state[r] /\ detail'[r] = detail[r]
                                     /\ routed'[r] = routed[r],
           <<"request", q>> \in w \/ (state'[q] = state[q] /\ routed'[q] = routed[q]),
           <<"detail", q>> \in w \/
              /\ detail'[q] = detail[q]
              /\ state'[q] = state[q] \/ {state[q], state'[q]} \subseteq Filed,
           state'[q] \in Filed => routed'[q] = detail'[q]
    PROVE  RequestInv'
<1>1. FiledAsRouted'
  BY DEF FiledAsRouted, RequestInv
<1>2. ASSUME NEW v \in Snapshot, snap' = <<v>> PROVE Current(v)'
  <2>1. snap = <<v>> /\ dirty' = dirty \cup w
    <3>1. snap' # <<>>
      BY <1>2
    <3>. QED BY <3>1, <1>2, CommitTyped DEF RequestInv
  <2>2. Current(v)
    BY <2>1 DEF RequestInv, SnapshotIsCurrent
  <2>3. ASSUME NEW r \in Requests, <<"request", r>> \notin dirty'
        PROVE  /\ v.state[r] = state'[r]
               /\ v.state[r] \in Filed => v.detail[r] = routed'[r]
    BY <2>1, <2>2, <2>3 DEF Current
  <2>4. ASSUME NEW r \in Requests, <<"detail", r>> \notin dirty'
        PROVE  /\ v.detail[r] = detail'[r]
               /\ v.state[r] = state'[r] \/ {v.state[r], state'[r]} \subseteq Filed
    <3>1. <<"detail", r>> \notin dirty /\ (r = q => <<"detail", q>> \notin w)
      BY <2>1, <2>4
    <3>2. /\ v.detail[r] = detail[r]
          /\ v.state[r] = state[r] \/ {v.state[r], state[r]} \subseteq Filed
      BY <3>1, <2>2 DEF Current
    <3>3. /\ detail'[r] = detail[r]
          /\ state'[r] = state[r] \/ {state[r], state'[r]} \subseteq Filed
      BY <3>1
    <3>. QED BY <3>2, <3>3
  <2>. QED BY <2>3, <2>4 DEF Current
<1>. QED BY <1>1, <1>2 DEF RequestInv, SnapshotIsCurrent

LEMMA RowsOf == ASSUME NEW r \in Requests
                PROVE  /\ Both(r) \subseteq Row
                       /\ <<"request", r>> \in Both(r) /\ <<"detail", r>> \in Both(r)
                       /\ \A s : AppliedRows(r, s) \subseteq Row
BY DEF Both, Row, AppliedRows

LEMMA CheckedTyped == ASSUME TypeOK, NEW r \in Requests, NEW s
                      PROVE  Checked(r, s) \in Statuses
BY DEF Checked, Detected, DetectedBy, Statuses

-----------------------------------------------------------------------------
(* The inductive invariant *)

LEMMA InitInv == Init => RequestInv
<1>. SUFFICES ASSUME Init PROVE RequestInv
  OBVIOUS
<1>1. TypeOK
  <2>1. (CHOOSE t \in Types : TRUE) \in Types
    BY RequestAssumption
  <2>. QED BY <2>1, RequestAssumption DEF Init, TypeOK, LiveStates, Statuses, Content
<1>2. FiledAsRouted /\ SnapshotIsCurrent
  BY DEF Init, FiledAsRouted, SnapshotIsCurrent, Filed
<1>. QED BY <1>1, <1>2 DEF RequestInv

\* Steps that write no row.
LEMMA OpenedOrGivenUp == ASSUME RequestInv, Begin \/ Abort \/ UNCHANGED vars
                         PROVE  RequestInv'
<1>1. UNCHANGED <<rows, routed, excused>>
  BY DEF Begin, Abort, vars, rows
<1>2. TypeOK'
  BY <1>1, NowTyped DEF RequestInv, TypeOK, rows, Begin, Abort, vars
<1>3. FiledAsRouted'
  BY <1>1 DEF RequestInv, FiledAsRouted, rows
<1>4. SnapshotIsCurrent'
  <2>1. CASE Begin
    <3>1. Current(Now)'
      BY <1>1, <2>1 DEF Current, Now, RequestInv, FiledAsRouted, rows
    <3>2. Now' = Now
      BY <1>1 DEF Now, rows
    <3>3. ASSUME NEW s \in Snapshot, snap' = <<s>> PROVE Current(s)'
      <4>1. s = Now
        BY <2>1, <3>3 DEF Begin
      <4>2. /\ Now.state = state /\ Now.detail = detail
        BY DEF Now
      <4>. QED BY <1>1, <4>1, <4>2 DEF Current, RequestInv, FiledAsRouted, rows
    <3>. QED BY <3>3 DEF SnapshotIsCurrent
  <2>2. CASE Abort
    BY <2>2 DEF Abort, SnapshotIsCurrent
  <2>3. CASE UNCHANGED vars
    BY <2>3 DEF vars, SnapshotIsCurrent, Current, RequestInv
  <2>. QED BY <2>1, <2>2, <2>3
<1>. QED BY <1>2, <1>3, <1>4 DEF RequestInv

LEMMA CreateKeeps ==
    ASSUME RequestInv, NEW r \in Requests, NEW t \in Types, Create(r, t)
    PROVE  RequestInv'
<1>1. Commit(Both(r), Now) /\ Both(r) \subseteq Row
  BY RowsOf DEF Create
<1>2. TypeOK'
  <2>1. DetectedBy(t, r, [Now EXCEPT !.detail[r] = registrant]) \in Statuses
    BY DEF DetectedBy, Statuses
  <2>2. status' \in [Requests -> Statuses]
    BY <2>1 DEF Create, RequestInv, TypeOK, Statuses
  <2>. QED BY <1>1, <2>2, CommitTyped DEF RequestInv, Create, TypeOK, LiveStates
<1>3. state'[r] = "draft"
  BY DEF Create, RequestInv, TypeOK
<1>4. \A q \in Requests \ {r} : state'[q] = state[q] /\ detail'[q] = detail[q]
                                /\ routed'[q] = routed[q]
  BY DEF Create, RequestInv, TypeOK
<1>. QED BY <1>1, <1>2, <1>3, <1>4, RowsOf, CommitKeeps DEF Filed

\* Whatever snapshot it reads, an edit only reaches a request that is not filed:
\* the detail's row holds a copy of the state.
LEMMA EditsUnfiled ==
    ASSUME RequestInv, NEW r \in Requests, NEW f \in Fields, NEW v \in Values,
           NEW s \in Views, Edit(r, f, v, s)
    PROVE  state[r] \notin Filed
<1>1. PICK w : Commit(w, s) /\ <<"detail", r>> \in w
  BY RowsOf DEF Edit
<1>2. s.state[r] = state[r] \/ {s.state[r], state[r]} \subseteq Filed
  BY <1>1, ViewsTyped, Consistent DEF RequestInv
<1>3. s.state[r] \notin Filed
  BY DEF Edit, Editable, Filed
<1>. QED BY <1>2, <1>3

LEMMA EditKeeps ==
    ASSUME RequestInv, NEW r \in Requests, NEW f \in Fields, NEW v \in Values,
           NEW s \in Views, Edit(r, f, v, s)
    PROVE  RequestInv'
<1>. DEFINE w == IF Config(r).dynamic /\ selected[r] = f THEN Both(r)
                 ELSE {<<"detail", r>>}
<1>1. Commit(w, s) /\ w \subseteq Row /\ <<"detail", r>> \in w
  BY RowsOf DEF Edit, Row
<1>2. s \in Snapshot
  BY ViewsTyped DEF RequestInv
<1>. HIDE DEF w
<1>3. TypeOK'
  <2>1. status' \in [Requests -> Statuses]
    BY CheckedTyped DEF Edit, Sync, RequestInv, TypeOK
  <2>2. detail' \in [Requests -> Content]
    BY DEF Edit, RequestInv, TypeOK, Content
  <2>3. snap' \in {<<>>} \cup {<<q>> : q \in Snapshot} /\ dirty' \subseteq Row
    BY <1>1, CommitTyped DEF RequestInv
  <2>. QED BY <2>1, <2>2, <2>3 DEF RequestInv, Edit, TypeOK
<1>4. state[r] \notin Filed
  BY EditsUnfiled
<1>5. \A q \in Requests \ {r} : detail'[q] = detail[q]
  BY DEF Edit, RequestInv, TypeOK
<1>6. UNCHANGED <<state, routed>>
  BY DEF Edit
<1>. QED BY <1>1, <1>3, <1>4, <1>5, <1>6, CommitKeeps

LEMMA SelectFieldKeeps ==
    ASSUME RequestInv, NEW r \in Requests, NEW f \in Fields, NEW s \in Views,
           SelectField(r, f, s)
    PROVE  RequestInv'
<1>1. Commit(Both(r), s) /\ Both(r) \subseteq Row
  BY RowsOf DEF SelectField
<1>2. TypeOK'
  <2>1. status' \in [Requests -> Statuses]
    BY CheckedTyped DEF SelectField, Sync, RequestInv, TypeOK
  <2>. QED BY <1>1, <2>1, CommitTyped DEF RequestInv, SelectField, TypeOK
<1>3. UNCHANGED <<state, detail, routed>>
  BY DEF SelectField
<1>. QED BY <1>1, <1>2, <1>3, CommitKeeps DEF RequestInv, FiledAsRouted

\* Handlers that write the status of r and nothing that was routed.
LEMMA RecheckKeeps ==
    ASSUME RequestInv, NEW r \in Requests, NEW s \in Views, Recheck(r, s) \/ Override(r)
    PROVE  RequestInv'
<1>1. PICK q \in Views : Commit({<<"request", r>>}, q)
  BY DEF Recheck, Override, Views
<1>2. {<<"request", r>>} \subseteq Row
  BY DEF Row
<1>3. TypeOK'
  <2>1. status' \in [Requests -> Statuses]
    BY CheckedTyped DEF Recheck, Override, RequestInv, TypeOK, Statuses
  <2>2. snap' \in {<<>>} \cup {<<z>> : z \in Snapshot} /\ dirty' \subseteq Row
    BY <1>1, <1>2, CommitTyped DEF RequestInv
  <2>. QED BY <2>1, <2>2 DEF RequestInv, Recheck, Override, TypeOK
<1>4. UNCHANGED <<state, detail, routed>>
  BY DEF Recheck, Override
<1>. QED BY <1>1, <1>2, <1>3, <1>4, CommitKeeps DEF RequestInv, FiledAsRouted

LEMMA SubmitKeeps ==
    ASSUME RequestInv, NEW r \in Requests, NEW s \in Views, Submit(r, s)
    PROVE  RequestInv'
<1>1. Commit(Both(r), s) /\ Both(r) \subseteq Row /\ s \in Snapshot
  BY RowsOf, ViewsTyped DEF Submit, RequestInv
<1>2. s.detail[r] = detail[r]
  BY <1>1, RowsOf, Consistent
<1>3. TypeOK'
  <2>1. status' \in [Requests -> Statuses] /\ excused' \subseteq Requests
    BY CheckedTyped DEF Submit, Record, RequestInv, TypeOK
  <2>2. routed' \in [Requests -> Content \cup {Unsubmitted}]
    BY <1>2 DEF Submit, RequestInv, TypeOK
  <2>. QED BY <1>1, <2>1, <2>2, CommitTyped DEF RequestInv, Submit, TypeOK, LiveStates
<1>4. /\ routed'[r] = detail'[r]
      /\ \A q \in Requests \ {r} : state'[q] = state[q] /\ detail'[q] = detail[q]
                                   /\ routed'[q] = routed[q]
  BY <1>2 DEF Submit, RequestInv, TypeOK
<1>. QED BY <1>1, <1>3, <1>4, RowsOf, CommitKeeps

\* A record [f \in Fields |-> ...] of the strategy has values of the registrant.
LEMMA WrittenTyped == ASSUME TypeOK, NEW r \in Requests, NEW s \in Snapshot
                      PROVE  Written(r, s) \in Content
<1>1. s.detail[r] \in Content /\ registrant \in Content
  BY DEF Snapshot, TypeOK
<1>. QED BY <1>1 DEF Written, Content

LEMMA ApproveKeeps ==
    ASSUME RequestInv, NEW r \in Requests, NEW s \in Views,
           Approve(r, s) \/ ApproveSwallowing(r, s) \/ Apply(r, s)
    PROVE  RequestInv'
<1>1. PICK w : w \subseteq Row /\ <<"request", r>> \in w /\ Commit(w, s)
  <2>1. /\ Both(r) \cup AppliedRows(r, s) \subseteq Row
        /\ <<"request", r>> \in Both(r) \cup AppliedRows(r, s)
        /\ {<<"request", r>>} \cup AppliedRows(r, s) \subseteq Row
        /\ {<<"request", r>>} \subseteq Row
        /\ Both(r) \subseteq Row
    BY RowsOf
  <2>2. CASE Approve(r, s)
    BY <2>1, <2>2, RowsOf DEF Approve
  <2>3. CASE ApproveSwallowing(r, s)
    BY <2>1, <2>3 DEF ApproveSwallowing
  <2>4. CASE Apply(r, s)
    BY <2>1, <2>4 DEF Apply
  <2>. QED BY <2>2, <2>3, <2>4
<1>2. s \in Snapshot
  BY ViewsTyped DEF RequestInv
<1>3. state[r] \in Filed
  <2>1. s.state[r] = state[r]
    BY <1>1, <1>2, Consistent
  <2>. QED BY <2>1 DEF Filed, Approve, ApproveSwallowing, Apply
<1>4. TypeOK'
  <2>1. registrant' \in Content
    BY <1>2, WrittenTyped DEF Approve, ApproveSwallowing, Apply, DoApply, RequestInv, TypeOK
  <2>2. status' \in [Requests -> Statuses]
    BY CheckedTyped DEF Approve, ApproveSwallowing, Apply, Record, RequestInv, TypeOK
  <2>3. excused' \subseteq Requests /\ applied' \subseteq Requests
    BY DEF Approve, ApproveSwallowing, Apply, DoApply, Record, RequestInv, TypeOK
  <2>4. state' \in [Requests -> LiveStates \cup {"absent"}]
    BY DEF Approve, ApproveSwallowing, Apply, RequestInv, TypeOK, LiveStates
  <2>5. snap' \in {<<>>} \cup {<<z>> : z \in Snapshot} /\ dirty' \subseteq Row
    BY <1>1, CommitTyped DEF RequestInv
  <2>6. UNCHANGED <<type, selected, detail, routed>>
    BY DEF Approve, ApproveSwallowing, Apply
  <2>. QED BY <2>1, <2>2, <2>3, <2>4, <2>5, <2>6 DEF RequestInv, TypeOK
<1>5. /\ UNCHANGED <<detail, routed>>
      /\ state'[r] \in Filed
      /\ \A q \in Requests \ {r} : state'[q] = state[q]
  BY <1>3 DEF Approve, ApproveSwallowing, Apply, RequestInv, TypeOK, Filed
<1>6. routed[r] = detail[r]
  BY <1>3 DEF RequestInv, FiledAsRouted
<1>7. <<"detail", r>> \in w \/ {state[r], state'[r]} \subseteq Filed
  BY <1>3, <1>5
<1>. QED BY <1>1, <1>4, <1>5, <1>6, <1>7, CommitKeeps

LEMMA MoveKeeps ==
    ASSUME RequestInv, NEW r \in Requests, NEW from, NEW to \in LiveStates \ Filed,
           Move(r, from, to)
    PROVE  RequestInv'
<1>1. PICK w : /\ Commit(w, Now) /\ w \subseteq Row
               /\ <<"request", r>> \in w /\ <<"detail", r>> \in w
  BY RowsOf DEF Move
<1>2. TypeOK'
  BY <1>1, CommitTyped DEF RequestInv, Move, TypeOK
<1>3. /\ state'[r] \notin Filed
      /\ \A q \in Requests \ {r} : state'[q] = state[q]
      /\ UNCHANGED <<detail, routed>>
  BY DEF Move, RequestInv, TypeOK
<1>. QED BY <1>1, <1>2, <1>3, CommitKeeps

LEMMA RecheckedTyped ==
    ASSUME TypeOK, NEW rs, NEW q, NEW to
    PROVE  Rechecked(rs, q, to) \in [Requests -> Statuses]
BY CheckedTyped DEF Rechecked, TypeOK

LEMMA CancelKeeps ==
    ASSUME RequestInv, NEW q \in Requests, NEW rs \in Resolving(q),
           CancelPending(q, rs) \/ CancelDraft(q, rs)
    PROVE  RequestInv'
<1>. DEFINE w == Both(q) \cup {<<"request", r>> : r \in rs}
<1>1. rs \subseteq Requests
  BY DEF Resolving
<1>2. /\ w \subseteq Row
      /\ <<"request", q>> \in w /\ <<"detail", q>> \in w
      /\ Commit(w, Now)
  <2>1. \A r \in rs : <<"request", r>> \in Row
    BY <1>1 DEF Row
  <2>2. Commit(w, Now)
    BY DEF CancelPending, CancelDraft
  <2>3. Both(q) \subseteq Row /\ <<"request", q>> \in Both(q) /\ <<"detail", q>> \in Both(q)
    BY RowsOf
  <2>. QED BY <2>1, <2>2, <2>3
<1>. HIDE DEF w
<1>3. TypeOK'
  <2>1. status' \in [Requests -> Statuses]
    <3>1. CASE CancelPending(q, rs)
      BY <3>1, RecheckedTyped DEF RequestInv, CancelPending
    <3>2. CASE CancelDraft(q, rs)
      <4>. DEFINE c == Rechecked(rs, q, "absent")
      <4>1. c \in [Requests -> Statuses]
        BY RecheckedTyped DEF RequestInv
      <4>2. status' = [c EXCEPT ![q] = "none"]
        BY <3>2 DEF CancelDraft
      <4>. HIDE DEF c
      <4>. QED BY <4>1, <4>2 DEF Statuses
    <3>. QED BY <3>1, <3>2
  <2>2. detail' \in [Requests -> Content] /\ selected' \in [Requests -> Fields \cup {NoField}]
    <3>1. [f \in Fields |-> 0] \in Content
      BY RequestAssumption DEF Content
    <3>2. CASE CancelPending(q, rs)
      BY <3>2 DEF RequestInv, TypeOK, CancelPending
    <3>3. CASE CancelDraft(q, rs)
      BY <3>1, <3>3 DEF RequestInv, TypeOK, CancelDraft
    <3>. QED BY <3>2, <3>3
  <2>3. /\ routed' \in [Requests -> Content \cup {Unsubmitted}]
        /\ state' \in [Requests -> LiveStates \cup {"absent"}]
        /\ applied' \subseteq Requests /\ excused' \subseteq Requests
        /\ UNCHANGED <<type, registrant>>
    BY DEF RequestInv, TypeOK, CancelPending, CancelDraft, LiveStates
  <2>4. snap' \in {<<>>} \cup {<<z>> : z \in Snapshot} /\ dirty' \subseteq Row
    BY <1>2, CommitTyped DEF RequestInv
  <2>. QED BY <2>1, <2>2, <2>3, <2>4 DEF RequestInv, TypeOK
<1>4. /\ state'[q] \notin Filed
      /\ \A r \in Requests \ {q} : state'[r] = state[r] /\ detail'[r] = detail[r]
                                   /\ routed'[r] = routed[r]
  BY DEF CancelPending, CancelDraft, RequestInv, TypeOK, Filed
<1>. QED BY <1>2, <1>3, <1>4, CommitKeeps

LEMMA StepInv == RequestInv /\ [Next]_vars => RequestInv'
<1>. SUFFICES ASSUME RequestInv, [Next]_vars PROVE RequestInv'
  OBVIOUS
<1>1. CASE Begin \/ Abort \/ UNCHANGED vars
  BY <1>1, OpenedOrGivenUp
<1>2. ASSUME NEW r \in Requests, NEW t \in Types, Create(r, t) PROVE RequestInv'
  BY <1>2, CreateKeeps
<1>3. ASSUME NEW r \in Requests, Override(r) PROVE RequestInv'
  <2>1. Now \in Views
    BY DEF Views
  <2>. QED BY <1>3, <2>1, RecheckKeeps
<1>4. ASSUME NEW r \in Requests,
             ConfirmRejection(r) \/ RequestRevision(r) \/ ResetToDraft(r)
      PROVE  RequestInv'
  BY <1>4, MoveKeeps
     DEF ConfirmRejection, RequestRevision, ResetToDraft, LiveStates, Filed
<1>5. ASSUME NEW r \in Requests, NEW rs \in Resolving(r),
             CancelPending(r, rs) \/ CancelDraft(r, rs)
      PROVE  RequestInv'
  BY <1>5, CancelKeeps
<1>6. ASSUME NEW r \in Requests, NEW s \in Views, NEW f \in Fields, SelectField(r, f, s)
      PROVE  RequestInv'
  BY <1>6, SelectFieldKeeps
<1>7. ASSUME NEW r \in Requests, NEW s \in Views, NEW f \in Fields, NEW v \in Values,
             Edit(r, f, v, s)
      PROVE  RequestInv'
  BY <1>7, EditKeeps
<1>8. ASSUME NEW r \in Requests, NEW s \in Views,
             Recheck(r, s) \/ Submit(r, s) \/ Approve(r, s)
             \/ ApproveSwallowing(r, s) \/ Apply(r, s)
      PROVE  RequestInv'
  BY <1>8, RecheckKeeps, SubmitKeeps, ApproveKeeps
<1>. QED BY <1>1, <1>2, <1>3, <1>4, <1>5, <1>6, <1>7, <1>8 DEF Next

\* Every reachable state is well typed, a submitted request's details are those
\* it was routed with, and an open snapshot knows the rows not written since.
THEOREM RequestInvariance == Spec => []RequestInv
BY InitInv, StepInv, PTL DEF Spec

\* Every reachable state is well typed: the approval states, conflict statuses
\* and details of spp.change.request hold what their fields may hold.
THEOREM RequestTypeCorrect == Spec => []TypeOK
<1>1. RequestInv => TypeOK
  BY DEF RequestInv
<1>. QED BY <1>1, RequestInvariance, PTL

-----------------------------------------------------------------------------
(* What is applied is what was routed *)

LEMMA ApplyWritesRouted ==
    ASSUME RequestInv, NEW r \in Requests, NEW s \in Views, DoApply(r, s),
           state'[r] = "approved",
           NEW w, <<"request", r>> \in w, Commit(w, s), s.state[r] \in Filed
    PROVE  /\ r \in applied' \ applied
           /\ state'[r] = "approved"
           /\ \A f \in Fields : registrant'[f] # registrant[f] =>
                 f \in WrittenFields(r) /\ registrant'[f] = routed[r][f]
<1>1. s.detail[r] = routed[r]
  <2>1. s \in Snapshot
    BY ViewsTyped DEF RequestInv
  <2>. QED BY <2>1, Consistent
<1>. QED BY <1>1 DEF DoApply, Written

LEMMA AppliedStep ==
    ASSUME RequestInv, [Next]_vars, registrant' # registrant
    PROVE  \E r \in applied' \ applied :
              /\ state'[r] = "approved"
              /\ \A f \in Fields : registrant'[f] # registrant[f] =>
                    f \in WrittenFields(r) /\ registrant'[f] = routed[r][f]
<1>1. PICK r \in Requests, s \in Views : Approve(r, s) \/ Apply(r, s)
  <2>1. ~(Begin \/ Abort \/ UNCHANGED vars)
    BY DEF Begin, Abort, vars, rows
  <2>2. \A r \in Requests :
          /\ ~\E t \in Types : Create(r, t)
          /\ ~(Override(r) \/ ConfirmRejection(r) \/ RequestRevision(r) \/ ResetToDraft(r))
          /\ ~\E rs \in Resolving(r) : CancelPending(r, rs) \/ CancelDraft(r, rs)
    BY DEF Create, Override, ConfirmRejection, RequestRevision, ResetToDraft, Move,
           CancelPending, CancelDraft
  <2>3. \A r \in Requests, s \in Views :
          /\ ~(Recheck(r, s) \/ Submit(r, s) \/ ApproveSwallowing(r, s))
          /\ \A f \in Fields : ~SelectField(r, f, s) /\ \A v \in Values : ~Edit(r, f, v, s)
    BY DEF Recheck, Submit, ApproveSwallowing, SelectField, Edit
  <2>. QED BY <2>1, <2>2, <2>3 DEF Next
<1>2. DoApply(r, s) /\ state'[r] = "approved" /\ s.state[r] \in Filed
  <2>1. CASE Approve(r, s)
    <3>1. state' = [state EXCEPT ![r] = "approved"] /\ s.state[r] = "pending"
      BY <2>1 DEF Approve
    <3>2. DoApply(r, s)
      BY <2>1 DEF Approve
    <3>3. state'[r] = "approved"
      BY <3>1 DEF RequestInv, TypeOK
    <3>. QED BY <3>1, <3>2, <3>3 DEF Filed
  <2>2. CASE Apply(r, s)
    <3>. DEFINE w == {<<"request", r>>} \cup AppliedRows(r, s)
    <3>1. /\ s \in Snapshot /\ s.state[r] = "approved"
          /\ Commit(w, s) /\ <<"request", r>> \in w
      BY <2>2, ViewsTyped DEF Apply, RequestInv
    <3>. HIDE DEF w
    <3>2. state[r] = "approved"
      BY <3>1, Consistent
    <3>. QED BY <2>2, <3>1, <3>2 DEF Apply, Filed
  <2>. QED BY <1>1, <2>1, <2>2
<1>3. PICK w : <<"request", r>> \in w /\ Commit(w, s)
  <2>1. CASE Approve(r, s)
    BY <2>1, RowsOf DEF Approve
  <2>2. CASE Apply(r, s)
    BY <2>2 DEF Apply
  <2>. QED BY <1>1, <2>1, <2>2
<1>. QED BY <1>2, <1>3, ApplyWritesRouted

\* The registrant changes only by the application of an approved request, and
\* only to the values that request was routed with, whatever handlers overlap
\* (action_apply, _apply_change_request, _assert_content_editable).
THEOREM AppliesWhatWasRouted == Spec => AppliedAsRouted
<1>1. RequestInv /\ [Next]_vars =>
        [registrant' # registrant =>
            \E r \in applied' \ applied :
                /\ state'[r] = "approved"
                /\ \A f \in Fields : registrant'[f] # registrant[f] =>
                      f \in WrittenFields(r) /\ registrant'[f] = routed[r][f]]_vars
  BY AppliedStep
<1>. QED BY <1>1, RequestInvariance, PTL DEF Spec, AppliedAsRouted

-----------------------------------------------------------------------------
(* The approval state moves as the mixin promises *)

\* How a step moves the state of the requests.
LEMMA StateMoves ==
    ASSUME RequestInv, [Next]_vars
    PROVE  \/ UNCHANGED state
           \/ \E q \in Requests :
                 /\ \A r \in Requests \ {q} : state'[r] = state[r]
                 /\ \/ state[q] \in {"absent"} /\ state'[q] = "draft"
                    \/ state[q] \in {"draft", "revision"} /\ state'[q] = "pending"
                    \/ state[q] = "pending" /\ state'[q] = "approved"
                    \/ state'[q] = "rejected"
                    \/ state[q] = "pending" /\ state'[q] = "revision"
                    \/ state[q] \in {"rejected", "revision"} /\ state'[q] = "draft"
                    \/ state[q] = "draft" /\ state'[q] = "absent"
<1>1. CASE Begin \/ Abort \/ UNCHANGED vars
  BY <1>1 DEF Begin, Abort, vars, rows
<1>2. ASSUME NEW q \in Requests, NEW t \in Types, Create(q, t)
      PROVE  /\ \A r \in Requests \ {q} : state'[r] = state[r]
             /\ state[q] \in {"absent"} /\ state'[q] = "draft"
  BY <1>2 DEF Create, RequestInv, TypeOK
<1>3. ASSUME NEW q \in Requests, Override(q) PROVE UNCHANGED state
  BY <1>3 DEF Override
<1>4. ASSUME NEW q \in Requests,
             ConfirmRejection(q) \/ RequestRevision(q) \/ ResetToDraft(q)
      PROVE  /\ \A r \in Requests \ {q} : state'[r] = state[r]
             /\ \/ state'[q] = "rejected"
                \/ state[q] = "pending" /\ state'[q] = "revision"
                \/ state[q] \in {"rejected", "revision"} /\ state'[q] = "draft"
  BY <1>4 DEF ConfirmRejection, RequestRevision, ResetToDraft, Move, RequestInv, TypeOK
<1>5. ASSUME NEW q \in Requests, NEW rs \in Resolving(q),
             CancelPending(q, rs) \/ CancelDraft(q, rs)
      PROVE  /\ \A r \in Requests \ {q} : state'[r] = state[r]
             /\ \/ state'[q] = "rejected"
                \/ state[q] = "draft" /\ state'[q] = "absent"
  BY <1>5 DEF CancelPending, CancelDraft, RequestInv, TypeOK
<1>6. ASSUME NEW q \in Requests, NEW s \in Views, NEW f \in Fields,
             SelectField(q, f, s) \/ \E v \in Values : Edit(q, f, v, s)
      PROVE  UNCHANGED state
  BY <1>6 DEF SelectField, Edit
<1>7. ASSUME NEW q \in Requests, NEW s \in Views, Recheck(q, s) \/ Apply(q, s)
      PROVE  UNCHANGED state
  BY <1>7 DEF Recheck, Apply
<1>8. ASSUME NEW q \in Requests, NEW s \in Views,
             Submit(q, s) \/ Approve(q, s) \/ ApproveSwallowing(q, s)
      PROVE  /\ \A r \in Requests \ {q} : state'[r] = state[r]
             /\ \/ state[q] \in {"draft", "revision"} /\ state'[q] = "pending"
                \/ state[q] = "pending" /\ state'[q] = "approved"
  <2>1. PICK w : <<"request", q>> \in w /\ Commit(w, s)
    BY <1>8, RowsOf DEF Submit, Approve, ApproveSwallowing
  <2>2. s.state[q] = state[q]
    BY <2>1, ViewsTyped, Consistent DEF RequestInv
  <2>. QED BY <1>8, <2>2 DEF Submit, Approve, ApproveSwallowing, RequestInv, TypeOK
<1>. QED BY <1>1, <1>2, <1>3, <1>4, <1>5, <1>6, <1>7, <1>8 DEF Next

LEMMA LifeOf ==
    ASSUME RequestInv, [Next]_vars, NEW r \in Requests
    PROVE  Life(r)!LifeStep
<1>. DEFINE old == IF state[r] = "absent" THEN "draft" ELSE state[r]
            new == IF state'[r] = "absent" THEN "draft" ELSE state'[r]
<1>1. \/ new = old
      \/ old \in {"draft", "revision"} /\ new = "pending"
      \/ old = "pending" /\ new = "approved"
      \/ new = "rejected"
      \/ old = "pending" /\ new = "revision"
      \/ old \in {"rejected", "revision"} /\ new = "draft"
  <2>1. CASE state'[r] = state[r]
    BY <2>1
  <2>2. CASE state'[r] # state[r]
    BY <2>2, StateMoves
  <2>. QED BY <2>1, <2>2
<1>. QED BY <1>1 DEF Life!LifeStep, Life!LifeNext, Life!Submitted, Life!Approved,
                     Life!Rejected, Life!RevisionRequested, Life!Reset

\* The approval state of each request moves as spp.approval.mixin promises,
\* although handlers decide on snapshots that others have left behind
\* (action_submit_for_approval, _do_approve, _do_reject, action_reset_to_draft).
THEOREM RequestsLiveAsApproved == Spec => ApprovalLives
<1>1. RequestInv /\ [Next]_vars => [\A r \in Requests : Life(r)!LifeStep]_vars
  BY LifeOf
<1>. QED BY <1>1, RequestInvariance, PTL DEF Spec, ApprovalLives

-----------------------------------------------------------------------------
(* Requests that block each other *)

\* A rule of the type t blocks a request of details d for one of type u, in the
\* state st, of details e, both of them static.
Blocks(t, u, st, d, e) ==
    \E rule \in Type[t].rules :
        /\ rule.action = "block"
        /\ st \in rule.states
        /\ rule.types # {} => u \in rule.types
        /\ rule.fields # {} => \E f \in rule.fields : d[f] # 0 /\ e[f] # 0

\* What decides whether one static request blocks another.
BlockedByRow ==
    \A r, q \in Requests :
        ~Config(r).dynamic /\ ~Config(q).dynamic =>
            (Rivals(r, q) <=> /\ q # r
                              /\ q \notin applied
                              /\ Blocks(type[r], type[q], state[q], detail[r], detail[q]))

LEMMA StaticRivals == BlockedByRow
<1>. SUFFICES ASSUME NEW r \in Requests, NEW q \in Requests,
                     ~Config(r).dynamic, ~Config(q).dynamic
              PROVE  Rivals(r, q) <=> /\ q # r
                                      /\ q \notin applied
                                      /\ Blocks(type[r], type[q], state[q], detail[r], detail[q])
  BY DEF BlockedByRow
<1>1. ASSUME NEW rule
      PROVE  q \in Matches(type[r], r, rule, Now) <=>
                /\ q # r
                /\ state[q] \in rule.states
                /\ q \notin applied
                /\ rule.types # {} => type[q] \in rule.types
                /\ rule.fields # {} =>
                     \E f \in rule.fields : detail[r][f] # 0 /\ detail[q][f] # 0
  BY DEF Matches, Effective, Now, Config
<1>. QED BY <1>1 DEF Rivals, Matched, Blocks

\* A step that leaves z as it was, as far as its rivals see.
Unmoved(z) ==
    /\ type'[z] = type[z] /\ state'[z] = state[z]
    /\ state[z] \in Filed => detail'[z] = detail[z]
    /\ z \notin applied' => z \notin applied
    /\ z \in excused => z \in excused'

\* A step of x that ends with x submitted and not excused passed the check.
Clear(x) == /\ UNCHANGED <<type, detail>>
            /\ Matched(type[x], x, "block", Now) = {}

\* Every step leaves all requests but one as they were, and that one too, unless
\* it takes it out of the race, excuses it, or checks it.
LEMMA OneMoves ==
    ASSUME RequestInv, [Next]_vars
    PROVE  \/ \A z \in Requests : Unmoved(z)
           \/ \E x \in Requests :
                 /\ \A z \in Requests \ {x} : Unmoved(z)
                 /\ \/ state'[x] \notin Filed
                    \/ x \in applied' \cup excused'
                    \/ Clear(x)
<1>1. CASE Begin \/ Abort \/ UNCHANGED vars
  BY <1>1 DEF Begin, Abort, vars, rows, Unmoved
<1>2. ASSUME NEW x \in Requests, NEW t \in Types, Create(x, t)
      PROVE  (\A z \in Requests \ {x} : Unmoved(z)) /\ state'[x] \notin Filed
  BY <1>2 DEF Create, RequestInv, TypeOK, Unmoved, Filed
<1>3. ASSUME NEW x \in Requests, Override(x) PROVE \A z \in Requests : Unmoved(z)
  BY <1>3 DEF Override, Unmoved
<1>4. ASSUME NEW x \in Requests,
             ConfirmRejection(x) \/ RequestRevision(x) \/ ResetToDraft(x)
      PROVE  (\A z \in Requests \ {x} : Unmoved(z)) /\ state'[x] \notin Filed
  BY <1>4 DEF ConfirmRejection, RequestRevision, ResetToDraft, Move, RequestInv, TypeOK,
              Unmoved, Filed
<1>5. ASSUME NEW x \in Requests, NEW rs \in Resolving(x),
             CancelPending(x, rs) \/ CancelDraft(x, rs)
      PROVE  (\A z \in Requests \ {x} : Unmoved(z)) /\ state'[x] \notin Filed
  BY <1>5 DEF CancelPending, CancelDraft, RequestInv, TypeOK, Unmoved, Filed
<1>6. ASSUME NEW x \in Requests, NEW s \in Views, NEW f \in Fields,
             SelectField(x, f, s) \/ \E v \in Values : Edit(x, f, v, s)
      PROVE  \A z \in Requests : Unmoved(z)
  <2>1. CASE SelectField(x, f, s)
    BY <2>1 DEF SelectField, Unmoved
  <2>2. ASSUME NEW v \in Values, Edit(x, f, v, s) PROVE \A z \in Requests : Unmoved(z)
    <3>1. state[x] \notin Filed
      BY <2>2, EditsUnfiled
    <3>. QED BY <2>2, <3>1 DEF Edit, RequestInv, TypeOK, Unmoved
  <2>. QED BY <1>6, <2>1, <2>2
<1>7. ASSUME NEW x \in Requests, NEW s \in Views, Recheck(x, s)
      PROVE  \A z \in Requests : Unmoved(z)
  BY <1>7 DEF Recheck, Unmoved
<1>8. ASSUME NEW x \in Requests, NEW s \in Views, Apply(x, s)
      PROVE  (\A z \in Requests \ {x} : Unmoved(z)) /\ x \in applied'
  BY <1>8 DEF Apply, DoApply, Unmoved
<1>9. ASSUME NEW x \in Requests, NEW s \in Views, ApproveSwallowing(x, s)
      PROVE  (\A z \in Requests \ {x} : Unmoved(z)) /\ x \in excused'
  BY <1>9 DEF ApproveSwallowing, RequestInv, TypeOK, Unmoved
<1>10. ASSUME NEW x \in Requests, NEW s \in Views, Submit(x, s) \/ Approve(x, s)
       PROVE  (\A z \in Requests \ {x} : Unmoved(z)) /\ (x \in excused' \/ Clear(x))
  <2>1. \A z \in Requests \ {x} : Unmoved(z)
    BY <1>10 DEF Submit, Approve, DoApply, Record, RequestInv, TypeOK, Unmoved
  <2>2. ASSUME x \notin excused' PROVE Clear(x)
    <3>1. s = Now /\ Checked(x, s) \notin {"overridden", "blocked"}
      BY <1>10, <2>2 DEF Submit, Approve, Record, CanProceed
    <3>2. Detected(x, s) # "blocked"
      BY <3>1 DEF Checked
    <3>3. Matched(type[x], x, "block", Now) = {}
      BY <3>1, <3>2 DEF Detected, DetectedBy
    <3>. QED BY <1>10, <3>3 DEF Clear, Submit, Approve
  <2>. QED BY <2>1, <2>2
<1>. QED BY <1>1, <1>2, <1>3, <1>4, <1>5, <1>6, <1>7, <1>8, <1>9, <1>10 DEF Next

\* Of two static requests that block each other now, neither has just passed
\* the check, and if both were left as they were they blocked each other before.
LEMMA RivalsBefore ==
    ASSUME RequestInv, NEW r \in Requests, NEW q \in Requests,
           ~Config(r)'.dynamic, ~Config(q)'.dynamic,
           Unmoved(q), state'[q] \in Filed, Rivals(r, q)',
           Clear(r) \/ (Unmoved(r) /\ state'[r] \in Filed)
    PROVE  Rivals(r, q) /\ ~Clear(r)
<1>1. BlockedByRow /\ BlockedByRow'
  BY StaticRivals, PTL
<1>2. /\ q # r /\ q \notin applied'
      /\ Blocks(type'[r], type'[q], state'[q], detail'[r], detail'[q])
  BY <1>1 DEF BlockedByRow
<1>3. /\ type'[r] = type[r] /\ type'[q] = type[q]
      /\ state'[q] = state[q] /\ q \notin applied
      /\ detail'[r] = detail[r] /\ detail'[q] = detail[q]
  BY <1>2 DEF Unmoved, Clear
<1>4. ~Config(r).dynamic /\ ~Config(q).dynamic
  BY <1>3 DEF Config
<1>5. Rivals(r, q)
  BY <1>1, <1>2, <1>3, <1>4 DEF BlockedByRow
<1>. QED BY <1>5 DEF Rivals, Clear

LEMMA RivalsStep ==
    ASSUME RequestInv, RivalsExclude, [Next]_vars
    PROVE  RivalsExclude'
<1>1. SUFFICES ASSUME NEW r \in Requests, NEW q \in Requests,
                      {state'[r], state'[q]} \subseteq Filed,
                      applied' \cap {r, q} = {},
                      ~Config(r)'.dynamic, ~Config(q)'.dynamic,
                      Rivals(r, q)', Rivals(q, r)',
                      excused' \cap {r, q} = {}
               PROVE  FALSE
  BY DEF RivalsExclude, Filed
<1>2. CASE Unmoved(r) /\ Unmoved(q)
  <2>1. Rivals(r, q) /\ Rivals(q, r)
    BY <1>1, <1>2, RivalsBefore
  <2>. QED BY <1>1, <1>2, <2>1 DEF RivalsExclude, Unmoved, Filed, Config
<1>3. CASE Unmoved(q) /\ Clear(r)
  BY <1>1, <1>3, RivalsBefore
<1>4. CASE Unmoved(r) /\ Clear(q)
  BY <1>1, <1>4, RivalsBefore
<1>5. q # r
  <2>1. BlockedByRow'
    BY StaticRivals, PTL
  <2>. QED BY <1>1, <2>1 DEF BlockedByRow
<1>. QED BY <1>1, <1>2, <1>3, <1>4, <1>5, OneMoves

\* Two submitted requests that block each other were not both checked against
\* each other: one was overridden, approved in a batch that swallowed the check,
\* or checked on a snapshot older than the other (_on_submit, _on_approve).
THEOREM RivalsAreExcused == Spec => []RivalsExclude
<1>1. Init => RivalsExclude
  BY DEF Init, RivalsExclude
<1>. QED BY <1>1, RivalsStep, RequestInvariance, PTL DEF Spec

=============================================================================
