---------------------------- MODULE ChangeRequest ----------------------------
(***************************************************************************)
(* The change requests of spp_change_request_v2 about one registrant: what *)
(* each proposes, the conflicts between them, their approval and their     *)
(* application to the registrant by the field_mapping strategy.            *)
(*                                                                         *)
(* A handler is one transaction under REPEATABLE READ. It reads the other  *)
(* requests, the details and the registrant from its snapshot and fails    *)
(* only if a row it writes was written since, so two handlers on different *)
(* rows may each miss what the other does. At most one transaction is kept *)
(* open at its snapshot while others commit: any two handlers overlap so.  *)
(* The approval state moves as ApprovalLife says, which Approval refines.  *)
(***************************************************************************)
EXTENDS Integers, Sequences, FiniteSets

CONSTANTS
    Requests,     \* ids of spp.change.request
    Fields,       \* mapped fields; a detail field and its target share a name
    Values,       \* their values, 0 standing for the empty one
    Types,        \* spp.change.request.type rows
    Type,         \* the configuration of each type
    NoField,      \* an empty selected_field_name
    MaxDirty      \* bound on the rows written while a transaction is open

LiveStates == {"draft", "pending", "revision", "approved", "rejected"}
Statuses == {"none", "warning", "blocked", "overridden"}

\* A conflict rule of scope "registrant" (no fields) or "field"; no types: any.
Rule == [fields : SUBSET Fields, types : SUBSET Types,
         states : SUBSET {"draft", "pending", "approved"},
         action : {"block", "warn", "log"}]
TypeConfig == [dynamic : BOOLEAN, autoApply : BOOLEAN,
               mapped : SUBSET Fields, rules : SUBSET Rule]

ASSUME RequestAssumption ==
    /\ 0 \in Values
    /\ NoField \notin Fields
    /\ Types # {}
    /\ Type \in [Types -> TypeConfig]
    /\ MaxDirty \in Nat

VARIABLES
    type,         \* request_type_id
    state,        \* approval_state of each request, "absent" if there is none
    status,       \* conflict_status
    selected,     \* selected_field_name, which follows the detail's field_to_modify
    detail,       \* the values of the detail record
    applied,      \* requests with is_applied
    registrant,   \* the registrant's fields
    snap,         \* the snapshot of the transaction left open, if any
    dirty,        \* rows written since that snapshot
    routed,       \* history: the detail when last submitted, Unsubmitted before
    excused       \* history: requests let through in spite of, or without, a check

rows == <<type, state, status, selected, detail, applied, registrant>>
vars == <<type, state, status, selected, detail, applied, registrant,
          snap, dirty, routed, excused>>

Config(r) == Type[type[r]]

Content == [Fields -> Values]
Snapshot == [state : [Requests -> LiveStates \cup {"absent"}],
             detail : [Requests -> Content],
             applied : SUBSET Requests, registrant : Content]

Unsubmitted == <<>>

Row == ({"request", "detail"} \X Requests) \cup {<<"registrant">>}

\* The rows of a request: its own and that of its detail, which stores a copy
\* of approval_state.
Both(r) == {<<"request", r>>, <<"detail", r>>}

TypeOK ==
    /\ type \in [Requests -> Types]
    /\ state \in [Requests -> LiveStates \cup {"absent"}]
    /\ status \in [Requests -> Statuses]
    /\ selected \in [Requests -> Fields \cup {NoField}]
    /\ detail \in [Requests -> Content]
    /\ applied \subseteq Requests
    /\ registrant \in Content
    /\ snap \in {<<>>} \cup {<<s>> : s \in Snapshot}
    /\ dirty \subseteq Row
    /\ routed \in [Requests -> Content \cup {Unsubmitted}]
    /\ excused \subseteq Requests

-----------------------------------------------------------------------------
(* Transactions *)

Now == [state |-> state, detail |-> detail, applied |-> applied,
        registrant |-> registrant]

\* A transaction that reads s and writes the rows w commits. While one stays
\* open at most MaxDirty rows are written, and none of them twice.
Commit(w, s) ==
    \/ /\ s = Now
       /\ snap = <<>> \/ w \cap dirty = {}
       /\ dirty' = IF snap = <<>> THEN {} ELSE dirty \cup w
       /\ Cardinality(dirty') <= MaxDirty
       /\ UNCHANGED snap
    \/ /\ snap = <<s>>
       /\ w \cap dirty = {}
       /\ snap' = <<>>
       /\ dirty' = {}

\* The snapshots a handler may work on.
Views == {Now} \cup {snap[i] : i \in DOMAIN snap}

\* A handler takes its snapshot and stays behind.
Begin ==
    /\ snap = <<>>
    /\ snap' = <<Now>>
    /\ UNCHANGED <<rows, dirty, routed, excused>>

\* It fails: on a row somebody else wrote, or on a check.
Abort ==
    /\ snap # <<>>
    /\ snap' = <<>>
    /\ dirty' = {}
    /\ UNCHANGED <<rows, routed, excused>>

-----------------------------------------------------------------------------
(* Conflicts *)

\* _effective_conflict_fields of r, a request of type t.
Effective(t, r, fs, s) ==
    IF Type[t].dynamic
    THEN {f \in fs \cap Type[t].mapped : s.detail[r][f] # s.registrant[f]}
    ELSE fs

\* _build_conflict_domain and _filter_by_field_conflicts: the requests a rule
\* of the type t matches for r.
Matches(t, r, rule, s) ==
    {q \in Requests \ {r} :
        /\ s.state[q] \in rule.states
        /\ q \notin s.applied
        /\ rule.types # {} => type[q] \in rule.types
        /\ rule.fields # {} =>
              \E f \in Effective(t, r, rule.fields, s)
                         \cap Effective(type[q], q, rule.fields, s) :
                  s.detail[r][f] # 0 /\ s.detail[q][f] # 0}

Matched(t, r, action, s) ==
    UNION {Matches(t, r, rule, s) : rule \in {rl \in Type[t].rules : rl.action = action}}

\* _detect_conflicts.
DetectedBy(t, r, s) ==
    IF Matched(t, r, "block", s) # {} THEN "blocked"
    ELSE IF Matched(t, r, "warn", s) # {} THEN "warning" ELSE "none"
Detected(r, s) == DetectedBy(type[r], r, s)

\* _run_conflict_checks: the status it writes; an override stays while there is
\* any conflict, be it another one.
Checked(r, s) ==
    IF status[r] = "overridden" /\ Detected(r, s) # "none"
    THEN "overridden" ELSE Detected(r, s)

\* Mutant: a blocking conflict only warns.
CanProceedAlways(r, s) == TRUE

\* Its can_proceed.
CanProceed(r, s) == Checked(r, s) # "blocked"

-----------------------------------------------------------------------------
(* Handlers: proposals *)

\* create, of type t: the detail is prefilled from the registrant; a dynamic
\* request is checked once its field is chosen.
Create(r, t) ==
    /\ state[r] = "absent"
    /\ Commit(Both(r), Now)
    /\ type' = [type EXCEPT ![r] = t]
    /\ state' = [state EXCEPT ![r] = "draft"]
    /\ detail' = [detail EXCEPT ![r] = registrant]
    /\ status' = [status EXCEPT ![r] =
          IF Type[t].dynamic THEN "none"
          ELSE DetectedBy(t, r, [Now EXCEPT !.detail[r] = registrant])]
    /\ UNCHANGED <<selected, applied, registrant, routed, excused>>

\* Mutant: approved requests may be edited.
EditableUntilApplied(r, s) ==
    s.state[r] \in {"draft", "revision", "approved"}

\* _assert_content_editable.
Editable(r, s) == s.state[r] \in {"draft", "revision"}

\* _sync_field_to_modify of a detail d: the request's row is written too, and
\* a draft is checked again.
Sync(r, s, d) ==
    status' = [status EXCEPT ![r] =
                 IF s.state[r] = "draft" THEN Checked(r, [s EXCEPT !.detail = d]) ELSE @]

\* Writing one mapped field of the detail.
Edit(r, f, v, s) ==
    LET d == [s.detail EXCEPT ![r][f] = v]
        synced == Config(r).dynamic /\ selected[r] = f
    IN  /\ Editable(r, s)
        /\ f \in Config(r).mapped
        /\ v # s.detail[r][f]
        /\ Commit(IF synced THEN Both(r) ELSE {<<"detail", r>>}, s)
        /\ detail' = [detail EXCEPT ![r][f] = v]
        /\ IF synced THEN Sync(r, s, d) ELSE UNCHANGED status
        /\ UNCHANGED <<type, state, selected, applied, registrant, routed, excused>>

\* Writing field_to_modify of the detail.
SelectField(r, f, s) ==
    /\ Config(r).dynamic
    /\ f \in Config(r).mapped \ {selected[r]}
    /\ Editable(r, s)
    /\ Commit(Both(r), s)
    /\ selected' = [selected EXCEPT ![r] = f]
    /\ Sync(r, s, s.detail)
    /\ UNCHANGED <<type, state, detail, applied, registrant, routed, excused>>

\* action_recheck_conflicts.
Recheck(r, s) ==
    /\ s.state[r] # "absent"
    /\ Checked(r, s) # status[r]
    /\ Commit({<<"request", r>>}, s)
    /\ status' = [status EXCEPT ![r] = Checked(r, s)]
    /\ UNCHANGED <<type, state, selected, detail, applied, registrant, routed, excused>>

\* action_override_conflict.
Override(r) ==
    /\ state[r] # "absent"
    /\ status[r] \in {"blocked", "warning"}
    /\ Commit({<<"request", r>>}, Now)
    /\ status' = [status EXCEPT ![r] = "overridden"]
    /\ UNCHANGED <<type, state, selected, detail, applied, registrant, routed, excused>>

-----------------------------------------------------------------------------
(* Handlers: approval *)

\* The check's result is written; a request that passes it by an override, or
\* in a transaction that overlapped others, is excused.
Record(r, s) ==
    /\ status' = [status EXCEPT ![r] = Checked(r, s)]
    /\ excused' = IF s # Now \/ Checked(r, s) = "overridden"
                  THEN excused \cup {r} ELSE excused \ {r}

\* action_submit_for_approval, _on_submit of both classes.
Submit(r, s) ==
    /\ s.state[r] \in {"draft", "revision"}
    /\ Config(r).dynamic => selected[r] # NoField
    /\ CanProceed(r, s)
    /\ Commit(Both(r), s)
    /\ Record(r, s)
    /\ state' = [state EXCEPT ![r] = "pending"]
    /\ routed' = [routed EXCEPT ![r] = s.detail[r]]
    /\ UNCHANGED <<type, selected, detail, applied, registrant>>

\* _effective_mappings.
WrittenFields(r) ==
    IF Config(r).dynamic THEN Config(r).mapped \cap {selected[r]} ELSE Config(r).mapped

\* The registrant after apply of the field_mapping strategy.
Written(r, s) ==
    [f \in Fields |-> IF f \in WrittenFields(r) /\ s.detail[r][f] # s.registrant[f]
                      THEN s.detail[r][f] ELSE registrant[f]]

\* The rows apply writes: none if the registrant holds the values already.
AppliedRows(r, s) ==
    IF \E f \in WrittenFields(r) : s.detail[r][f] # s.registrant[f]
    THEN {<<"registrant">>} ELSE {}

\* _apply_change_request of an approved request.
DoApply(r, s) ==
    /\ r \notin applied
    /\ applied' = applied \cup {r}
    /\ registrant' = Written(r, s)

\* action_approve, the last tier's: _do_approve and _on_approve.
Approve(r, s) ==
    /\ s.state[r] = "pending"
    /\ CanProceed(r, s)
    /\ IF Config(r).autoApply
       THEN DoApply(r, s) /\ Commit(Both(r) \cup AppliedRows(r, s), s)
       ELSE UNCHANGED <<applied, registrant>> /\ Commit(Both(r), s)
    /\ Record(r, s)
    /\ state' = [state EXCEPT ![r] = "approved"]
    /\ UNCHANGED <<type, selected, detail, routed>>

\* action_approve_batch, or the batch wizard, swallows the error that
\* _on_approve raises after _do_approve wrote the state: from the conflict
\* check, or from a strategy that cannot apply.
ApproveSwallowing(r, s) ==
    /\ s.state[r] = "pending"
    /\ ~CanProceed(r, s) \/ Config(r).autoApply
    /\ Commit({<<"request", r>>}, s)
    /\ status' = [status EXCEPT ![r] = Checked(r, s)]
    /\ state' = [state EXCEPT ![r] = "approved"]
    /\ excused' = excused \cup {r}
    /\ UNCHANGED <<type, selected, detail, applied, registrant, routed>>

\* action_apply, by a manager.
Apply(r, s) ==
    /\ s.state[r] = "approved"
    /\ DoApply(r, s)
    /\ Commit({<<"request", r>>} \cup AppliedRows(r, s), s)
    /\ UNCHANGED <<type, state, status, selected, detail, routed, excused>>

\* Handlers that read and write nothing but the request r.
Move(r, from, to) ==
    /\ state[r] \in from
    /\ Commit(Both(r), Now)
    /\ state' = [state EXCEPT ![r] = to]
    /\ UNCHANGED <<type, status, selected, detail, applied, registrant, routed, excused>>

\* The rejection wizard's action_reject: it was opened when the request was
\* pending and stays open as long as its user likes; _do_reject then rejects
\* the request in whatever state it is.
ConfirmRejection(r) == routed[r] # Unsubmitted /\ Move(r, LiveStates, "rejected")

\* _do_request_revision.
RequestRevision(r) == Move(r, {"pending"}, "revision")

\* Mutant: decided requests are reset too.
ResetToDraftDecided(r) == Move(r, LiveStates \ {"pending"}, "draft")

\* action_reset_to_draft.
ResetToDraft(r) == Move(r, {"rejected", "revision"}, "draft")

\* The request whose conflict wizard withdraws q, or none.
Resolving(q) == {{}} \cup {{r} : r \in {r \in Requests \ {q} : state[r] # "absent"}}

\* The statuses after q took the state to and the requests rs were checked.
Rechecked(rs, q, to) ==
    [r \in Requests |-> IF r \in rs THEN Checked(r, [Now EXCEPT !.state[q] = to])
                        ELSE status[r]]

\* Mutant: a state of its own for a cancelled request.
CancelPendingAsCancelled(q, rs) ==
    /\ state[q] = "pending"
    /\ Commit(Both(q) \cup {<<"request", r>> : r \in rs}, Now)
    /\ state' = [state EXCEPT ![q] = "cancelled"]
    /\ status' = Rechecked(rs, q, "cancelled")
    /\ UNCHANGED <<type, selected, detail, applied, registrant, routed, excused>>

\* action_quick_cancel_this, and cancel_this of the conflict wizard (rs empty),
\* or its cancel_conflicting for the request in rs: q was submitted.
CancelPending(q, rs) ==
    /\ state[q] = "pending"
    /\ Commit(Both(q) \cup {<<"request", r>> : r \in rs}, Now)
    /\ state' = [state EXCEPT ![q] = "rejected"]
    /\ status' = Rechecked(rs, q, "rejected")
    /\ UNCHANGED <<type, selected, detail, applied, registrant, routed, excused>>

\* The same when q is a draft: it is deleted, with its detail.
CancelDraft(q, rs) ==
    /\ state[q] = "draft"
    /\ Commit(Both(q) \cup {<<"request", r>> : r \in rs}, Now)
    /\ state' = [state EXCEPT ![q] = "absent"]
    /\ status' = [Rechecked(rs, q, "absent") EXCEPT ![q] = "none"]
    /\ selected' = [selected EXCEPT ![q] = NoField]
    /\ detail' = [detail EXCEPT ![q] = [f \in Fields |-> 0]]
    /\ routed' = [routed EXCEPT ![q] = Unsubmitted]
    /\ applied' = applied \ {q}
    /\ excused' = excused \ {q}
    /\ UNCHANGED <<type, registrant>>

-----------------------------------------------------------------------------

Init ==
    /\ type = [r \in Requests |-> CHOOSE t \in Types : TRUE]
    /\ state = [r \in Requests |-> "absent"]
    /\ status = [r \in Requests |-> "none"]
    /\ selected = [r \in Requests |-> NoField]
    /\ detail = [r \in Requests |-> [f \in Fields |-> 0]]
    /\ applied = {}
    /\ registrant = [f \in Fields |-> 0]
    /\ snap = <<>>
    /\ dirty = {}
    /\ routed = [r \in Requests |-> Unsubmitted]
    /\ excused = {}

Next ==
    \/ Begin
    \/ Abort
    \/ \E r \in Requests :
          \/ \E t \in Types : Create(r, t)
          \/ Override(r)
          \/ ConfirmRejection(r)
          \/ RequestRevision(r)
          \/ ResetToDraft(r)
          \/ \E rs \in Resolving(r) : CancelPending(r, rs)
          \/ \E rs \in Resolving(r) : CancelDraft(r, rs)
          \/ \E s \in Views, f \in Fields : SelectField(r, f, s)
          \/ \E s \in Views, f \in Fields, v \in Values : Edit(r, f, v, s)
          \/ \E s \in Views : Recheck(r, s)
          \/ \E s \in Views : Submit(r, s)
          \/ \E s \in Views : Approve(r, s)
          \/ \E s \in Views : ApproveSwallowing(r, s)
          \/ \E s \in Views : Apply(r, s)

Spec == Init /\ [][Next]_vars

-----------------------------------------------------------------------------
(* Properties *)

\* The approval state of each request moves as the mixin promises; a request
\* that does not exist is as good as a draft.
Life(r) == INSTANCE ApprovalLife
    WITH state <- IF state[r] = "absent" THEN "draft" ELSE state[r],
         SubmitFrom <- {"draft", "revision"}
ApprovalLives == [][\A r \in Requests : Life(r)!LifeStep]_vars

\* The registrant changes only when one request that was not applied yet is,
\* in the state approved, and then only in fields the request was routed on, to
\* the values it was routed with, whatever was edited, reset, left open or
\* decided in between (action_apply, _assert_content_editable).
AppliedAsRouted ==
    [][registrant' # registrant =>
        \E r \in applied' \ applied :
            /\ state'[r] = "approved"
            /\ \A f \in Fields : registrant'[f] # registrant[f] =>
                  f \in WrittenFields(r) /\ registrant'[f] = routed[r][f]]_vars

Rivals(r, q) == q \in Matched(type[r], r, "block", Now)

\* Two submitted requests block each other only if one of them was let through
\* in spite of the check: overridden, approved in a batch, or checked by a
\* transaction that overlapped the other's (_on_submit, _on_approve).
RivalsExclude ==
    \A r, q \in Requests :
        /\ {state[r], state[q]} \subseteq {"pending", "approved"}
        /\ applied \cap {r, q} = {}
        /\ ~Config(r).dynamic /\ ~Config(q).dynamic
        /\ Rivals(r, q) /\ Rivals(q, r)
        => excused \cap {r, q} # {}

=============================================================================
