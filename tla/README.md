# OpenSPP in TLA+

OpenSPP is a social protection platform built on Odoo 19: registries of people
and households, programs that pay them benefits in cycles, approval of changes
and payments, disaster relief, and an interoperability server. This directory
holds TLA+ models of its core, TLC configurations that check them on small
instances, and TLAPS proofs of their main properties for instances of any size.

Paths below are relative to the repository root; a bare file name is a file of
the module under discussion.

## How the code runs, and what that makes hard

Everything is a method of an Odoo model, called from a button, an RPC, a cron or
a queue job. A call runs in one PostgreSQL transaction (REPEATABLE READ). If two
transactions update the same row the second fails and is run again from its
start; if they update different rows both commit, whatever either had read. A
method that raises undoes its whole transaction. Consequences for the models:

* a handler is one action; one that raises is an action that is not enabled;
* buttons hidden by a view are still callable: what the *method* does not test is
  not a guard of the action;
* what spans requests is state: open wizards, queued jobs, callbacks, the
  operation lock of a cycle, reviews left by an earlier round;
* where two transactions can overlap without touching the same row, the
  transaction itself is split into its snapshot and its commit (`CycleJobs`,
  `ChangeRequest`, `DciTransactions`, `AttachmentScan`).

## Inventory

### Core components

| Component | State it keeps | Operations | Talks to |
| --- | --- | --- | --- |
| Approval workflow `spp_approval` | `approval_state`, `approval_version`, `submitted_by_id` of each record; `spp.approval.review`, `spp.approval.tier.review`; definitions, tiers, freeze periods | submit, approve, batch and system approval, reject and revise through wizards, reset; approve or reject one tier review | hooks `_on_submit`, `_on_approve`, `_on_reject`, ... of cycles, entitlements, change requests and others |
| Programs `spp_programs` | programs, memberships, cycles, cycle members, entitlements, funds, `account.payment`, `spp.payment`, `is_locked` | enrol, copy members, check eligibility, prepare, submit, approve, reject, reset entitlements and cycles, prepare payments, archive, post funds | approval mixin, `job_worker` queue, accounting |
| Change requests `spp_change_request_v2` | request, its detail, conflicts and override, `is_applied` | create with conflict checks, submit, approve, override, apply with a strategy, start over | approval mixin, registry |
| DCI server `spp_dci_server` | asynchronous transactions, subscriptions, sender registry, rate limit counters, server keys | search, subscribe, notify, process later, call back with retries | registry, job queue, remote registries |
| Versioned artifacts `spp_versioning` | versions of an artifact with states | new version, activate, retire | eligibility rules, programs |
| Disaster relief `spp_drims` | donations, requests, allocations, dispatches, stock | receive, inspect, allocate, dispatch, deliver | stock of Odoo, approval mixin |
| Consent `spp_consent` | consents with validity | grant, withdraw, expire, check | API and DCI queries |
| Keys `spp_key_management` | keys and their versions | create, rotate, retire | encryption of fields |
| Cases and grievances `spp_case_*`, `spp_grm*` | stages, plans, tickets | stage moves, assignment, closing | registry, programs |
| Attachment scanning `spp_attachment_av_scan` | scan status, bytes, quarantined copy, sweep attempts | scan job, sweep, quarantine, restore, forensic download, purge | job queue, ClamAV |

### The rest

The registry and its custom fields, the eligibility language (`spp_cel_*`), the
REST API, scores and indicators, maps and hazards, Studio, security and audit,
demo data and tooling. These are computations, translations, configuration or
records edited by one user at a time, so a model would only repeat them;
`PROJECT.json` lists each with its directories and its reason.

### What makes each core component correct

* **Approval.** A record is approved only after every blocking tier of the
  definition of its last submission; no tier is heard before the blocking ones in
  front of it are done; nobody approves their own request where that is forbidden;
  a completed tier heard from as many of its designated approvers as it asks for,
  and from each of them if it requires all; decisions are final; no round leaves a
  review open behind it; a pending record can be decided, and with acting approvers
  is.
* **Cycles and entitlements.** What is approved never exceeds the fund; cycle
  state, approval state and reviews agree over rounds of rejection and reset;
  paid entitlements never become editable again; nobody gets two entitlements;
  nothing is disbursed twice, also when jobs are retried or repeated; the
  operation lock is released.
* **Change requests.** The registrant changes only as an approved request was
  routed; requests that exclude each other are not both let through; the approval
  state moves as the mixin promises, whatever overlaps.
* **DCI.** Each accepted asynchronous transaction stays in somebody's hands until
  it is settled, and is settled; whoever asks for a success gets its response;
  callbacks are posted a bounded number of times.
* **Attachment scanning.** A verdict is about the bytes it stands beside; bytes found
  infected are not served as `datas` again until restored; no file of a business
  record waits for its verdict for ever.
* **Relief inventory.** Counters follow the dispatches over short shipments,
  backorders and cancellations; a request that a backorder took back reads
  dispatched only once all has shipped; stock is promised once; no more is delivered
  than shipped.
* **Versions, keys** (not modelled). One active version; data stay readable through
  a rotation.
* **Consent, cases** (not modelled). No query passes a withdrawn consent.

Hard behaviours: rounds of submission that leave records behind, wizards opened
before and confirmed after somebody else's decision, several handlers of
different modules changing one record, jobs of several pipelines under one lock,
overlapping transactions on one fund, retries and repeated jobs. `hazards` of
`PROJECT.json` lists them line by line with the properties aimed at them.

## Plan

| Order | Module | Extends or composes | Status |
| --- | --- | --- | --- |
| 1 | `Approval`, `MCApproval`, `ApprovalProofs` | implements `ApprovalLife` | written, checked, proved |
| 2 | `ApprovalLife` (abstract): what the mixin promises its models | | written; implemented by `Approval`, relied on by `ChangeRequest` |
| 3 | `Cycle`, `MCCycle`, `CycleProofs` | extends `Approval`; implements `Fund` | written, checked, proved |
| 4 | `Fund` (abstract), `CycleJobs`, `MCCycleJobs`, `MCCycleJobsClaims`, `CycleJobsProofs` | `CycleJobs` implements `Fund` | written, checked, safety proved |
| 5 | `ChangeRequest`, `MCChangeRequest`, `ChangeRequestProofs` | each request implements the steps of `ApprovalLife` | written, checked, proved |
| 6 | `DciTransactions`, `DciTransactionsProofs` | | written, checked, safety proved |
| 7 | `AttachmentScan`, `AttachmentScanProofs` | | written, checked, safety proved |
| 8 | `Relief`, `MCRelief`, `SumProofs`, `ReliefProofs` | | written, checked, proved |
| 9 | DCI subscriptions and their notifications; returns and donations of `spp_drims` | `DciTransactions`, `Relief` | not begun |
| 10 | key rotation, artifact versions; consent | | not begun |

## Modules and code

### Approval (`spp_approval`)

One record of a model that inherits `spp.approval.mixin` with the multi-tier
extension, and everything its submissions leave.

| Model | Code |
| --- | --- |
| `state`, `version`, `submittedBy` | `approval_state`, `approval_version`, `submitted_by_id` (`models/approval_mixin.py`) |
| `reviews` (a sequence, oldest first) | `approval_review_ids`; a review has its definition, requester, status and its tier reviews |
| `rejectors` | users with an open rejection wizard, which checks nothing again (`wizards/rejection_wizard.py`) |
| `active`, `frozen` | archived accounts, freeze periods |
| `via` | history variable: approved by its approvers, by a batch or by the system |
| `Leavers` | the users whose accounts may be archived and restored |
| `TierApprovers`, `DefApprovers`, `CanDecide` | `get_approvers` of tiers and definitions, `_compute_approval_permissions` |
| `NewReview`, `ActivateNext`, `TierComplete`, `ApproveTier`, `RejectTier` | `models/approval_review_multitier.py`, `models/approval_tier_review.py` |
| `DoApprove` | `_do_approve`: `UPDATE ... WHERE approval_state = 'pending' AND approval_version = ...` |
| `Submit`, `Approve`, `ApproveBatch`, `ApproveSystem`, `OpenRejection`, `ConfirmRejection`, `RequestRevision`, `ResetToDraft` | the mixin's handlers and the wizards' |
| `ApproveTierAlone`, `RejectTierAlone` | the public `action_approve`, `action_reject` of `spp.approval.tier.review`, not behind the record |
| `ToggleUser`, `ToggleFreeze` | an administrator, the calendar |

`Submit` refuses a second pending review of the same definition, which is the
exclusion constraint of the review table. The rejection wizard is two actions
(its opening checks the permission, its confirmation does not); the revision
wizard is one, because `_do_request_revision` checks again.

### Cycle (`spp_programs`, one request at a time)

`Cycle` extends `Approval`, whose variables are those of the `spp.cycle` record,
and adds the cycle's `state`, `auto_approve_entitlements`, members, one cash
entitlement of each beneficiary with the decisions of its reviews, the posted
funds, payments and the entitlement wizards left open. The cycle's stored
`approval_state` is computed from its `state` but the mixin also writes it with
SQL, so the two are separate variables and may differ; that is the root of one of
the findings.

| Model | Code |
| --- | --- |
| `CopyBeneficiaries`, `CheckEligibility`, `PrepareEntitlements`, `UnlinkEntitlement` | `models/managers/cycle_manager_base.py`, `entitlement_manager_base.py`, `models/entitlement.py` |
| `SubmitCycle`, `ApproveCycle`, `ApproveCycleUnfunded`, `OpenCycleRejection`, `RejectCycle`, `ReviseCycle`, `ResetCycle`, `MarkCycle` | `models/cycle.py` with the manager's `approve_cycle` and `on_state_change` |
| `ArchiveProgram` | `toggle_active` of the program |
| `ApproveEntitlement`, `ApproveSelected`, `ValidateEntitlements`, `SubmitEntitlement`, `RejectEntitlement`, `RejectSelected`, `OpenResetToPending`, `ResetToPending`, `ResetEntitlement`, `ExpireEntitlements` | `models/entitlement.py`, `models/spp_entitlement.py`, `wizard/`, `approve_entitlements` of the default and of the cash manager |
| `Balance`, `PostFund` | `check_fund_balance`, `models/accounting/fund_management.py` |
| `PreparePayments`, `PaymentFails` | `models/managers/payment_manager.py` |

The two managers differ: the default one decides an entitlement's reviews with
it; the cash one only assigns the state, and puts the cycle back to `to_approve`
when the balance did not cover all its entitlements (`PutBack`). `Affordable` is
the loop that takes entitlements in turn until the balance does not cover the
next; since the order of the rows is not fixed, it is every set such a loop may
stop at.

### CycleJobs and Fund (`spp_programs`, many rows)

With 200 rows or more a handler sets `is_locked`, splits its rows into queue jobs
of one group (a *pipeline*) and attaches callbacks that clear the lock.

| Model | Code |
| --- | --- |
| `Dispatch`, `SubmitCycle`, `ApproveCycle`, `ArchiveProgram` with `Enqueue` | `_check_eligibility_async`, `_prepare_entitlements_async`, `_set_pending_validation_entitlements_async`, `_validate_entitlements_async`, `_cancel_entitlements_async`, `_prepare_payments_async` |
| `pipelines` | the jobs of a group that wait; whether one failed |
| `Channel`, `Limit`, `Room` | `data/queue_data.xml` |
| `Callback`, `ForceUnlock` | `mark_*_as_done`, `mark_*_as_failed`; `action_force_unlock` |
| `tx` | the transaction of each worker or request: its operation, rows, and the writes it computed from the state it began in |
| `Writes(op, S)` | what each operation writes, read at the start of the transaction |
| `Rows(w)`, `Invalidate`, `Retry` | rows updated; a transaction that somebody beat to one of its rows is stale and starts over |
| `CommitUnnoticed`, `Restart` | a worker that dies after its commit; a restart that loses the queue's callbacks |

Rows matter: creating an entitlement updates the beneficiary's *stored*
`entitlements_count` (`models/registrant.py`), so two transactions that create
one for the same person collide there; nothing else, no constraint of the table
included, would stop them. Creating a payment updates no row that collides.

`Fund` is the abstract specification: what is charged never exceeds what is
posted. `CycleJobs` and `Cycle` implement it with approved entitlements as what is
charged.

Three things are outside `src/` and are modelled from how the code uses them.
*PostgreSQL*: snapshot isolation with first-committer-wins on rows. *The
`job_worker` queue*: the callback of a group runs once, after all its jobs
ended, whether they succeeded or failed; a job whose `identity_key` is queued
already is not queued again, and a group of which nothing remains has no
callback of its own; a channel without a limit runs as many jobs as there are
workers (`QUEUE_JOB_CONCURRENCY: "2"` in the compose file); a job whose worker
died is taken up again. *The ORM*: its cache and the moment it flushes are not
modelled, a transaction sees its own writes.

### ChangeRequest and ApprovalLife (`spp_change_request_v2`)

Several requests about one registrant. `ApprovalLife` is the approval state of one
record as `spp.approval.mixin` promises it; `Approval` implements it in full
(`ApprovalLifeSpec`), and `ChangeRequest` uses it instead of the workflow behind
it: each request takes only its steps (`ApprovalLives`).

| Model | Code |
| --- | --- |
| `state`, `status`, `selected`, `detail`, `applied` | `approval_state`, `conflict_status`, `selected_field_name`, the detail record, `is_applied` |
| `registrant` | the fields the mappings write |
| `snap`, `dirty`, `Commit(w, s)` | a transaction that stays open on the snapshot `s`; it commits unless a row of `w` was written since |
| `Effective`, `Matches`, `Detected`, `Checked` | `models/conflict_mixin.py`: the rules, their states, types and fields, and the status they give; an override is kept |
| `Create`, `Edit`, `SelectField`, `Recheck`, `Override` | the request, its detail and `_sync_field_to_modify` |
| `Submit`, `Approve`, `ApproveSwallowing`, `Apply` | `_on_submit` and `_on_approve` of both classes (`models/change_request_conflict.py`), `action_approve_batch` and the batch wizard, `action_apply` with `strategies/field_mapping.py` |
| `ConfirmRejection`, `RequestRevision`, `ResetToDraft`, `CancelPending`, `CancelDraft` | the wizards' handlers, the mixin's, and the conflict wizard's |
| `routed`, `excused` | history: what was submitted, who was let through without a check |

A submitted request's detail carries a stored copy of `approval_state`, so that
submission writes the detail's row too and an edit that overlaps it fails. That is
all that protects `AppliedAsRouted`, and the proof says so.

### DciTransactions (`spp_dci_server`)

| Model | Code |
| --- | --- |
| `txn` | `spp.dci.transaction`: state, kind, callback address, `retry_count`, whether `response_payload` is stored |
| `AsyncSearch`, `Subscribe`, `Unsubscribe`, `AsyncTxnStatus`, `BulkSearchUpload` | `routers/async_router.py`, `routers/bulk_upload.py` with its limit of pending jobs |
| `StartProcess`, `StartRetry`, `StartManual` with `Process`, `SendCallback`, `RetryCallback` | `process_async_*`, `_send_callback`, `_retry_callback`, `action_retry_callback` |
| `Commit`, `StartOver`, `Die`, `CommitUnnoticed` | the end of the transaction: committed, beaten to the record, lost before its commit or after it |
| `ToggleSender` | the sender registry |
| `allowance` | history: the POSTs a transaction may still cause |

A job is begun and committed in two steps, because the POST happens between them
and cannot be undone.

### AttachmentScan (`spp_attachment_av_scan`)

| Model | Code |
| --- | --- |
| `file` | `scan_status`, the bytes and whether the store can read them, the quarantined copy, `scan_queue_attempts`, the forensic flag, and `owned`: whether it hangs off a business record |
| `Read` | `read`, with and without `datas` among the fields it is asked for |
| `Create`, `WriteDatas`, `EmptyDatas` | `create`, `write` |
| `StartScan`, `CommitScan`, `StartOver` | `_scan_for_malware` with `_quarantine` |
| `Age`, `Sweep`, `Batch`, `Stranded` | `_cron_sweep_pending_scans`, the `write_date` it compares and orders by |
| `Rescan`, `Restore`, `Download`, `Delete`, `Purge`, `Cleanup` | the administrator's actions and the other crons |
| `LoseBytes`, `LoseJob` | a store that loses a file, a queue that loses a job or refuses one |
| `judged`, `condemned` | history: the content last judged, and last found infected |

The sweep leaves aside attachments without a `res_model` and those of
`SWEEP_EXCLUDED_MODELS` (`ir_attachment.py:896`; `README.md:87`,
`tests/test_pending_scan_sweep.py:184`), which is `~owned`: if the queue loses their
job, they wait until somebody rescans them. New bytes arrive by `datas`: the
override of `write` looks at nothing else (`:175`), so a `write({"raw": ...})`
changes the bytes beside a verdict about others. That write is not modelled, and
`VerdictIsAboutTheseBytes` says nothing of it.

### Relief (`spp_drims`)

| Model | Code |
| --- | --- |
| `approval`, `review`, `stage` | `approval_state`, its pending review and the stage, which the overridden handlers of `models/request.py` move |
| `allocation`, `Allocate`, `ConfirmAllocation`, `Available` | `action_allocate`, `wizard/allocation_preview_wizard.py`, `_drims_available_quantity` |
| `moves`, `CreateDispatch`, `ActionDone`, `Validate`, `Cancel`, `EditDemand` | `action_create_dispatch`, `models/stock_picking.py`, `models/stock_move.py`, `_reconcile_quantity_dispatched` |
| `Reopened`, `Synced`, `Backordered` | `_reopen_if_not_fully_dispatched`, `_sync_state_after_dispatch_done`, `_on_dispatch_backorder_created` |
| `Deliver`, `ConfirmDelivery`, `ConfirmPod` | `wizard/delivery_confirmation_wizard.py`, `action_confirm_pod` |
| `blind` | history: warehouses where a wizard, a shipment above its demand, a lowered demand or a stock count took stock past what was free |
| `short`, `edited` | history: requests with a backorder since their last `action_create_dispatch`, and with a demand edited since the last recount |

The allocation wizard leaves no state of its own behind: an approved request stays
approved, and the confirmation compares only the sum of the rows with what is still
requested (`allocation_preview_wizard.py:167`). The cap of a row at what is free is an
`onchange` of the form (`:329`), hence no guard.

Odoo's stock is outside `src/`: a move reserves what is free, validating it takes
what it ships from the warehouse and may split off a backorder.

## Runs

| Run | Instance | What it asks |
| --- | --- | --- |
| `approval_rounds` | users ann, ben, eve; definitions `solo` (single-tier), `chain` (a tier of all three users, then one of both others that forbids self-approval, each requiring all), `fyi` (a non-blocking tier, then a blocking one of the submitter's manager and one of two approvers by count); two submissions; eve's account comes and goes | decisions are complete, heard from everybody they need, ordered, final, not one's own; no review is orphaned; a pending record can be decided; the workflow implements `ApprovalLife`; the inductive invariant |
| `approval_direct` | `chain`, the methods of tier reviews called directly; eve's account comes and goes | a tier completes only with its quorum even there, whoever submitted the record aside |
| `approval_decided` | `fyi` and `solo`, fair approvers | a submitted record is decided |
| `cycle_solo` | two beneficiaries of amounts 1 and 2, funds up to 3, single-tier definition, two rounds, both managers, automatic approval of entitlements | fund, reviews, payments and state stay consistent |
| `cycle_wizards` | two-tier definition, an administrator, wizards left open, entitlements approved one by one | the cycle implements `Fund` and its reviews agree, where wizards are stale and tiers half done |
| `jobs_fund` | two beneficiaries of amount 1, a fund of 1, two pipelines, two workers and a clerk whose requests prepare entitlements, restarts and repeated jobs | the jobs implement `Fund`, nothing is granted or disbursed twice; the inductive invariant |
| `jobs_lock` | eligibility, preparation, submission, approval and reset under fairness | the lock is released |
| `requests` | two requests, one field; type `edit` (dynamic, applied on approval, warned of) and `record` (static, applied by hand, blocking); one transaction may stay open while three rows are written | what is applied is what was routed; rivals are excused; each approval state lives as promised |
| `dci_transactions` | two transactions, one worker and one administrator, two retries, a limit of one pending job, one fault, one manual retry, one change of the sender | nothing is forgotten, successes are answered with their response, posts are bounded, every request is settled |
| `scan` | two attachments, one worker, two contents, batches of one file, one attempt, one manual rescan, two lost jobs | verdicts, quarantine, and that every file in the sweep's scope is examined |
| `relief` | two requests of 2 and 1 units, two warehouses of 1 unit, five moves, two edits or stock counts | counters, stages, promises and deliveries |
| `claim_double_payment` | two payment jobs of one pipeline each | a statement of the release notes that the code does not meet; see below |

Why these bounds are enough to be interesting: two submissions give a second
round in which reviews and wizards of the first are still there; three users
give a requester, an approver and one who leaves; a chain of two tiers and a
definition of three have every combination of blocking and non-blocking
neighbours; a fund that covers one, both or neither of two unequal entitlements
gives every outcome of the loop over the balance, the amount that uses it up
exactly included; a tier that requires all, one of whose users leaves and returns
between the others' approvals, completes with and without them; two pipelines on two workers and a request beside them are
the fewest that can overlap in a channel, across channels, and outside of both;
two requests are the fewest that exclude each other, and one transaction left
open while the other handlers commit gives every overlap of two; a batch of one
of two files is the smallest that can starve; a request for more than a
warehouse holds must be split, and its dispatches can be shipped, cut short or
cancelled in every order; with five moves it can be dispatched again after a
backorder. `MaxSubmits`, `MaxFund`, `MaxVersion`, `Slots`,
`MaxDirty`, `MaxFaults`, `MaxManual`, `MaxToggles`, `MaxContents`, `MaxRescans`,
`MaxLost`, `MaxMoves` and `MaxEdits` are the bounds, each a guard of the action it
bounds; the other constants are settings of the code. `cycle_solo` has a `VIEW`
without the version, the submitter and `via`, on which no step depends under a
single-tier definition; its graph is 25 steps deep, so a version never reaches its
bound of 30. The views of `requests` and `relief` forget histories that nothing
reads any more. `jobs_fund` uses the symmetry of beneficiaries (of equal amounts)
and of workers, `requests` that of the requests and `relief` that of the
warehouses (of equal stock); they check safety only, and the runs that check
liveness use no symmetry. Deadlock is not checked where the system may stop: a
cycle may be cancelled with no job left, all requests decided, all bounds used.

Fairness. `approval_decided` assumes that while some approver can approve, one
eventually does: the code schedules an activity for them and escalates nothing
(`escalation_definition_id` is read by no handler), so without that assumption a
request may wait for ever. It assumes nothing about
rejection. `jobs_lock` assumes that a worker takes up jobs that wait, that it
ends what it began, that callbacks run (weak fairness), and that a job is not
beaten by other transactions at every one of its tries (strong fairness of its
commit: the queue runs the job again later). It assumes no restart: after one,
the lock stays until an administrator clears it, which is what
`action_force_unlock` is for. `dci_transactions` assumes that the queue runs each
job it holds and that what runs ends; the retry of a transaction is strongly fair,
since a worker busy with others disables it now and then. Faults need no
assumption: they are bounded, and a job whose worker died is queued again. `scan`
assumes that time passes, that the cron runs, and that the queue runs the jobs it
holds; nothing is assumed of the administrator.

## What is proved

Every safety invariant, action property and refinement of a run that is expected
to pass is proved for every value of the constants, save that a few theorems have
an `ASSUME` of their own, named below with its reason. Seven modules hold the
proofs of the components and `SumProofs` what they share. Each module rests on the
named assumption its model makes about the constants: amounts and stocks are
natural numbers, bounds are too, each kind of actor is a set of its own, and,
where something is added up, the sets it is added up over are finite
(beneficiaries, workers, requests, warehouses). No proof uses the size of a bound.

**SumProofs.** The models add amounts and quantities with the folds of the
community modules, which recurse over sets. The prover cannot use an induction
theorem, because it takes the property as an operator; but it can use that the
subsets of a finite set are well-founded under inclusion. The lemmas therefore
assume that a sum breaks the claim somewhere, pick a minimal set where it does,
and take one element out of it. That gives that a sum exists, is a natural number,
grows with its set and its terms, changes by as much as the one term that changes,
and that the sum over a union is at most that of its parts.

**Approval.** `IInv` is inductive. It strengthens the safety properties by three
facts: every review is well formed (`ReviewOK`: tiers decided through
their record go in order, non-blocking ones included (`InSequence`), and a pending
review has an open tier and none that is rejected or skipped); a pending multi-tier
review belongs to a pending record and is its last; and a pending record is in an
open round whose review was requested by the record's present submitter
(`RoundOpen`). The last is what `NoSelfApproval` needs: the code filters the
record's submitter, the property is about the review's requester, and the two
agree only because no earlier round leaves a multi-tier review open. From
`Invariance` follow `ApprovalIsComplete`, `RequesterDoesNotApprove`, `TierOrder`,
`TierQuorum` and, under the assumption that each multi-tier definition has a
blocking tier, `PendingCanBeDecided`; `DecisionsAreFinal` is the action property.
They assume `~DirectTierCalls`: when tier reviews are decided without their record, a
review may be complete while the record is still pending, and `IInv` does not hold.

What a quorum is (`Quorate`): whoever approved a tier was designated for the
requester, and when it completed it had heard from as many as it asks for; a tier
that requires all had heard from every designated user except the requester, where
self-approval is forbidden, and the users of `Leavers`. The code reads the approvers
anew at each approval, so it can do without somebody who is archived at that moment,
and without nobody else. `Leavers` is any set of users: take those whose accounts are
archived at some time in a behaviour, and the theorem says of that behaviour that all
the others were heard.

`TypeCorrect`, `NoOrphanReview` and `ImplementsLife` (`Approval` implements
`ApprovalLife`) need no such assumption. `QuorumOfTiersAlone` is the quorum of tiers
decided alone (`TiersAloneHaveQuorum`, checked by `approval_direct`), which may also do
without anybody who once submitted the record; it assumes that the approvers of no
tier depend on the submitter. Without that it is false: see the findings about tier
reviews that an earlier round left open.

**Cycle.** `Moves` lists what the handlers do to one entitlement and `WizardMoves`
what stale wizards do to it; every action only makes such moves, and each move
keeps the invariant of one entitlement. `ReviewsAgree` is about every behaviour;
`PaidStaysDecided` assumes that no wizard is left open, since a stale wizard does
take a paid entitlement back.

The fund (`FundIsNeverOverdrawn`, `CycleImplementsFund`): a step either approves
nothing new (`EntStep({})`) or approves exactly a set that the balance covers
(`Covered`, `Grants`), whichever handler takes it, and a step that posts a fund
approves nothing (`PostedApart`). What is charged after it costs at
most what was charged before and what was granted. The refinement maps the first
kind of step to a charge of nothing, a release or a stutter, and the second to one
`Charge`.

Rounds (`DraftIsFresh`, `ApprovalOfCycleIsFinal`, and `CycleTypeCorrect` on the
way): a reset keeps the reviews that are not pending, which `WithoutPending`
computes by recursion over the sequence. That the result is a sequence of decided
reviews is shown like a sum, from the least prefix for which it would fail.
`ApprovalOfCycleIsFinal` assumes that no definition has tiers: with tiers the
approver of the first one approves the cycle while its review is still pending,
which is one of the findings.

**CycleJobs.** `JobsInv` is inductive and needs no assumption about the
constants. The point of it is `Sound`: what a transaction is about to write still
fits the present entitlements as long as nobody changed one of its rows. A
transaction that creates an entitlement writes no row of one, so another creator
would not disturb it by that; the lemma `SoundApart` uses the beneficiary's row,
which both update, to show that one of them is stale. `CountsMatch` then gives
`NoDoubleEntitlement` and `NoDoubleDisbursement`; the latter rests on a reset
that refuses entitlements with an approved review.

`JobsImplementFund` adds `FundInv`: at most one session is approving, because the
channel of approvals is serial; only its writes contain "approved"; and unless
somebody beat it to a row, they are covered by the fund together with whatever is
charged at that moment, not only with what was charged when it read the balance.
Others can only release while it runs. The theorem assumes that approvals run as
jobs (`"validate" \notin Direct`). A request that approves at once, which the code
does below 200 rows, beside a job of the channel spends the same balance; that is a
finding, and the theorem is false without the assumption.

`LockHasHolder` says that without a restart a locked cycle has a group of jobs
under way, even if all the jobs of the one that set the lock were queued before
or another callback came first. It is the safety half of `LockIsReleased`.

**ChangeRequest.** `RequestInv` adds to the types that a submitted request's detail
is what it was routed with, and what an open snapshot still knows: of the rows that
were not written since, it has the present content (`SnapshotIsCurrent`). The lemma
`Consistent` turns that into the rule every handler lives by: it commits only if
what it read of the rows it writes is true. `AppliesWhatWasRouted` and
`RequestsLiveAsApproved` follow; `RivalsAreExcused` needs also that of two static
requests that block each other nothing changes but by a step of one of them, and
that a step that is not excused has seen the other (`OneMoves`, `RivalsBefore`).

**DciTransactions.** `TxnInv` says what each session is about to write (`Honest`): a
record that is settled or whose retry it queues, and that loses no response.
`NoRequestForgotten` and `SuccessesHaveResponses` follow from it; the former is the
safety half of `EveryRequestSettles`, the latter says that a status query about a
success answers with the stored response as its `txn_status`, for which no session may
overwrite a response it has not read.

`PostsStayBounded` needs `PostInv`: the jobs queued for a transaction and the
failures it may still count fit into what it may still cause, and so does what each
running session will leave, *each on its own*. Adding the sessions up would not be
inductive: several sessions may have read one record, but only one of them commits
and the others start over, with what they spent back.

**AttachmentScan.** `ScanInv`: a scan that was not overtaken has read what the record
holds, because every write of the record makes it start over. `VerdictsAreCurrent`
follows, and that condemned bytes an attachment still has are flagged, which together
with `Read` gives `CondemnedStaysBlocked`: a read that names `datas` does not return
them. `WaitingIsSwept` is the safety half of `EveryFileIsExamined`: nothing pending is
in quarantine, whatever was restored, downloaded or scanned again, so the sweep
selects every old enough file that waits and belongs to its scope, until it has used
up its attempts.

**Relief.** `ReliefInv` is inductive. It strengthens the counters to `CountersLag` (a
counter is exactly what its moves count for unless a demand was edited since, and even
then never more outside `blind`), which is what a recount of one allocation needs to know
of the others. `CountersCover` (the counters of a dispatched request cover it) and
`ShortIsSettled` (a request that reads dispatched after a backorder has no move left
to ship) give `DispatchedIsCovered`: with no move pending, what is counted has
shipped. Deliveries need `DeliveredWasConfirmed` (what is delivered was shipped by
moves that are confirmed), because a second confirmation must find nothing left to
count.
Each operation on the moves of one allocation is described once, as a change of a
tally over a sequence; `SumChange` of `SumProofs` lifts it to the request and to the
warehouse. `CountersAreTrue`, `DispatchedMeansCovered`, `StockPromisedOnce` and
`DeliveredIsShipped` are its consequences.

Only model-checked: the four liveness properties `PendingIsDecided`,
`LockIsReleased`, `EveryRequestSettles` and `EveryFileIsExamined`. They rest on
fairness, hence on `ENABLED`, which this prover does not handle. What keeps each of
them from being hopeless is proved: `PendingCanBeDecided`, `LockHasHolder`,
`NoRequestForgotten` and `WaitingIsSwept`.

## Findings

* `claim_double_payment`: two payment jobs for the same entitlements both issue
  them: the job has no `identity_key` and no channel, and inserting payments
  conflicts with nothing. `PROJECT.json` quotes the release note.

Met while modelling, without a run of their own:

* `auto_approve_same_user` calls `_do_approve` on a draft, which raises
  (`spp_approval/models/approval_mixin.py:297`), though a test expects "Should be
  auto-approved" (`spp_approval/tests/test_approval_mixin.py:301`).
* A rejection wizard confirmed late rejects an approved record
  (`wizards/rejection_wizard.py:30`; "Only pending records can be rejected.",
  `approval_mixin.py:661`); the same holds of a single entitlement
  (`spp_programs/models/entitlement.py:509`).
* `action_approve_batch` does not go through the tiers (`approval_mixin.py:796`),
  hence `via` in `FullyApproved`.
* Rejection of a single-tier record leaves its review pending
  (`approval_mixin_multitier.py:214`).
* The freeze is tested on submission only (`approval_mixin.py:329`).
* A non-blocking tier holds up the approvers of the next one after all: the record
  always hands an approval to its first pending tier (`approval_review_multitier.py:53`;
  "workflow continues to next tier without waiting for this tier's approval",
  `approval_tier.py:96`). The workflow has gone on, but through the record nobody can
  act on it. When that tier completes, the next waiting tiers open past a blocking one
  that is pending (`:141`).
* A definition of non-blocking tiers only approves its review on creation and
  leaves the record pending; that record cannot be reset
  (`approval_mixin.py:493`).
* A round that ends by revision or batch approval closes its review but leaves its
  tier reviews pending (`approval_mixin.py:546`). Called alone, such a tier review is
  decided by the approvers of whoever submitted the record since
  (`approval_tier_review.py:113`), not by those designated for its own requester.
* Resetting a cycle brings back the cancelled entitlements of members who are no
  longer eligible (`cycle.py:904`), and a member who is eligible again keeps the
  cancelled one (`entitlement_manager_base.py:391`).
* Resetting rejected entitlements to pending opens no review
  (`spp_entitlement.py:147`).
* Entitlements that expire or are cancelled after payment no longer count against
  the fund (`entitlement_manager_base.py:299`).
* The cash manager puts an approved cycle back to `to_approve`
  (`entitlement_manager_cash.py:350`) while its review stays approved; it can then
  neither be approved again nor reset.
* After a failed fund check, `action_approve` of a cycle makes its reviews pending
  again but keeps the `approval_state` the mixin wrote, so that nobody can decide
  the cycle until it is reset (`cycle.py:835`; "# Rollback: Reset approval review
  records that were updated by the mixin", `:832`).
* The approver of the first tier approves the whole cycle: `action_approve` calls
  `approve_cycle` whether or not the review is complete (`cycle.py:815`).
* A request that approves entitlements beside a job of the serial channel spends
  the same balance (`entitlement_manager_base.py:622`; "Add serial
  `entitlement_approval` channel (limit=1) for fund balance safety",
  `readme/HISTORY.md:66`).
* The callback of one pipeline clears the lock of another
  (`cycle_manager_base.py:382`; the lock is "protecting in-flight async pipelines",
  `cycle.py:1089`).
* With drafts among them, automatic approval calls `invalidate_cache`, which Odoo
  19 no longer has (`cycle_manager_base.py:253`).

In change requests:

* A batch approval swallows "Cannot approve: new conflicts detected since
  submission" after the state was written: the request stays approved, unchecked
  and unapplied (`wizards/batch_approval_wizard.py:245`).
* An override given for one conflict covers any later one
  (`models/conflict_mixin.py:729`).
* Two overlapping submissions each miss the other; a manual apply checks nothing.
* `action_quick_cancel_this` has no permission check.

In the DCI server: the header of a status query says "succ" with `completed_count` 1 of
every transaction that is not rejected, pending ones without a response included
(`routers/async_router.py:607`, `:632`); a subscription without a callback address is accepted and stays
"received"; `_retry_callback` looks at neither
the state nor the sender; a job that runs again can turn a delivered answer into
"rejected"; "processing" is never committed, so nobody sees it.

In attachment scanning: `create` does not look at `skip_av_scan_queue`, so a
forensic download is scanned and quarantined like any file, though the sweep
leaves it aside on purpose (`ir_attachment.py:891`); without an encryption
provider the only copy is deleted, though the log says an encrypted backup is
stored (`:417`), and when the quarantine itself fails the bytes stay and are only
flagged (`:425`); "error" is never scanned again by itself; `read`, "Override read to
block access to quarantined files." (`:757`), blanks `datas` only when it is named
among the fields: a read of `raw`, or of all fields, is answered, and so is one of a
forensic copy (`Read` of the model says the same).

In relief requests: rejection leaves the approval review pending, so a request that
was reset to draft "for resubmission" cannot be submitted; a confirmed allocation
wizard may promise stock that is not free, promised to another wizard meanwhile or
never there (`blind`); a new dispatch can read "dispatched" while a backorder is
pending, though a test says it must not (`tests/test_dispatch_backorder.py:174`), which
is why `DispatchedIsCovered` counts a request as taken back only until the next
`action_create_dispatch`; allocating again takes a dispatched request back to
"allocated".

## Not modelled

In `spp_programs`: in-kind entitlements, enrolment and deduplication of program
members, compliance criteria, and the sending of payment files. `CycleJobs` has
the default manager only and gives each job one beneficiary, which is the finest
interleaving. In change requests: strategies other than `field_mapping`, duplicates,
documents. In the DCI server: subscriptions and notifications, rate limits, keys, and
the search itself. In `spp_drims`: donations, returns, transfers, alerts; several
lines of a request; two pickings validated in one call.

Some hazards have no property, and `PROJECT.json` says why: the freeze that is read at
submission only, the approval that reads a version and updates it in the next
statement (one transaction here; PostgreSQL's row lock decides the race), the two
methods that approve a cycle in a row, the moment the ORM flushes before a raw query,
and the allocation wizard, whose excess `blind` names.

What some properties leave open: `FundCoversApproved` adds up the same approved
entitlements as the code's balance, so it does not see that a paid entitlement which
expires gives its amount back. `PaidEntitlementIsFinal` says nothing of paying twice;
that is `DisbursedOnce` and the claim run. `Cycle` takes one request at a time, and in
`CycleJobs` the theorem about the fund leaves out a request that approves beside a job;
the overlap is a finding. `RivalsExclude` names what lets rivals through (an override,
a batch, an overlap) rather than forbid it. `EveryRequestSettles` is about
transactions, not about a subscription without an address. In `DciTransactions` a job
that was beaten to its record, or whose worker died, always runs again; that
`process_async_*` catches every exception (`transaction.py:260`) and may swallow such
an error, or meet one while it queues the next job, and so end a job for good, is not
modelled.

Wording, notifications, chatter messages and activities are left out everywhere.
Record rules and access rights are not modelled: users are those who may call the
handlers. The rest of the repository is most of its lines: forms, translations of
expressions and requests, generated data, configuration and reports, in which one
user changes one record in one transaction, or nothing is changed. A model of them
would repeat an assignment, so the share of the lines that is mapped stays small by
the nature of the code. Consent, keys, artifact versions, cases and grievances have
state of their own and no module yet.

## Running

`tlc -config <run>.cfg <module>` with the module that `PROJECT.json` names for the
run; `tlapm <module>.tla` for each module whose name ends in `Proofs`. The longest
run takes about three minutes on two workers.
