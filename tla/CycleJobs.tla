------------------------------- MODULE CycleJobs -------------------------------
(***************************************************************************)
(* The asynchronous half of spp_programs: a cycle with 200 rows or more,   *)
(* whose handlers split their work into jobs of a group ("pipeline"), set  *)
(* the cycle's operation lock and leave it to the group's callback to      *)
(* clear it.  Jobs, and what a user runs in the request itself because     *)
(* there are fewer rows, are transactions on a snapshot: they compute      *)
(* their writes from the state they began in, and are retried when another *)
(* transaction changed one of those rows meanwhile (REPEATABLE READ).      *)
(*                                                                         *)
(* Handlers that write the cycle's own row are one step: two of them never *)
(* overlap, as the second would be retried.  Module Cycle has the rest of  *)
(* what the handlers do; here an entitlement has the default manager.      *)
(***************************************************************************)
EXTENDS Integers, FiniteSetsExt

CONSTANTS
    Beneficiaries,  \* members of the cycle, each in a chunk of its own
    Amount,         \* initial_amount of each one's entitlement
    Posted,         \* what the program's funds hold
    AutoApprove,    \* auto_approve_entitlements
    Handlers,       \* operations that users may dispatch
    Direct,         \* operations that a user may run in the request
    Slots,          \* bound on the pipelines under way
    Workers,        \* job workers (QUEUE_JOB_CONCURRENCY)
    Clerks,         \* users whose requests overlap with jobs
    Crashes         \* whether the server may restart

Channel ==
    [eligibility |-> "cycle", prepare |-> "cycle", payments |-> "root",
     pending |-> "entitlement_approval", validate |-> "entitlement_approval",
     cancel |-> "entitlement_approval"]
Operations == DOMAIN Channel
Sessions == Workers \cup Clerks

ASSUME JobsAssumption ==
    /\ IsFiniteSet(Beneficiaries)
    /\ IsFiniteSet(Workers)
    /\ Amount \in [Beneficiaries -> Nat \ {0}]
    /\ Posted \in Nat
    /\ AutoApprove \in BOOLEAN
    /\ Handlers \subseteq Operations \cup {"approve", "reject", "reset"}
    /\ Direct \subseteq Operations
    /\ Slots \subseteq Nat \ {0}
    /\ Workers \cap Clerks = {}
    /\ Crashes \in BOOLEAN

VARIABLES
    cycle,        \* spp.cycle.state
    reviewed,     \* whether the cycle has its approved review
    locked,       \* spp.cycle.is_locked
    member,       \* state of each membership
    ent,          \* state of each entitlement
    granted,      \* spp.entitlement rows of each beneficiary
    disbursed,    \* account.payment rows of each entitlement
    paid,         \* spp.payment rows of each entitlement
    pipelines,    \* groups of jobs that wait or run
    tx            \* the transaction of each session

data == <<member, ent, granted, disbursed, paid>>
vars == <<cycle, reviewed, locked, data, pipelines, tx>>

Free == [op |-> "none", todo |-> {}, failed |-> FALSE]
Idle == [op |-> "none"]

MemberStates == {"enrolled", "not_eligible"}
EntStates == {"none", "draft", "pending_validation", "approved", "cancelled"}

Pipeline == [op : Operations, todo : SUBSET SUBSET Beneficiaries, failed : BOOLEAN]
WriteSet ==
    [member : UNION {[S -> MemberStates] : S \in SUBSET Beneficiaries},
     ent : UNION {[S -> EntStates] : S \in SUBSET Beneficiaries},
     granted : SUBSET Beneficiaries,
     disbursed : SUBSET Beneficiaries,
     paid : SUBSET Beneficiaries]
Transactions ==
    [op : Operations, slot : Slots \cup {0}, rows : SUBSET Beneficiaries,
     writes : WriteSet, stale : BOOLEAN]

TypeOK ==
    /\ cycle \in {"draft", "to_approve", "approved", "cancelled"}
    /\ reviewed \in BOOLEAN /\ locked \in BOOLEAN
    /\ member \in [Beneficiaries -> MemberStates]
    /\ ent \in [Beneficiaries -> EntStates]
    /\ granted \in [Beneficiaries -> Nat]
    /\ disbursed \in [Beneficiaries -> Nat]
    /\ paid \in [Beneficiaries -> Nat]
    /\ pipelines \in [Slots -> Pipeline \cup {Free}]
    /\ tx \in [Sessions -> Transactions \cup {Idle}]

-----------------------------------------------------------------------------
(* What an operation writes, computed from the present state *)

In(S) == {b \in Beneficiaries : ent[b] \in S}
Enrolled == {b \in Beneficiaries : member[b] = "enrolled"}
Undecided == In({"draft", "pending_validation"})
Total(S) == MapThenSumSet(LAMBDA b : Amount[b], S)
Balance == Posted - Total(In({"approved"}))

To(s, S) == [b \in S |-> s]
Over(f, w) == [b \in Beneficiaries |-> IF b \in DOMAIN w THEN w[b] ELSE f[b]]
Plus(count, S) == [b \in Beneficiaries |-> count[b] + (IF b \in S THEN 1 ELSE 0)]

NoWrites == [member |-> To("", {}), ent |-> To("", {}), granted |-> {},
             disbursed |-> {}, paid |-> {}]

\* What approve_entitlements approves of S while the balance lasts.
Affordable(S) ==
    {P \in SUBSET S :
        /\ Total(P) <= Balance
        /\ P # S => \E b \in S \ P : Total(P) + Amount[b] > Balance}

Eligibility(S) ==
    {[NoWrites EXCEPT
        !.member = [b \in S |-> IF b \in E THEN "enrolled" ELSE "not_eligible"],
        !.ent = To("cancelled", (S \ E) \ In({"none"}))] : E \in SUBSET S}

Preparation(S) ==
    LET R == S \cap Enrolled \cap In({"none"})
    IN  {[NoWrites EXCEPT !.ent = To("draft", R), !.granted = R]}

\* Drafts cannot be approved: CanFail.
Approvals(S) ==
    {[NoWrites EXCEPT !.ent = To("approved", P), !.disbursed = P] :
        P \in {P \in Affordable(S \cap Undecided) : P \cap In({"draft"}) = {}}}

Payments(S) ==
    {[NoWrites EXCEPT !.paid = {b \in S \cap In({"approved"}) : paid[b] = 0}]}

Writes(op, S) ==
    CASE op = "eligibility" -> Eligibility(S)
      [] op = "prepare"     -> Preparation(S)
      [] op = "validate"    -> Approvals(S)
      [] op = "payments"    -> Payments(S)
      [] op = "cancel"      -> {[NoWrites EXCEPT !.ent = To("cancelled", S)]}
      [] op = "pending"     -> IF S \subseteq In({"draft"})
                               THEN {[NoWrites EXCEPT !.ent = To("pending_validation", S)]}
                               ELSE {}

\* action_submit_for_approval and _do_approve raise.
CanFail(op, S) ==
    \/ op = "pending" /\ ~ S \subseteq In({"draft"})
    \/ op = "validate" /\ \E P \in Affordable(S \cap Undecided) : P \cap In({"draft"}) # {}

\* Mutant: creating an entitlement touches no row of the beneficiary.
RowsOfEntitlements(w) ==
    ({"member"} \X DOMAIN w.member) \cup ({"entitlement"} \X (DOMAIN w.ent \ w.granted))

\* The rows it updates.  A new entitlement updates the beneficiary's stored
\* entitlements_count; a new payment updates no row.
Rows(w) ==
    ({"member"} \X DOMAIN w.member)
    \cup ({"entitlement"} \X (DOMAIN w.ent \ w.granted))
    \cup ({"partner"} \X w.granted)

\* The transactions of others that updated one of these rows become stale.
Invalidate(transactions, rows) ==
    [s \in Sessions |->
        IF transactions[s] # Idle /\ Rows(transactions[s].writes) \cap rows # {}
        THEN [transactions[s] EXCEPT !.stale = TRUE] ELSE transactions[s]]

-----------------------------------------------------------------------------
(* Pipelines *)

Chunks(S) == {{b} : b \in S}
Running(i) == {s \in Sessions : tx[s] # Idle /\ tx[s].slot = i}
UnderWay(op) ==
    UNION {pipelines[i].todo \cup {tx[s].rows : s \in Running(i)} :
              i \in {i \in Slots : pipelines[i].op = op}}

\* The jobs of the cycle channel have an identity_key; the others do not.
Fresh(op, jobs) == IF Channel[op] = "cycle" THEN jobs \ UnderWay(op) ELSE jobs

FreeSlots == {i \in Slots : pipelines[i] = Free}

\* _*_async: the lock, and the group of jobs with its callbacks; when every job
\* is queued already there is no other group to call back.
Enqueue(op, jobs) ==
    /\ locked' = TRUE
    /\ \/ Fresh(op, jobs) = {} /\ UNCHANGED pipelines
       \/ /\ Fresh(op, jobs) # {}
          /\ \E i \in FreeSlots :
                /\ \A j \in FreeSlots : i <= j
                /\ pipelines' = [pipelines EXCEPT ![i] =
                                    [op |-> op, todo |-> Fresh(op, jobs), failed |-> FALSE]]

\* Nothing to do is done in the request.
EnqueueIf(op, jobs) ==
    IF jobs = {} THEN UNCHANGED <<pipelines, locked>> ELSE Enqueue(op, jobs)

\* The entry points of the operations: their guard and the rows they take.
Allowed(op) == op \in {"eligibility", "prepare"} => cycle = "draft"
RowsFor(op) ==
    CASE op = "eligibility" -> Beneficiaries
      [] op = "prepare"     -> Enrolled
      [] op = "validate"    -> Undecided
      [] op = "payments"    -> In({"approved"})

\* check_eligibility, prepare_entitlement, validate_entitlement, prepare_payment
\* of the cycle with many rows; prepare_payment makes one job of them all.
Dispatch(op) ==
    /\ op \in Handlers
    /\ Allowed(op) /\ RowsFor(op) # {}
    /\ Enqueue(op, IF op = "payments" THEN {RowsFor(op)} ELSE Chunks(RowsFor(op)))
    /\ UNCHANGED <<cycle, reviewed, data, tx>>

\* action_submit_for_approval of the cycle.
SubmitCycle ==
    /\ "pending" \in Handlers
    /\ cycle = "draft"
    /\ ~locked
    /\ In({"none"}) # Beneficiaries
    /\ cycle' = "to_approve"
    /\ EnqueueIf("pending", Chunks(In({"draft"})))
    /\ UNCHANGED <<reviewed, data, tx>>

\* action_approve of the cycle, which does not look at the lock.
ApproveCycle ==
    /\ "approve" \in Handlers
    /\ cycle = "to_approve"
    /\ cycle' = "approved"
    /\ reviewed' = TRUE
    /\ IF AutoApprove
       THEN Total(Undecided) <= Balance /\ EnqueueIf("validate", Chunks(Undecided))
       ELSE UNCHANGED <<pipelines, locked>>
    /\ UNCHANGED <<data, tx>>

\* The rejection wizard, opened while the cycle was to_approve.
RejectCycle ==
    LET S == In({"pending_validation"})
    IN  /\ "reject" \in Handlers
        /\ cycle \in {"to_approve", "approved"}
        /\ cycle' = "cancelled"
        /\ ent' = Over(ent, To("cancelled", S))
        /\ tx' = Invalidate(tx, {"entitlement"} \X S)
        /\ UNCHANGED <<reviewed, locked, member, granted, disbursed, paid, pipelines>>

\* Mutant: approved reviews of the entitlements do not matter.
ResetCycleOfApproved ==
    LET S == In({"pending_validation", "cancelled"})
    IN  /\ "reset" \in Handlers
        /\ cycle \in {"to_approve", "cancelled"}
        /\ ~reviewed
        /\ cycle' = "draft"
        /\ ent' = Over(ent, To("draft", S))
        /\ tx' = Invalidate(tx, {"entitlement"} \X S)
        /\ UNCHANGED <<reviewed, locked, member, granted, disbursed, paid, pipelines>>

\* action_reset_to_draft of the cycle; whoever was approved has a disbursement.
ResetCycle ==
    LET S == In({"pending_validation", "cancelled"})
    IN  /\ "reset" \in Handlers
        /\ cycle \in {"to_approve", "cancelled"}
        /\ ~reviewed
        /\ \A b \in S : disbursed[b] = 0
        /\ cycle' = "draft"
        /\ ent' = Over(ent, To("draft", S))
        /\ tx' = Invalidate(tx, {"entitlement"} \X S)
        /\ UNCHANGED <<reviewed, locked, member, granted, disbursed, paid, pipelines>>

\* toggle_active of the program.
ArchiveProgram ==
    /\ "cancel" \in Handlers
    /\ cycle \in {"draft", "to_approve", "approved"}
    /\ cycle' = "cancelled"
    /\ EnqueueIf("cancel", Chunks(Undecided \cup In({"approved"})))
    /\ UNCHANGED <<reviewed, data, tx>>

\* action_force_unlock, by a system administrator.
ForceUnlock ==
    /\ Crashes /\ locked
    /\ locked' = FALSE
    /\ UNCHANGED <<cycle, reviewed, data, pipelines, tx>>

\* Mutant: a group in which a job failed calls nothing back.
CallbackOfDone(i) ==
    /\ pipelines[i] # Free
    /\ pipelines[i].todo = {} /\ Running(i) = {}
    /\ ~pipelines[i].failed
    /\ pipelines' = [pipelines EXCEPT ![i] = Free]
    /\ locked' = FALSE
    /\ UNCHANGED <<cycle, reviewed, data, tx>>

\* Mutant: the group calls back as soon as its last job was taken up.
CallbackEarly(i) ==
    /\ pipelines[i] # Free
    /\ pipelines[i].todo = {}
    /\ pipelines' = [pipelines EXCEPT ![i] = Free]
    /\ locked' = FALSE
    /\ UNCHANGED <<cycle, reviewed, data, tx>>

\* mark_*_as_done or mark_*_as_failed, once all jobs of the group ended: either
\* clears the lock, whoever else holds it.
Callback(i) ==
    /\ pipelines[i] # Free
    /\ pipelines[i].todo = {} /\ Running(i) = {}
    /\ pipelines' = [pipelines EXCEPT ![i] = Free]
    /\ locked' = FALSE
    /\ UNCHANGED <<cycle, reviewed, data, tx>>

-----------------------------------------------------------------------------
(* Transactions *)

Transaction(op, slot, S, w) ==
    [op |-> op, slot |-> slot, rows |-> S, writes |-> w, stale |-> FALSE]

\* Mutant: the limit of the entitlement channel is that of the cycle channel.
LimitOfFour == [cycle |-> 4, entitlement_approval |-> 4, root |-> Cardinality(Workers)]

\* queue_data.xml: how many jobs of a channel run at a time.
Limit == [cycle |-> 4, entitlement_approval |-> 1, root |-> Cardinality(Workers)]
Room(op) ==
    Cardinality({s \in Workers : tx[s] # Idle /\ Channel[tx[s].op] = Channel[op]})
        < Limit[Channel[op]]

StartJob(s, i, S) ==
    LET op == pipelines[i].op
    IN  /\ tx[s] = Idle
        /\ S \in pipelines[i].todo
        /\ Room(op)
        /\ \E w \in Writes(op, S) : tx' = [tx EXCEPT ![s] = Transaction(op, i, S, w)]
        /\ pipelines' = [pipelines EXCEPT ![i].todo = @ \ {S}]
        /\ UNCHANGED <<cycle, reviewed, locked, data>>

FailJob(i, S) ==
    /\ S \in pipelines[i].todo
    /\ Room(pipelines[i].op)
    /\ CanFail(pipelines[i].op, S)
    /\ pipelines' = [pipelines EXCEPT ![i].todo = @ \ {S}, ![i].failed = TRUE]
    /\ UNCHANGED <<cycle, reviewed, locked, data, tx>>

\* The same operations with few rows, in the user's request; approve_entitlement
\* validates the entitlements that the user selects.
Selections(op) == IF op = "validate" THEN SUBSET Undecided ELSE {RowsFor(op)}
StartRequest(c, op) ==
    /\ op \in Direct
    /\ tx[c] = Idle
    /\ Allowed(op)
    /\ \E S \in Selections(op) \ {{}} : \E w \in Writes(op, S) :
          tx' = [tx EXCEPT ![c] = Transaction(op, 0, S, w)]
    /\ UNCHANGED <<cycle, reviewed, locked, data, pipelines>>

Apply(w) ==
    /\ member' = Over(member, w.member)
    /\ ent' = Over(ent, w.ent)
    /\ granted' = Plus(granted, w.granted)
    /\ disbursed' = Plus(disbursed, w.disbursed)
    /\ paid' = Plus(paid, w.paid)

Commit(s) ==
    /\ tx[s] # Idle /\ ~tx[s].stale
    /\ Apply(tx[s].writes)
    /\ tx' = Invalidate([tx EXCEPT ![s] = Idle], Rows(tx[s].writes))
    /\ UNCHANGED <<cycle, reviewed, locked, pipelines>>

\* A job goes back to its group.
Requeue(s) ==
    pipelines' = IF tx[s].slot = 0 THEN pipelines
                 ELSE [pipelines EXCEPT ![tx[s].slot].todo = @ \cup {tx[s].rows}]

\* could not serialize access due to concurrent update
Retry(s) ==
    /\ tx[s] # Idle /\ tx[s].stale
    /\ tx' = [tx EXCEPT ![s] = Idle]
    /\ Requeue(s)
    /\ UNCHANGED <<cycle, reviewed, locked, data>>

\* A worker dies once its job committed, and the job is taken up again.
CommitUnnoticed(s) ==
    /\ Crashes
    /\ tx[s] # Idle /\ ~tx[s].stale /\ tx[s].slot # 0
    /\ Apply(tx[s].writes)
    /\ tx' = Invalidate([tx EXCEPT ![s] = Idle], Rows(tx[s].writes))
    /\ Requeue(s)
    /\ UNCHANGED <<cycle, reviewed, locked>>

\* A hard restart, after which no callback runs: the lock stays.
Restart ==
    /\ Crashes
    /\ tx' = [s \in Sessions |-> Idle]
    /\ pipelines' = [i \in Slots |-> Free]
    /\ UNCHANGED <<cycle, reviewed, locked, data>>

-----------------------------------------------------------------------------

Init ==
    /\ cycle = "draft"
    /\ reviewed = FALSE /\ locked = FALSE
    /\ member = To("enrolled", Beneficiaries)
    /\ ent = To("none", Beneficiaries)
    /\ granted = To(0, Beneficiaries)
    /\ disbursed = To(0, Beneficiaries)
    /\ paid = To(0, Beneficiaries)
    /\ pipelines = [i \in Slots |-> Free]
    /\ tx = [s \in Sessions |-> Idle]

UserNext ==
    \/ \E op \in {"eligibility", "prepare", "validate", "payments"} : Dispatch(op)
    \/ SubmitCycle
    \/ ApproveCycle
    \/ RejectCycle
    \/ ResetCycle
    \/ ArchiveProgram
    \/ ForceUnlock
    \/ \E c \in Clerks, op \in {"eligibility", "prepare", "validate", "payments"} :
          StartRequest(c, op)

JobNext ==
    \/ \E i \in Slots : \E S \in pipelines[i].todo :
          FailJob(i, S) \/ \E s \in Workers : StartJob(s, i, S)
    \/ \E i \in Slots : Callback(i)
    \/ \E s \in Sessions : Commit(s) \/ Retry(s) \/ CommitUnnoticed(s)
    \/ Restart

Next == UserNext \/ JobNext
Spec == Init /\ [][Next]_vars

\* A worker takes up the jobs that wait and ends those it took, the callback
\* follows, and no job is beaten by other transactions for ever.
Fairness ==
    /\ \A i \in Slots :
          /\ WF_vars(Callback(i))
          /\ WF_vars(\E S \in pipelines[i].todo :
                        FailJob(i, S) \/ \E s \in Workers : StartJob(s, i, S))
    /\ \A s \in Sessions : WF_vars(Retry(s)) /\ SF_vars(Commit(s))
FairSpec == Spec /\ Fairness

-----------------------------------------------------------------------------
(* Properties *)

\* Whatever jobs of however many pipelines do, in the serial channel that
\* queue_data.xml gives them, they implement the fund: what they approve never
\* exceeds what it holds, though each knows the balance of its snapshot only.
F == INSTANCE Fund WITH Entitlements <- Beneficiaries, posted <- Posted,
                        charged <- In({"approved"})
FundSpec == F!Spec

\* No entitlement is disbursed twice, by jobs that are retried or repeated after
\* a crash, by requests beside them, or over rounds of approval and reset.
DisbursedOnce == \A b \in Beneficiaries : disbursed[b] <= 1

\* prepare_entitlements, run twice at the same time, gives nobody two
\* entitlements, although no constraint of the table forbids it.
OneEntitlementEach == \A b \in Beneficiaries : granted[b] <= 1

\* While no server restarts, the lock that a pipeline sets is cleared, however
\* its jobs end.
LockIsReleased == locked ~> ~locked

-----------------------------------------------------------------------------
(* The inductive invariant *)

\* What the writes of a transaction rely on until another one beats it, e being
\* the entitlements: it creates them where there are none, approves and
\* disburses what is pending, and submits drafts.
Sound(e, w) ==
    /\ w.granted \subseteq DOMAIN w.ent
    /\ \A b \in DOMAIN w.ent :
          /\ w.ent[b] # "none"
          /\ e[b] = "none" <=> b \in w.granted
          /\ w.ent[b] = "draft" <=> b \in w.granted
          /\ w.ent[b] = "pending_validation" => e[b] = "draft"
    /\ \A b \in w.disbursed :
          b \in DOMAIN w.ent /\ w.ent[b] = "approved" /\ e[b] = "pending_validation"

\* Jobs that cancel were given entitlements that exist.
RowsExist(e, op, S) == op = "cancel" => \A b \in S : e[b] # "none"

\* Every entitlement was created once, and disbursed at most once and only when
\* it was decided.
CountsMatch ==
    \A b \in Beneficiaries :
        /\ granted[b] = IF ent[b] = "none" THEN 0 ELSE 1
        /\ disbursed[b] <= 1
        /\ ent[b] \in {"none", "draft", "pending_validation"} => disbursed[b] = 0

\* Transactions that nobody beat are sound, each belongs to the group it came
\* from, and the groups wait with rows that exist.
JobsSound ==
    /\ \A s \in Sessions : tx[s] # Idle =>
          /\ ~tx[s].stale => Sound(ent, tx[s].writes)
          /\ tx[s].slot # 0 => pipelines[tx[s].slot].op = tx[s].op
          /\ RowsExist(ent, tx[s].op, tx[s].rows)
    /\ \A i \in Slots : \A S \in pipelines[i].todo : RowsExist(ent, pipelines[i].op, S)

JobsInv == TypeOK /\ CountsMatch /\ JobsSound
=============================================================================
