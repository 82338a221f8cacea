-------------------------- MODULE DciTransactions --------------------------
(***************************************************************************)
(* The asynchronous requests of one DCI sender (spp.dci.transaction): each *)
(* is acknowledged, processed by a queue job and answered by a POST to the *)
(* sender's callback URI, which is tried again when it fails.              *)
(*                                                                         *)
(* A job, or an administrator's request, is a transaction in two steps: it *)
(* reads the record, works and posts; then it commits what it made of the  *)
(* record, unless another committed a change of it, and starts over. What  *)
(* was posted stays posted. job_worker is outside the repository: a job    *)
(* whose worker dies, or whose transaction fails, is run again.            *)
(***************************************************************************)
EXTENDS Integers, FiniteSets

CONSTANTS
    Txns,         \* transaction ids the sender uses
    Workers,      \* workers of the channel "dci"
    Clerks,       \* administrators who press "retry callback"
    MaxRetries,   \* max_retries
    MaxPending,   \* MAX_PENDING_JOBS_PER_SENDER
    MaxFaults,    \* bound on workers that die
    MaxManual,    \* bound on callbacks retried by hand
    MaxToggles    \* bound on the sender's registration changing

ASSUME TransactionAssumption ==
    /\ Workers \cap Clerks = {}
    /\ {MaxRetries, MaxPending, MaxFaults, MaxManual, MaxToggles} \subseteq Nat

States == {"absent", "received", "pending", "success", "rejected",
           "callback_sent", "callback_failed"}

Record == [state : States, search : BOOLEAN, callback : BOOLEAN,
           retries : Nat, response : BOOLEAN]

VARIABLES
    active,       \* the sender is registered and active
    txn,          \* the record of each transaction id
    processing,   \* transactions whose process_async_* job is queued
    retrying,     \* queued _retry_callback jobs of each transaction
    session,      \* what each worker and clerk is doing
    allowance,    \* history: POSTs each transaction may still cause
    faults, manuals, toggles   \* counters for the bounds

vars == <<active, txn, processing, retrying, session, allowance,
          faults, manuals, toggles>>

Sessions == Workers \cup Clerks
Idle == [job |-> "none"]
Busy == [job : {"process", "retry", "manual"}, of : Txns, record : Record,
         again : BOOLEAN, stale : BOOLEAN]

TypeOK ==
    /\ active \in BOOLEAN
    /\ txn \in [Txns -> Record]
    /\ processing \subseteq Txns
    /\ retrying \in [Txns -> Nat]
    /\ session \in [Sessions -> Busy \cup {Idle}]
    /\ allowance \in [Txns -> Int]
    /\ {faults, manuals, toggles} \subseteq Nat

-----------------------------------------------------------------------------
(* What a job makes of its record: the record it writes, whether it queues  *)
(* another try, and whether it posted                                       *)

Result(r, again, posted) == [record |-> r, again |-> again, posted |-> posted]
Moved(r, st) == [r EXCEPT !.state = st]

\* validate_callback_url refuses the address, as it may at any time (it asks
\* the DNS); or the POST succeeds.
Refused(r) == Result(Moved(r, "callback_failed"), FALSE, FALSE)
Delivered(r) == Result(Moved(r, "callback_sent"), FALSE, TRUE)

\* Mutant: the first failure is counted and nothing is queued.
SendFailedQuietly(r) == Result([r EXCEPT !.retries = @ + 1], FALSE, TRUE)

\* The POST fails in _send_callback or _send_callback_dict.
SendFailed(r) ==
    LET n == r.retries + 1
    IN  IF n < MaxRetries THEN Result([r EXCEPT !.retries = n], TRUE, TRUE)
        ELSE Result([r EXCEPT !.retries = n, !.state = "callback_failed"], FALSE, TRUE)

\* Mutant: the limit is compared after one try too many.
RetryFailedLate(r) ==
    IF r.retries <= MaxRetries THEN Result([r EXCEPT !.retries = @ + 1], TRUE, TRUE)
    ELSE Result(Moved(r, "callback_failed"), FALSE, TRUE)

\* Mutant: the retry that fails leaves its state to the next, which nobody queues.
RetryFailedQuietly(r) ==
    Result([r EXCEPT !.retries = @ + 1], FALSE, TRUE)

\* The POST fails in _retry_callback.
RetryFailed(r) ==
    IF r.retries < MaxRetries THEN Result([r EXCEPT !.retries = @ + 1], TRUE, TRUE)
    ELSE Result(Moved(r, "callback_failed"), FALSE, TRUE)

\* _send_callback; an error that is not the request's own ends in the handler
\* of process_async_*, which rejects the transaction.
SendCallback(r) ==
    {Refused(r), Delivered(r), SendFailed(r), Result(Moved(r, "rejected"), FALSE, FALSE)}

\* _retry_callback, which looks at neither the state nor the sender.
RetryCallback(r) ==
    IF ~r.response THEN {Refused(r)}
    ELSE IF ~r.callback THEN {Result(r, FALSE, FALSE)}
    ELSE {Refused(r), Delivered(r), RetryFailed(r)}

\* Mutant: the response is only kept in memory.
AnsweredUnstored(r) == [r EXCEPT !.state = "success"]

Answered(r) == [r EXCEPT !.state = "success", !.response = TRUE]

\* What ends as a response is posted to the address, if there is one.
Respond(r) ==
    IF r.callback THEN SendCallback(Answered(r)) ELSE {Result(Answered(r), FALSE, FALSE)}

\* Mutant: a state that is not in the selection.
RejectMisspelt(r) == Result(Moved(r, "failed"), FALSE, FALSE)

Reject(r) == Result(Moved(r, "rejected"), FALSE, FALSE)

\* process_async_search: the sender may have been archived since.
ProcessSearch(r) == {Reject(r)} \cup (IF active THEN Respond(r) ELSE {})

\* process_async_subscribe, process_async_unsubscribe, process_async_txn_status.
ProcessNotice(r) == {Reject(r)} \cup Respond(r)

Process(r) == IF r.search THEN ProcessSearch(r) ELSE ProcessNotice(r)

-----------------------------------------------------------------------------
(* Actions *)

\* A record is created for an id that is new, and acknowledged. A request without
\* an address is processed only if it is a search.
Accept(t, search, callback) ==
    LET queued == search \/ callback
    IN  /\ txn[t].state = "absent"
        /\ txn' = [txn EXCEPT ![t] =
                     [state |-> IF queued THEN "pending" ELSE "received",
                      search |-> search, callback |-> callback,
                      retries |-> 0, response |-> FALSE]]
        /\ processing' = IF queued THEN processing \cup {t} ELSE processing
        /\ allowance' = [allowance EXCEPT ![t] = 1 + MaxRetries]
        /\ UNCHANGED <<active, retrying, session, faults, manuals, toggles>>

AsyncSearch(t, callback) == active /\ Accept(t, TRUE, callback)
Subscribe(t, callback) == active /\ Accept(t, FALSE, callback)

\* unsubscribe and async_txn_status do without a sender.
Unsubscribe(t, callback) == Accept(t, FALSE, callback)
AsyncTxnStatus(t, callback) == Accept(t, FALSE, callback)

\* bulk_search_upload: only an active sender's pending requests are counted.
BulkSearchUpload(t, callback) ==
    /\ active => Cardinality({u \in Txns : txn[u].state = "pending"}) < MaxPending
    /\ Accept(t, TRUE, callback)

\* A session does the job of t that results in res.
Work(w, job, t, res) ==
    /\ session' = [session EXCEPT ![w] =
          [job |-> job, of |-> t, record |-> res.record, again |-> res.again,
           stale |-> FALSE]]
    /\ allowance' = [allowance EXCEPT ![t] =
          @ - (IF res.posted THEN 1 ELSE 0) + (IF job = "manual" THEN 1 + MaxRetries ELSE 0)]

\* A worker takes up a job.
StartProcess(w, t) ==
    /\ session[w] = Idle
    /\ t \in processing
    /\ processing' = processing \ {t}
    /\ \E res \in Process(txn[t]) : Work(w, "process", t, res)
    /\ UNCHANGED <<active, txn, retrying, faults, manuals, toggles>>

StartRetry(w, t) ==
    /\ session[w] = Idle
    /\ retrying[t] > 0
    /\ retrying' = [retrying EXCEPT ![t] = @ - 1]
    /\ \E res \in RetryCallback(txn[t]) : Work(w, "retry", t, res)
    /\ UNCHANGED <<active, txn, processing, faults, manuals, toggles>>

\* action_retry_callback.
StartManual(c, t) ==
    /\ session[c] = Idle
    /\ manuals < MaxManual
    /\ txn[t].state \in {"callback_failed", "success"}
    /\ txn[t].response
    /\ \E res \in RetryCallback([txn[t] EXCEPT !.retries = 0]) : Work(c, "manual", t, res)
    /\ manuals' = manuals + 1
    /\ UNCHANGED <<active, txn, processing, retrying, faults, toggles>>

\* The effects of a commit: those who read the record of t before fail.
Committed(w) ==
    LET s == session[w]
    IN  /\ s # Idle
        /\ ~s.stale
        /\ txn' = [txn EXCEPT ![s.of] = s.record]
        /\ retrying' = IF s.again THEN [retrying EXCEPT ![s.of] = @ + 1] ELSE retrying
        /\ session' = [v \in Sessions |->
              IF v = w THEN Idle
              ELSE IF session[v] # Idle /\ session[v].of = s.of
                   THEN [session[v] EXCEPT !.stale = TRUE] ELSE session[v]]

Commit(w) ==
    /\ Committed(w)
    /\ UNCHANGED <<active, processing, allowance, faults, manuals, toggles>>

\* The job of w is queued again; a request of a clerk is not.
Requeued(w) ==
    LET s == session[w]
    IN  /\ processing' = IF s.job = "process" THEN processing \cup {s.of} ELSE processing
        /\ retrying' = IF s.job = "retry" THEN [retrying EXCEPT ![s.of] = @ + 1] ELSE retrying
        /\ allowance' = [allowance EXCEPT ![s.of] = @ + 1]
        /\ session' = [session EXCEPT ![w] = Idle]

\* The transaction fails on the row another one wrote.
StartOver(w) ==
    /\ session[w] # Idle
    /\ session[w].stale
    /\ Requeued(w)
    /\ UNCHANGED <<active, txn, faults, manuals, toggles>>

\* The worker dies, at its deadline or with its process.
Die(w) ==
    /\ session[w] # Idle
    /\ faults < MaxFaults
    /\ Requeued(w)
    /\ faults' = faults + 1
    /\ UNCHANGED <<active, txn, manuals, toggles>>

\* It dies after its commit, which the queue does not notice: the job, which
\* is not the retry it queued, runs once more.
CommitUnnoticed(w) ==
    /\ session[w] # Idle
    /\ session[w].job = "process"
    /\ faults < MaxFaults
    /\ Committed(w)
    /\ processing' = processing \cup {session[w].of}
    /\ allowance' = [allowance EXCEPT ![session[w].of] = @ + 1]
    /\ faults' = faults + 1
    /\ UNCHANGED <<active, manuals, toggles>>

\* An administrator archives the sender or restores it.
ToggleSender ==
    /\ toggles < MaxToggles
    /\ active' = ~active
    /\ toggles' = toggles + 1
    /\ UNCHANGED <<txn, processing, retrying, session, allowance, faults, manuals>>

\* dci_status.
DciStatus(r) ==
    CASE r.state = "received" -> "rcvd"
      [] r.state = "pending" -> "pdng"
      [] r.state \in {"success", "callback_sent", "callback_failed"} -> "succ"
      [] r.state = "rejected" -> "rjct"

\* What a transaction-status query answers about t: in its header "succ" of all
\* that is not rejected, pending requests included, and as txn_status the stored
\* response or, where there is none, a minimal one that holds the DCI status.
TxnStatus(t) ==
    LET status == IF txn[t].state = "absent" THEN "rjct" ELSE DciStatus(txn[t])
    IN  [status_code |-> IF status # "rjct" THEN "succ" ELSE "rjct",
         txn_status |-> IF txn[t].response THEN "response" ELSE status]

-----------------------------------------------------------------------------

NoRecord == [state |-> "absent", search |-> FALSE, callback |-> FALSE,
             retries |-> 0, response |-> FALSE]

Init ==
    /\ active = TRUE
    /\ txn = [t \in Txns |-> NoRecord]
    /\ processing = {}
    /\ retrying = [t \in Txns |-> 0]
    /\ session = [w \in Sessions |-> Idle]
    /\ allowance = [t \in Txns |-> 0]
    /\ faults = 0 /\ manuals = 0 /\ toggles = 0

Next ==
    \/ \E t \in Txns :
          \/ \E callback \in BOOLEAN :
                \/ AsyncSearch(t, callback)
                \/ Subscribe(t, callback)
                \/ Unsubscribe(t, callback)
                \/ AsyncTxnStatus(t, callback)
                \/ BulkSearchUpload(t, callback)
          \/ \E w \in Workers : StartProcess(w, t) \/ StartRetry(w, t)
          \/ \E c \in Clerks : StartManual(c, t)
    \/ \E w \in Sessions : Commit(w) \/ StartOver(w)
    \/ \E w \in Workers : Die(w) \/ CommitUnnoticed(w)
    \/ ToggleSender

Spec == Init /\ [][Next]_vars

\* The queue runs each job it holds, and what runs ends. The few jobs of one
\* transaction get in each other's way only while there are others to commit.
FairSpec ==
    /\ Spec
    /\ \A t \in Txns :
          /\ WF_vars(\E w \in Workers : StartProcess(w, t))
          /\ SF_vars(\E w \in Workers : StartRetry(w, t))
    /\ \A w \in Sessions : WF_vars(Commit(w) \/ StartOver(w))

-----------------------------------------------------------------------------
(* Properties *)

\* The sender was told to expect an answer and has none, nor a refusal.
Owed(t) == \/ txn[t].state = "pending"
           \/ txn[t].state = "success" /\ txn[t].callback

\* Somebody works on t or will, and may leave it settled.
InHand(t) ==
    \/ t \in processing \/ retrying[t] > 0
    \/ \E w \in Workers : session[w] # Idle /\ session[w].of = t

\* No request is forgotten: as long as an answer is owed a job of it is queued
\* or running, whatever fails, is repeated, retried by hand or beaten to the
\* record (_send_callback, _retry_callback, action_retry_callback).
NothingForgotten == \A t \in Txns : Owed(t) => InHand(t)

\* A sender that asks for the outcome of a request that succeeded gets the response
\* as txn_status, never a bare "succ", also after the job ran twice, its callback
\* failed or the sender was archived in between (_compute_dci_status, txn_status).
\* The status_code of the header promises no such thing.
SuccessHasResponse == \A t \in Txns : TxnStatus(t).txn_status # "succ"

\* An answer is posted at most once and max_retries times more each time it is
\* asked for, and once more for every execution that was lost or repeated.
PostsAreBounded == \A t \in Txns : allowance[t] >= 0

\* Every accepted request is settled in the end: answered, refused or given up.
EveryRequestSettles == \A t \in Txns : Owed(t) ~> ~Owed(t)

=============================================================================
