----------------------- MODULE DciTransactionsProofs -----------------------
(***************************************************************************)
(* Proofs about DciTransactions: for any number of transactions, workers,  *)
(* administrators, retries and faults no request is forgotten, what the    *)
(* status query calls a success has a response, and POSTs are bounded.     *)
(*                                                                         *)
(* The argument: what a session that nobody overtook is going to write is  *)
(* settled or queues another try, and loses no response the record has; so *)
(* a retry is only ever queued of a record with a response. A POST either  *)
(* ends its try or counts a failure, so the tries that are queued and the  *)
(* failures that are left bound the POSTs to come.                         *)
(***************************************************************************)
EXTENDS DciTransactions, TLAPS

\* An answer is owed by a transaction whose record is r.
Owes(r) == r.state = "pending" \/ (r.state = "success" /\ r.callback = TRUE)

\* Responses and states of a record agree.
Answering(r) ==
    /\ r.state \in {"absent", "received", "pending"} => r.response = FALSE
    /\ r.state \in {"success", "callback_sent", "callback_failed"} => r.response = TRUE

\* What a session makes of record old: record r, and another try if again.
Honest(old, r, again) ==
    /\ Answering(r)
    /\ Owes(r) => again = TRUE
    /\ again = TRUE => r.response = TRUE
    /\ old.response = TRUE => r.response = TRUE

SessionOK(w) ==
    LET s == session[w]
    IN  s # Idle =>
          /\ w \in Workers => s.job \in {"process", "retry"}
          /\ s.job = "retry" => txn[s.of].response = TRUE
          /\ s.stale = FALSE => Honest(txn[s.of], s.record, s.again)

TxnOK(t) ==
    /\ Answering(txn[t])
    /\ retrying[t] > 0 => txn[t].response = TRUE
    /\ Owes(txn[t]) => InHand(t)

\* The inductive invariant.
TxnInv ==
    /\ TypeOK
    /\ \A t \in Txns : TxnOK(t)
    /\ \A w \in Sessions : SessionOK(w)

-----------------------------------------------------------------------------
(* What jobs make of their record *)

Results == [record : Record, again : BOOLEAN, posted : BOOLEAN]

LEMMA ResultFields ==
    ASSUME NEW r \in Record, NEW again \in BOOLEAN, NEW posted \in BOOLEAN
    PROVE  /\ Result(r, again, posted) \in Results
           /\ Result(r, again, posted).record = r
           /\ Result(r, again, posted).again = again
BY DEF Result, Results

LEMMA MovedFields ==
    ASSUME NEW r \in Record, NEW st \in States
    PROVE  /\ Moved(r, st) \in Record
           /\ Moved(r, st).state = st
           /\ Moved(r, st).response = r.response
           /\ Moved(r, st).callback = r.callback
BY DEF Moved, Record

\* The common ends of a job.
LEMMA Ends ==
    ASSUME NEW r \in Record
    PROVE  /\ Reject(r) \in Results /\ Honest(r, Reject(r).record, Reject(r).again)
           /\ r.response = TRUE =>
                 /\ Refused(r) \in Results /\ Honest(r, Refused(r).record, Refused(r).again)
                 /\ Delivered(r) \in Results
                 /\ Honest(r, Delivered(r).record, Delivered(r).again)
<1>1. /\ "rejected" \in States /\ "callback_failed" \in States
      /\ "callback_sent" \in States
  BY DEF States
<1>2. Reject(r) \in Results /\ Honest(r, Reject(r).record, Reject(r).again)
  <2>1. Moved(r, "rejected") \in Record
    BY <1>1, MovedFields
  <2>2. /\ Reject(r) \in Results /\ Reject(r).record = Moved(r, "rejected")
        /\ Reject(r).again = FALSE
    BY <2>1, ResultFields DEF Reject
  <2>3. Moved(r, "rejected").state = "rejected"
        /\ Moved(r, "rejected").response = r.response
    BY <1>1, MovedFields
  <2>. QED BY <2>2, <2>3 DEF Honest, Answering, Owes
<1>3. Refused(r) \in Results
      /\ (r.response = TRUE => Honest(r, Refused(r).record, Refused(r).again))
  <2>1. Moved(r, "callback_failed") \in Record
    BY <1>1, MovedFields
  <2>2. /\ Refused(r) \in Results /\ Refused(r).record = Moved(r, "callback_failed")
        /\ Refused(r).again = FALSE
    BY <2>1, ResultFields DEF Refused
  <2>3. Moved(r, "callback_failed").state = "callback_failed"
        /\ Moved(r, "callback_failed").response = r.response
    BY <1>1, MovedFields
  <2>. QED BY <2>2, <2>3 DEF Honest, Answering, Owes
<1>4. Delivered(r) \in Results
      /\ (r.response = TRUE => Honest(r, Delivered(r).record, Delivered(r).again))
  <2>1. Moved(r, "callback_sent") \in Record
    BY <1>1, MovedFields
  <2>2. /\ Delivered(r) \in Results /\ Delivered(r).record = Moved(r, "callback_sent")
        /\ Delivered(r).again = FALSE
    BY <2>1, ResultFields DEF Delivered
  <2>3. Moved(r, "callback_sent").state = "callback_sent"
        /\ Moved(r, "callback_sent").response = r.response
    BY <1>1, MovedFields
  <2>. QED BY <2>2, <2>3 DEF Honest, Answering, Owes
<1>. QED BY <1>2, <1>3, <1>4

\* A failed POST, of an answer or of its repetition, queues another try or gives up.
LEMMA Failures ==
    ASSUME NEW r \in Record, r.response = TRUE, Answering(r)
    PROVE  /\ SendFailed(r) \in Results
           /\ Honest(r, SendFailed(r).record, SendFailed(r).again)
           /\ RetryFailed(r) \in Results
           /\ Honest(r, RetryFailed(r).record, RetryFailed(r).again)
<1> DEFINE n == r.retries + 1
           q == [r EXCEPT !.retries = n]
           g == [r EXCEPT !.retries = n, !.state = "callback_failed"]
           f == Moved(r, "callback_failed")
<1>1. n \in Nat /\ MaxRetries \in Nat
  BY TransactionAssumption DEF Record
<1>2. q \in Record /\ q.state = r.state /\ q.response = TRUE
  BY <1>1 DEF Record
<1>3. g \in Record /\ g.state = "callback_failed" /\ g.response = TRUE
  BY <1>1 DEF Record, States
<1>4. f \in Record /\ f.state = "callback_failed" /\ f.response = TRUE
  BY MovedFields DEF States
<1>5. Honest(r, q, TRUE) /\ Honest(r, g, FALSE) /\ Honest(r, f, FALSE)
  BY <1>2, <1>3, <1>4 DEF Honest, Answering, Owes
<1>6. q = [r EXCEPT !.retries = @ + 1]
  BY DEF Record
<1>7. SendFailed(r) \in {Result(q, TRUE, TRUE), Result(g, FALSE, TRUE)}
  BY DEF SendFailed
<1>8. RetryFailed(r) \in {Result(q, TRUE, TRUE), Result(f, FALSE, TRUE)}
  BY <1>6 DEF RetryFailed
<1> HIDE DEF q, g, f
<1>9. /\ Result(q, TRUE, TRUE) \in Results
      /\ Honest(r, Result(q, TRUE, TRUE).record, Result(q, TRUE, TRUE).again)
  BY <1>2, <1>5, ResultFields
<1>10. /\ Result(g, FALSE, TRUE) \in Results
       /\ Honest(r, Result(g, FALSE, TRUE).record, Result(g, FALSE, TRUE).again)
  BY <1>3, <1>5, ResultFields
<1>11. /\ Result(f, FALSE, TRUE) \in Results
       /\ Honest(r, Result(f, FALSE, TRUE).record, Result(f, FALSE, TRUE).again)
  BY <1>4, <1>5, ResultFields
<1>. QED BY <1>7, <1>8, <1>9, <1>10, <1>11

LEMMA RetryIsHonest ==
    ASSUME NEW r \in Record, r.response = TRUE, Answering(r),
           NEW res \in RetryCallback(r)
    PROVE  res \in Results /\ Honest(r, res.record, res.again)
<1>1. CASE r.callback = FALSE
  <2>1. res = Result(r, FALSE, FALSE)
    BY <1>1 DEF RetryCallback
  <2>2. Honest(r, r, FALSE)
    BY <1>1 DEF Honest, Answering, Owes
  <2>. QED BY <2>1, <2>2, ResultFields
<1>2. CASE r.callback = TRUE
  <2>1. res \in {Refused(r), Delivered(r), RetryFailed(r)}
    BY <1>2 DEF RetryCallback
  <2>. QED BY <2>1, Ends, Failures
<1>. QED BY <1>1, <1>2 DEF Record

LEMMA ProcessIsHonest ==
    ASSUME NEW r \in Record, NEW res \in Process(r)
    PROVE  res \in Results /\ Honest(r, res.record, res.again)
<1> DEFINE a == Answered(r)
<1>1. a \in Record /\ a.state = "success" /\ a.response = TRUE /\ a.callback = r.callback
  BY DEF Answered, Record, States
<1>2. Answering(a)
  BY <1>1 DEF Answering
<1>3. res = Reject(r) \/ res \in Respond(r)
  BY DEF Process, ProcessSearch, ProcessNotice
<1>4. CASE res = Reject(r)
  BY <1>4, Ends
<1> HIDE DEF a
<1>5. CASE res \in Respond(r) /\ r.callback = FALSE
  <2>1. res = Result(a, FALSE, FALSE)
    BY <1>5 DEF Respond, a
  <2>2. Honest(r, a, FALSE)
    BY <1>1, <1>2, <1>5 DEF Honest, Owes
  <2>. QED BY <1>1, <2>1, <2>2, ResultFields
<1>6. CASE res \in Respond(r) /\ r.callback = TRUE
  <2>1. res \in {Refused(a), Delivered(a), SendFailed(a), Reject(a)}
    BY <1>6 DEF Respond, SendCallback, Reject, a
  <2>2. res \in Results /\ Honest(a, res.record, res.again)
    BY <1>1, <1>2, <2>1, Ends, Failures
  <2>. QED BY <1>1, <2>2 DEF Honest
<1>. QED BY <1>3, <1>4, <1>5, <1>6 DEF Record

-----------------------------------------------------------------------------
(* The invariant at one transaction *)

LEMMA TxnInvElim ==
    ASSUME TxnInv
    PROVE  /\ TypeOK
           /\ \A t \in Txns : /\ txn[t] \in Record /\ retrying[t] \in Nat
                              /\ Answering(txn[t])
                              /\ retrying[t] > 0 => txn[t].response = TRUE
                              /\ Owes(txn[t]) => InHand(t)
           /\ \A w \in Sessions :
                 /\ session[w] \in Busy \cup {Idle}
                 /\ session[w] # Idle =>
                       /\ session[w] \in Busy /\ session[w].of \in Txns
                       /\ session[w].record \in Record
                 /\ SessionOK(w)
<1>1. TypeOK
  BY DEF TxnInv
<1>2. \A w \in Sessions : session[w] \in Busy \cup {Idle}
  BY <1>1 DEF TypeOK
<1>3. \A s \in Busy : s.of \in Txns /\ s.record \in Record
  BY DEF Busy
<1>. QED BY <1>1, <1>2, <1>3 DEF TxnInv, TxnOK, TypeOK

-----------------------------------------------------------------------------
(* The actions *)

LEMMA AcceptKeeps ==
    ASSUME TxnInv, NEW t \in Txns, NEW search \in BOOLEAN, NEW callback \in BOOLEAN,
           Accept(t, search, callback)
    PROVE  TxnInv'
<1> DEFINE queued == search \/ callback
           r == [state |-> IF queued THEN "pending" ELSE "received",
                 search |-> search, callback |-> callback,
                 retries |-> 0, response |-> FALSE]
<1>1. /\ TypeOK
      /\ Answering(txn[t]) /\ txn[t].state = "absent" /\ txn[t].response = FALSE
  BY TxnInvElim DEF Accept, Answering
<1>2. r \in Record /\ r.response = FALSE /\ Answering(r)
  BY DEF Record, States, Answering
<1>3. Owes(r) => queued
  BY DEF Owes
<1>4. /\ txn' = [txn EXCEPT ![t] = r]
      /\ processing' = IF queued THEN processing \cup {t} ELSE processing
      /\ allowance' = [allowance EXCEPT ![t] = 1 + MaxRetries]
      /\ UNCHANGED <<active, retrying, session, faults, manuals, toggles>>
  BY DEF Accept
<1> HIDE DEF r, queued
<1>5. TypeOK'
  BY <1>1, <1>2, <1>4, TransactionAssumption DEF TypeOK
<1>6. \A u \in Txns : txn'[u] = IF u = t THEN r ELSE txn[u]
  BY <1>1, <1>4 DEF TypeOK
<1>7. ASSUME NEW u \in Txns
      PROVE  /\ Answering(txn'[u])
             /\ retrying'[u] > 0 => txn'[u].response = TRUE
             /\ Owes(txn'[u]) => InHand(u)'
  <2>1. CASE u = t
    <3>1. txn'[u] = r /\ ~(retrying'[u] > 0)
      BY <2>1, <1>1, <1>4, <1>6, TxnInvElim
    <3>2. queued => u \in processing'
      BY <2>1, <1>4
    <3>. QED BY <3>1, <3>2, <1>2, <1>3 DEF InHand
  <2>2. CASE u # t
    <3>1. txn'[u] = txn[u] /\ retrying'[u] = retrying[u] /\ processing \subseteq processing'
      BY <2>2, <1>4, <1>6
    <3>. QED BY <3>1, <1>4, TxnInvElim DEF InHand
  <2>. QED BY <2>1, <2>2
<1>8. ASSUME NEW w \in Sessions PROVE SessionOK(w)'
  <2>1. SessionOK(w) /\ (session[w] # Idle => session[w].of \in Txns)
    BY TxnInvElim
  <2>2. session' = session
    BY <1>4
  <2>3. ASSUME session[w] # Idle
        PROVE  txn'[session[w].of].response = txn[session[w].of].response
    BY <2>1, <2>3, <1>1, <1>2, <1>6
  <2>. QED BY <2>1, <2>2, <2>3 DEF SessionOK, Honest
<1>. QED BY <1>5, <1>7, <1>8 DEF TxnInv, TxnOK

\* A session that was idle takes up a job of t.
LEMMA WorkKeeps ==
    ASSUME TxnInv, NEW w \in Sessions, NEW t \in Txns, NEW res \in Results,
           NEW job \in {"process", "retry", "manual"},
           session[w] = Idle, Work(w, job, t, res),
           Honest(txn[t], res.record, res.again),
           w \in Workers => job \in {"process", "retry"},
           job = "retry" => txn[t].response = TRUE,
           processing' \subseteq processing, processing \subseteq processing' \cup {t},
           retrying' \in [Txns -> Nat],
           \A u \in Txns : retrying'[u] > 0 => retrying[u] > 0,
           \A u \in Txns \ {t} : retrying'[u] = retrying[u],
           w \in Workers \/ (processing' = processing /\ retrying' = retrying),
           {faults', manuals', toggles'} \subseteq Nat, UNCHANGED <<active, txn>>
    PROVE  TxnInv'
<1> DEFINE s == [job |-> job, of |-> t, record |-> res.record, again |-> res.again,
                 stale |-> FALSE]
<1>1. TypeOK
  BY TxnInvElim
<1>2. s \in Busy /\ s # Idle
  BY DEF Busy, Idle, Results
<1>3. /\ session' = [session EXCEPT ![w] = s]
      /\ \A v \in Sessions : session'[v] = IF v = w THEN s ELSE session[v]
  BY <1>1 DEF Work, TypeOK
<1>4. allowance' \in [Txns -> Int]
  BY <1>1, TransactionAssumption DEF Work, TypeOK, Results
<1>5. TypeOK'
  BY <1>1, <1>2, <1>3, <1>4 DEF TypeOK
<1>6. ASSUME NEW u \in Txns
      PROVE  Owes(txn'[u]) => InHand(u)'
  <2>1. CASE w \in Workers /\ u = t
    BY <2>1, <1>2, <1>3 DEF InHand, Sessions
  <2>2. CASE w \in Workers /\ u # t
    <3>1. Owes(txn[u]) => InHand(u)
      BY TxnInvElim
    <3>2. \A v \in Workers : session[v] # Idle => session'[v] = session[v]
      BY <1>3 DEF Sessions
    <3>. QED BY <3>1, <3>2, <2>2 DEF InHand
  <2>3. CASE w \notin Workers
    <3>1. Owes(txn[u]) => InHand(u)
      BY TxnInvElim
    <3>2. \A v \in Workers : session'[v] = session[v]
      BY <1>3, <2>3 DEF Sessions
    <3>. QED BY <3>1, <3>2, <2>3 DEF InHand
  <2>. QED BY <2>1, <2>2, <2>3
<1>7. ASSUME NEW v \in Sessions PROVE SessionOK(v)'
  <2>1. CASE v = w
    BY <2>1, <1>3 DEF SessionOK
  <2>2. CASE v # w
    BY <2>2, <1>3, TxnInvElim DEF SessionOK
  <2>. QED BY <2>1, <2>2
<1>8. \A u \in Txns : Answering(txn'[u]) /\ (retrying'[u] > 0 => txn'[u].response = TRUE)
  BY TxnInvElim
<1>. QED BY <1>5, <1>6, <1>7, <1>8 DEF TxnInv, TxnOK

LEMMA StartProcessKeeps ==
    ASSUME TxnInv, NEW w \in Workers, NEW t \in Txns, StartProcess(w, t)
    PROVE  TxnInv'
<1>1. PICK res \in Process(txn[t]) : Work(w, "process", t, res)
  BY DEF StartProcess
<1>2. res \in Results /\ Honest(txn[t], res.record, res.again)
  BY TxnInvElim, ProcessIsHonest
<1>3. TypeOK
  BY TxnInvElim
<1>. QED
  BY <1>1, <1>2, <1>3, WorkKeeps DEF StartProcess, Sessions, TypeOK

LEMMA StartRetryKeeps ==
    ASSUME TxnInv, NEW w \in Workers, NEW t \in Txns, StartRetry(w, t)
    PROVE  TxnInv'
<1>1. PICK res \in RetryCallback(txn[t]) : Work(w, "retry", t, res)
  BY DEF StartRetry
<1>2. txn[t] \in Record /\ txn[t].response = TRUE /\ Answering(txn[t])
  BY TxnInvElim DEF StartRetry
<1>3. res \in Results /\ Honest(txn[t], res.record, res.again)
  BY <1>1, <1>2, RetryIsHonest
<1>4. TypeOK
  BY TxnInvElim
<1>5. /\ retrying' = [retrying EXCEPT ![t] = @ - 1] /\ retrying[t] > 0
      /\ retrying' \in [Txns -> Nat]
  BY <1>4 DEF StartRetry, TypeOK
<1>6. \A u \in Txns : retrying'[u] > 0 => retrying[u] > 0
  BY <1>4, <1>5 DEF TypeOK
<1>7. \A u \in Txns \ {t} : retrying'[u] = retrying[u]
  BY <1>4, <1>5 DEF TypeOK
<1>. QED
  BY <1>1, <1>2, <1>3, <1>4, <1>5, <1>6, <1>7, WorkKeeps
     DEF StartRetry, Sessions, TypeOK

LEMMA StartManualKeeps ==
    ASSUME TxnInv, NEW c \in Clerks, NEW t \in Txns, StartManual(c, t)
    PROVE  TxnInv'
<1> DEFINE r == [txn[t] EXCEPT !.retries = 0]
<1>1. PICK res \in RetryCallback(r) : Work(c, "manual", t, res)
  BY DEF StartManual
<1>2. /\ TypeOK /\ txn[t] \in Record /\ Answering(txn[t])
      /\ txn[t].response = TRUE
  BY TxnInvElim DEF StartManual, Record
<1>3. r \in Record /\ r.response = TRUE /\ Answering(r)
  BY <1>2 DEF Record, Answering
<1> HIDE DEF r
<1>4. res \in Results /\ Honest(r, res.record, res.again)
  BY <1>1, <1>3, RetryIsHonest
<1>5. Honest(txn[t], res.record, res.again)
  BY <1>3, <1>4 DEF Honest
<1>6. c \in Sessions /\ c \notin Workers
  BY TransactionAssumption DEF Sessions
<1>7. /\ processing' = processing /\ retrying' = retrying /\ session[c] = Idle
      /\ {faults', manuals', toggles'} \subseteq Nat /\ UNCHANGED <<active, txn>>
      /\ retrying \in [Txns -> Nat]
  BY <1>2 DEF StartManual, TypeOK
<1>. QED BY <1>1, <1>4, <1>5, <1>6, <1>7, WorkKeeps

-----------------------------------------------------------------------------
(* Commits and restarts *)

\* A commit, after which the queue may run a job it believes unfinished.
LEMMA CommittedKeeps ==
    ASSUME TxnInv, NEW w \in Sessions, Committed(w),
           processing' \subseteq Txns, processing \subseteq processing',
           allowance' \in [Txns -> Int], {faults', manuals', toggles'} \subseteq Nat,
           UNCHANGED active
    PROVE  TxnInv'
<1> DEFINE s == session[w]
           t == s.of
<1>1. TypeOK
  BY TxnInvElim
<1>2. /\ s # Idle /\ s \in Busy /\ t \in Txns /\ s.record \in Record
      /\ s.stale = FALSE
  BY TxnInvElim DEF Committed, Busy
<1>3. Honest(txn[t], s.record, s.again)
  BY <1>2, TxnInvElim DEF SessionOK
<1>4. /\ txn' = [txn EXCEPT ![t] = s.record]
      /\ retrying' = IF s.again THEN [retrying EXCEPT ![t] = @ + 1] ELSE retrying
      /\ session' = [v \in Sessions |->
            IF v = w THEN Idle
            ELSE IF session[v] # Idle /\ session[v].of = t
                 THEN [session[v] EXCEPT !.stale = TRUE] ELSE session[v]]
  BY DEF Committed
<1>5. s.again \in BOOLEAN
  BY <1>2 DEF Busy
<1> HIDE DEF s, t
<1>6. \A u \in Txns : txn'[u] = IF u = t THEN s.record ELSE txn[u]
  BY <1>1, <1>4 DEF TypeOK
<1>7. /\ retrying' \in [Txns -> Nat]
      /\ \A u \in Txns \ {t} : retrying'[u] = retrying[u]
      /\ s.again = TRUE => retrying'[t] > 0
      /\ s.again = FALSE => retrying'[t] = retrying[t]
  BY <1>1, <1>2, <1>4, <1>5 DEF TypeOK
<1>8. ASSUME NEW v \in Sessions
      PROVE  /\ session'[v] \in Busy \cup {Idle}
             /\ SessionOK(v)'
             /\ session[v] # Idle /\ session[v].of # t => session'[v] = session[v]
  <2>1. CASE v = w
    BY <2>1, <1>4 DEF SessionOK, s, t
  <2>2. CASE v # w /\ session[v] # Idle /\ session[v].of = t
    <3> DEFINE q == [session[v] EXCEPT !.stale = TRUE]
    <3>1. session'[v] = q
      BY <2>2, <1>4
    <3>2. session[v] \in Busy /\ SessionOK(v)
      BY <2>2, TxnInvElim
    <3>3. q \in Busy /\ q.job = session[v].job /\ q.of = t /\ q.stale = TRUE
      BY <3>2, <2>2 DEF Busy
    <3>4. txn[t].response = TRUE => txn'[t].response = TRUE
      BY <1>2, <1>3, <1>6 DEF Honest
    <3> HIDE DEF q
    <3>5. session[v].job = "retry" => txn[t].response = TRUE
      BY <3>2, <2>2 DEF SessionOK
    <3>6. v \in Workers => session[v].job \in {"process", "retry"}
      BY <3>2, <2>2 DEF SessionOK
    <3>. QED BY <3>1, <3>3, <3>4, <3>5, <3>6, <2>2 DEF SessionOK
  <2>3. CASE v # w /\ ~(session[v] # Idle /\ session[v].of = t)
    <3>1. session'[v] = session[v]
      BY <2>3, <1>4
    <3>2. session[v] \in Busy \cup {Idle} /\ SessionOK(v)
      BY TxnInvElim
    <3>3. session[v] # Idle => txn'[session[v].of] = txn[session[v].of]
      BY <2>3, <1>6, TxnInvElim
    <3>. QED BY <3>1, <3>2, <3>3 DEF SessionOK
  <2>. QED BY <2>1, <2>2, <2>3
<1>9. session' \in [Sessions -> Busy \cup {Idle}]
  BY <1>4, <1>8
<1>10. txn' \in [Txns -> Record]
  BY <1>1, <1>2, <1>4 DEF TypeOK
<1>11. TypeOK'
  BY <1>1, <1>7, <1>9, <1>10 DEF TypeOK
<1>12. ASSUME NEW u \in Txns PROVE TxnOK(u)'
  <2>1. CASE u = t
    <3>1. txn'[u] = s.record /\ Answering(s.record)
      BY <2>1, <1>3, <1>6 DEF Honest
    <3>2. retrying'[u] > 0 => s.record.response = TRUE
      <4>1. CASE s.again = TRUE
        BY <4>1, <1>3 DEF Honest
      <4>2. CASE s.again = FALSE
        BY <4>2, <2>1, <1>2, <1>3, <1>7, TxnInvElim DEF Honest
      <4>. QED BY <4>1, <4>2, <1>5
    <3>3. Owes(s.record) => retrying'[u] > 0
      BY <2>1, <1>3, <1>7 DEF Honest
    <3>. QED BY <3>1, <3>2, <3>3 DEF TxnOK, InHand
  <2>2. CASE u # t
    <3>1. txn'[u] = txn[u] /\ retrying'[u] = retrying[u]
      BY <2>2, <1>6, <1>7
    <3>2. InHand(u) => InHand(u)'
      BY <2>2, <3>1, <1>8 DEF InHand, Sessions
    <3>. QED BY <3>1, <3>2, TxnInvElim DEF TxnOK
  <2>. QED BY <2>1, <2>2
<1>. QED BY <1>8, <1>11, <1>12 DEF TxnInv

LEMMA CommitKeeps ==
    ASSUME TxnInv, NEW w \in Sessions, Commit(w)
    PROVE  TxnInv'
<1>1. TypeOK
  BY TxnInvElim
<1>. QED BY <1>1, CommittedKeeps DEF Commit, TypeOK

LEMMA CommitUnnoticedKeeps ==
    ASSUME TxnInv, NEW w \in Workers, CommitUnnoticed(w)
    PROVE  TxnInv'
<1>1. TypeOK /\ w \in Sessions
  BY TxnInvElim DEF Sessions
<1>2. session[w].of \in Txns
  BY <1>1, TxnInvElim DEF CommitUnnoticed
<1>3. /\ processing' \subseteq Txns /\ processing \subseteq processing'
      /\ allowance' \in [Txns -> Int] /\ {faults', manuals', toggles'} \subseteq Nat
  BY <1>1, <1>2 DEF CommitUnnoticed, TypeOK
<1>. QED BY <1>1, <1>3, CommittedKeeps DEF CommitUnnoticed

LEMMA RequeuedKeeps ==
    ASSUME TxnInv, NEW w \in Sessions, session[w] # Idle, Requeued(w),
           {faults', manuals', toggles'} \subseteq Nat, UNCHANGED <<active, txn>>
    PROVE  TxnInv'
<1> DEFINE s == session[w]
           t == s.of
<1>1. TypeOK
  BY TxnInvElim
<1>2. s \in Busy /\ t \in Txns /\ SessionOK(w)
  BY TxnInvElim
<1>3. /\ processing' = IF s.job = "process" THEN processing \cup {t} ELSE processing
      /\ retrying' = IF s.job = "retry" THEN [retrying EXCEPT ![t] = @ + 1] ELSE retrying
      /\ allowance' = [allowance EXCEPT ![t] = @ + 1]
      /\ session' = [session EXCEPT ![w] = Idle]
  BY DEF Requeued
<1>4. /\ s.job = "retry" => txn[t].response = TRUE
      /\ w \in Workers => s.job \in {"process", "retry"}
  BY <1>2 DEF SessionOK
<1> HIDE DEF s, t
<1>5. TypeOK'
  BY <1>1, <1>2, <1>3 DEF TypeOK
<1>6. /\ \A u \in Txns : retrying[u] > 0 => retrying'[u] > 0
      /\ \A u \in Txns : retrying'[u] > 0 => retrying[u] > 0 \/ (u = t /\ s.job = "retry")
      /\ s.job = "retry" => retrying'[t] > 0
  BY <1>1, <1>2, <1>3 DEF TypeOK
<1>7. \A v \in Sessions : session'[v] = IF v = w THEN Idle ELSE session[v]
  BY <1>1, <1>3 DEF TypeOK
<1>8. ASSUME NEW u \in Txns PROVE TxnOK(u)'
  <2>1. Answering(txn'[u])
    BY TxnInvElim
  <2>2. retrying'[u] > 0 => txn'[u].response = TRUE
    BY <1>4, <1>6, TxnInvElim
  <2>3. ASSUME InHand(u) PROVE InHand(u)'
    <3>1. CASE u \in processing \/ retrying[u] > 0
      BY <3>1, <1>3, <1>6 DEF InHand
    <3>2. CASE \E v \in Workers : session[v] # Idle /\ session[v].of = u
      <4>1. PICK v \in Workers : session[v] # Idle /\ session[v].of = u
        BY <3>2
      <4>2. CASE v = w
        BY <4>1, <4>2, <1>3, <1>4, <1>6 DEF InHand, s, t
      <4>3. CASE v # w
        BY <4>1, <4>3, <1>7 DEF InHand, Sessions
      <4>. QED BY <4>2, <4>3
    <3>. QED BY <2>3, <3>1, <3>2 DEF InHand
  <2>. QED BY <2>1, <2>2, <2>3, TxnInvElim DEF TxnOK
<1>9. ASSUME NEW v \in Sessions PROVE SessionOK(v)'
  BY <1>7, TxnInvElim DEF SessionOK
<1>. QED BY <1>5, <1>8, <1>9 DEF TxnInv

LEMMA StartOverKeeps ==
    ASSUME TxnInv, NEW w \in Sessions, StartOver(w) PROVE TxnInv'
<1>1. TypeOK
  BY TxnInvElim
<1>. QED BY <1>1, RequeuedKeeps DEF StartOver, TypeOK

LEMMA DieKeeps ==
    ASSUME TxnInv, NEW w \in Workers, Die(w) PROVE TxnInv'
<1>1. TypeOK /\ w \in Sessions
  BY TxnInvElim DEF Sessions
<1>. QED BY <1>1, RequeuedKeeps DEF Die, TypeOK

-----------------------------------------------------------------------------
(* The theorems *)

LEMMA TxnInit == ASSUME Init PROVE TxnInv
<1>1. /\ NoRecord \in Record /\ Answering(NoRecord) /\ ~Owes(NoRecord)
  BY DEF NoRecord, Record, States, Answering, Owes
<1>2. TypeOK
  BY <1>1 DEF Init, TypeOK
<1>3. ASSUME NEW t \in Txns PROVE TxnOK(t)
  BY <1>1 DEF Init, TxnOK
<1>4. ASSUME NEW w \in Sessions PROVE SessionOK(w)
  BY DEF Init, SessionOK
<1>. QED BY <1>2, <1>3, <1>4 DEF TxnInv

LEMMA TxnNext == ASSUME TxnInv, [Next]_vars PROVE TxnInv'
<1>1. ASSUME NEW t \in Txns, NEW callback \in BOOLEAN,
             \/ AsyncSearch(t, callback) \/ Subscribe(t, callback)
             \/ Unsubscribe(t, callback) \/ AsyncTxnStatus(t, callback)
             \/ BulkSearchUpload(t, callback)
      PROVE  TxnInv'
  <2>1. PICK search \in BOOLEAN : Accept(t, search, callback)
    BY <1>1 DEF AsyncSearch, Subscribe, Unsubscribe, AsyncTxnStatus, BulkSearchUpload
  <2>. QED BY <2>1, AcceptKeeps
<1>2. ASSUME NEW t \in Txns, NEW w \in Workers, StartProcess(w, t) PROVE TxnInv'
  BY <1>2, StartProcessKeeps
<1>3. ASSUME NEW t \in Txns, NEW w \in Workers, StartRetry(w, t) PROVE TxnInv'
  BY <1>3, StartRetryKeeps
<1>4. ASSUME NEW t \in Txns, NEW c \in Clerks, StartManual(c, t) PROVE TxnInv'
  BY <1>4, StartManualKeeps
<1>5. ASSUME NEW w \in Sessions, Commit(w) PROVE TxnInv'
  BY <1>5, CommitKeeps
<1>6. ASSUME NEW w \in Sessions, StartOver(w) PROVE TxnInv'
  BY <1>6, StartOverKeeps
<1>7. ASSUME NEW w \in Workers, Die(w) PROVE TxnInv'
  BY <1>7, DieKeeps
<1>8. ASSUME NEW w \in Workers, CommitUnnoticed(w) PROVE TxnInv'
  BY <1>8, CommitUnnoticedKeeps
<1>9. CASE ToggleSender
  <2>1. TypeOK'
    BY <1>9 DEF TxnInv, TypeOK, ToggleSender
  <2>. QED BY <1>9, <2>1 DEF ToggleSender, TxnInv, TxnOK, SessionOK, InHand
<1>10. CASE UNCHANGED vars
  BY <1>10 DEF vars, TxnInv, TypeOK, TxnOK, SessionOK, InHand
<1>. QED
  BY <1>1, <1>2, <1>3, <1>4, <1>5, <1>6, <1>7, <1>8, <1>9, <1>10 DEF Next

\* The inductive invariant holds in every reachable state.
THEOREM TxnInvariance == Spec => []TxnInv
BY TxnInit, TxnNext, PTL DEF Spec

\* Every reachable state is well typed.
THEOREM TxnTypeCorrect == Spec => []TypeOK
<1>1. TxnInv => TypeOK
  BY DEF TxnInv
<1>. QED BY <1>1, TxnInvariance, PTL

\* As long as an answer is owed somebody works on it or will, whatever dies, is
\* repeated, is retried by hand or is beaten to the record.
THEOREM NoRequestForgotten == Spec => []NothingForgotten
<1>1. TxnInv => NothingForgotten
  <2> SUFFICES ASSUME TxnInv, NEW t \in Txns, Owed(t) PROVE InHand(t)
    BY DEF NothingForgotten
  <2>1. Owes(txn[t])
    BY TxnInvElim DEF Owed, Owes, Record
  <2>. QED BY <2>1, TxnInvElim
<1>. QED BY <1>1, TxnInvariance, PTL

\* The status query answers a request that succeeded with the response it stored,
\* never with a bare "succ".
THEOREM SuccessesHaveResponses == Spec => []SuccessHasResponse
<1>1. TxnInv => SuccessHasResponse
  <2> SUFFICES ASSUME TxnInv, NEW t \in Txns, TxnStatus(t).txn_status = "succ"
               PROVE  FALSE
    BY DEF SuccessHasResponse
  <2>1. txn[t] \in Record /\ Answering(txn[t])
    BY TxnInvElim
  <2>2. /\ ~txn[t].response
        /\ txn[t].state # "absent"
        /\ DciStatus(txn[t]) = "succ"
    BY DEF TxnStatus
  <2>3. txn[t].state \in {"success", "callback_sent", "callback_failed"}
    BY <2>1, <2>2 DEF DciStatus, Record, States
  <2>. QED BY <2>1, <2>2, <2>3 DEF Answering
<1>. QED BY <1>1, TxnInvariance, PTL

-----------------------------------------------------------------------------
(* How often an answer is posted *)

\* The jobs of t that are queued, each of which may post once.
Tries(t) == retrying[t] + (IF t \in processing THEN 1 ELSE 0)

\* The failures of a record that queue another try.
Left(r) == IF r.retries < MaxRetries THEN MaxRetries - r.retries ELSE 0

\* The POSTs that a session may still cause when it commits r, and queues
\* another try if again.
Need(r, again) == Left(r) + (IF again = TRUE THEN 1 ELSE 0)
Post(posted) == IF posted = TRUE THEN 1 ELSE 0

\* A result that takes no more tries than it had: its own POST comes out of n + 1.
Frugal(n, res) ==
    /\ res.record.state # "absent"
    /\ Need(res.record, res.again) + Post(res.posted) <= n + 1

PostTxn(t) ==
    IF txn[t].state = "absent" THEN t \notin processing /\ allowance[t] >= 0
    ELSE Tries(t) + Left(txn[t]) <= allowance[t]

\* Of the sessions that read a record only one commits, and the others take
\* back what they spent: each has to be covered on its own.
PostSession(w) ==
    LET s == session[w]
    IN  s # Idle =>
          /\ txn[s.of].state # "absent" /\ s.record.state # "absent"
          /\ s.stale = FALSE => Tries(s.of) + Need(s.record, s.again) <= allowance[s.of]

\* The inductive invariant of the POSTs, upon TxnInv.
PostInv ==
    /\ \A t \in Txns : PostTxn(t)
    /\ \A w \in Sessions : PostSession(w)

LEMMA Sizes ==
    ASSUME NEW r \in Record
    PROVE  /\ Left(r) \in Nat /\ MaxRetries \in Nat
           /\ Left(r) <= MaxRetries
           /\ r.retries = 0 => Left(r) = MaxRetries
<1>1. MaxRetries \in Nat /\ r.retries \in Nat
  BY TransactionAssumption DEF Record
<1>. QED BY <1>1 DEF Left

LEMMA Sizes2 ==
    ASSUME NEW res \in Results
    PROVE  /\ Left(res.record) \in Nat /\ Left(res.record) <= MaxRetries
           /\ Need(res.record, res.again) \in Nat
           /\ Left(res.record) <= Need(res.record, res.again)
           /\ res.again = FALSE => Need(res.record, res.again) = Left(res.record)
           /\ res.again = TRUE => Need(res.record, res.again) = Left(res.record) + 1
           /\ Post(res.posted) \in {0, 1}
           /\ res.posted = TRUE => Post(res.posted) = 1
           /\ res.posted = FALSE => Post(res.posted) = 0
<1>1. res.record \in Record
  BY DEF Results
<1>2. Left(res.record) \in Nat /\ Left(res.record) <= MaxRetries
  BY <1>1, Sizes
<1>. QED BY <1>2 DEF Need, Post

\* A result that queues no other try, of a record with the same count or more.
LEMMA FrugalEnd ==
    ASSUME NEW r \in Record, NEW res \in Results, res.record.state # "absent",
           res.record.retries >= r.retries, res.again = FALSE
    PROVE  Frugal(Left(r), res)
<1>1. Left(res.record) <= Left(r) /\ Left(r) \in Nat
  BY TransactionAssumption DEF Left, Record, Results
<1>2. Need(res.record, res.again) = Left(res.record)
  BY Sizes2
<1>3. Post(res.posted) \in {0, 1}
  BY Sizes2
<1>4. Left(res.record) \in Nat
  BY Sizes2
<1>5. Need(res.record, res.again) + Post(res.posted) <= Left(r) + 1
  BY <1>1, <1>2, <1>3, <1>4
<1>. QED BY <1>5 DEF Frugal

\* A result that counts a failure the limit allows and queues another try.
LEMMA FrugalAgain ==
    ASSUME NEW r \in Record, NEW res \in Results, res.record.state # "absent",
           r.retries < MaxRetries, res.record.retries = r.retries + 1
    PROVE  Frugal(Left(r), res)
<1>1. Left(res.record) = Left(r) - 1 /\ Left(r) \in Nat
  BY TransactionAssumption DEF Left, Record
<1>2. Left(res.record) \in Nat
  BY Sizes2
<1>3. Need(res.record, res.again) <= Left(res.record) + 1
  BY <1>2 DEF Need
<1>4. Need(res.record, res.again) \in Nat
  BY Sizes2
<1>5. Post(res.posted) \in {0, 1}
  BY Sizes2
<1>6. Need(res.record, res.again) + Post(res.posted) <= Left(r) + 1
  BY <1>1, <1>2, <1>3, <1>4, <1>5
<1>. QED BY <1>6 DEF Frugal

LEMMA FrugalMove ==
    ASSUME NEW r \in Record, NEW st \in States \ {"absent"}, NEW posted \in BOOLEAN
    PROVE  Frugal(Left(r), Result(Moved(r, st), FALSE, posted))
<1> DEFINE res == Result(Moved(r, st), FALSE, posted)
<1>1. /\ Moved(r, st) \in Record /\ Moved(r, st).state = st
      /\ Moved(r, st).retries = r.retries /\ r.retries \in Nat
  BY DEF Moved, Record
<1>2. res \in Results /\ res.record = Moved(r, st) /\ res.again = FALSE
  BY <1>1, ResultFields
<1> HIDE DEF res
<1>3. res.record.state # "absent" /\ res.record.retries >= r.retries
  BY <1>1, <1>2
<1>4. Frugal(Left(r), res)
  BY <1>2, <1>3, FrugalEnd
<1>. QED BY <1>4 DEF res

LEMMA FrugalMoves ==
    ASSUME NEW r \in Record
    PROVE  /\ Frugal(Left(r), Refused(r)) /\ Frugal(Left(r), Delivered(r))
           /\ Frugal(Left(r), Reject(r))
BY FrugalMove DEF Refused, Delivered, Reject, States

LEMMA FrugalFailures ==
    ASSUME NEW r \in Record, r.state # "absent"
    PROVE  Frugal(Left(r), SendFailed(r)) /\ Frugal(Left(r), RetryFailed(r))
<1> DEFINE n == r.retries + 1
           q == [r EXCEPT !.retries = n]
           g == [r EXCEPT !.retries = n, !.state = "callback_failed"]
<1>1. n \in Nat /\ MaxRetries \in Nat /\ r.retries \in Nat
  BY TransactionAssumption DEF Record
<1>2. q \in Record /\ q.state # "absent" /\ q.retries = n
  BY <1>1 DEF Record
<1>3. g \in Record /\ g.state # "absent" /\ g.retries = n
  BY <1>1 DEF Record, States
<1>4. q = [r EXCEPT !.retries = @ + 1]
  BY DEF Record
<1>5. Frugal(Left(r), SendFailed(r))
  <2>1. CASE n < MaxRetries
    <3>1. SendFailed(r) = Result(q, TRUE, TRUE)
      BY <2>1 DEF SendFailed
    <3> HIDE DEF q
    <3>2. SendFailed(r) \in Results /\ SendFailed(r).record = q
      BY <3>1, <1>2, ResultFields
    <3>3. SendFailed(r).record.state # "absent" /\ SendFailed(r).record.retries = r.retries + 1
      BY <3>2, <1>2
    <3>4. r.retries < MaxRetries
      BY <1>1, <2>1
    <3>. QED BY <3>2, <3>3, <3>4, FrugalAgain
  <2>2. CASE ~(n < MaxRetries)
    <3>1. SendFailed(r) = Result(g, FALSE, TRUE)
      BY <2>2 DEF SendFailed
    <3> HIDE DEF g
    <3>2. /\ Result(g, FALSE, TRUE) \in Results /\ Result(g, FALSE, TRUE).record = g
          /\ Result(g, FALSE, TRUE).again = FALSE
      BY <1>3, ResultFields
    <3>3. g.state # "absent" /\ g.retries >= r.retries
      BY <1>1, <1>3
    <3>4. Frugal(Left(r), Result(g, FALSE, TRUE))
      BY <3>2, <3>3, FrugalEnd
    <3>. QED BY <3>1, <3>4
  <2>. QED BY <2>1, <2>2
<1>6. Frugal(Left(r), RetryFailed(r))
  <2>1. CASE r.retries < MaxRetries
    <3>1. RetryFailed(r) = Result(q, TRUE, TRUE)
      BY <2>1, <1>4 DEF RetryFailed
    <3> HIDE DEF q
    <3>2. RetryFailed(r) \in Results /\ RetryFailed(r).record = q
      BY <3>1, <1>2, ResultFields
    <3>3. RetryFailed(r).record.state # "absent" /\ RetryFailed(r).record.retries = r.retries + 1
      BY <3>2, <1>2
    <3>. QED BY <2>1, <3>2, <3>3, FrugalAgain
  <2>2. CASE ~(r.retries < MaxRetries)
    <3>1. RetryFailed(r) = Result(Moved(r, "callback_failed"), FALSE, TRUE)
      BY <2>2 DEF RetryFailed
    <3>. QED BY <3>1, FrugalMove DEF States
  <2>. QED BY <2>1, <2>2
<1>. QED BY <1>5, <1>6

LEMMA FrugalRetry ==
    ASSUME NEW r \in Record, r.state # "absent", NEW res \in RetryCallback(r)
    PROVE  Frugal(Left(r), res)
<1>1. res \in {Refused(r), Delivered(r), RetryFailed(r), Result(r, FALSE, FALSE)}
  BY DEF RetryCallback
<1>2. Frugal(Left(r), Result(r, FALSE, FALSE))
  <2>1. /\ Result(r, FALSE, FALSE) \in Results /\ Result(r, FALSE, FALSE).record = r
        /\ Result(r, FALSE, FALSE).again = FALSE
    BY ResultFields
  <2>2. r.retries >= r.retries
    BY DEF Record
  <2>. QED BY <2>1, <2>2, FrugalEnd
<1>. QED BY <1>1, <1>2, FrugalMoves, FrugalFailures

LEMMA FrugalProcess ==
    ASSUME NEW r \in Record, NEW res \in Process(r)
    PROVE  Frugal(Left(r), res)
<1> DEFINE a == Answered(r)
<1>1. a \in Record /\ a.state # "absent" /\ a.retries = r.retries /\ r.retries \in Nat
  BY DEF Answered, Record, States
<1>2. Left(a) = Left(r)
  BY <1>1 DEF Left
<1>3. res = Reject(r) \/ res \in Respond(r)
  BY DEF Process, ProcessSearch, ProcessNotice
<1> HIDE DEF a
<1>4. CASE res = Reject(r)
  BY <1>4, FrugalMoves
<1>5. CASE res \in Respond(r)
  <2>1. res \in {Refused(a), Delivered(a), SendFailed(a), Reject(a),
                 Result(a, FALSE, FALSE)}
    BY <1>5 DEF Respond, SendCallback, Reject, a
  <2>2. Frugal(Left(a), Result(a, FALSE, FALSE))
    <3>1. /\ Result(a, FALSE, FALSE) \in Results
          /\ Result(a, FALSE, FALSE).record = a
          /\ Result(a, FALSE, FALSE).again = FALSE
      BY <1>1, ResultFields
    <3>2. a.retries >= a.retries
      BY <1>1
    <3>. QED BY <1>1, <3>1, <3>2, FrugalEnd
  <2>3. Frugal(Left(a), res)
    BY <1>1, <2>1, <2>2, FrugalMoves, FrugalFailures
  <2>. QED BY <1>2, <2>3
<1>. QED BY <1>3, <1>4, <1>5

LEMMA PostInvElim ==
    ASSUME TxnInv, PostInv
    PROVE  /\ \A t \in Txns :
                 /\ PostTxn(t)
                 /\ retrying[t] \in Nat /\ Tries(t) \in Nat /\ allowance[t] \in Int
                 /\ txn[t] \in Record /\ Left(txn[t]) \in Nat
                 /\ t \in processing \/ retrying[t] > 0 => txn[t].state # "absent"
                 /\ txn[t].state # "absent" => Tries(t) + Left(txn[t]) <= allowance[t]
           /\ \A w \in Sessions : PostSession(w)
<1>1. ASSUME NEW t \in Txns
      PROVE  /\ PostTxn(t)
             /\ retrying[t] \in Nat /\ Tries(t) \in Nat /\ allowance[t] \in Int
             /\ txn[t] \in Record /\ Left(txn[t]) \in Nat
  BY TxnInvElim, Sizes DEF PostInv, TypeOK, Tries
<1>2. ASSUME NEW t \in Txns, t \in processing \/ retrying[t] > 0
      PROVE  txn[t].state # "absent"
  <2>1. CASE t \in processing
    BY <1>1, <2>1 DEF PostTxn
  <2>2. CASE retrying[t] > 0
    BY <2>2, TxnInvElim DEF Answering
  <2>. QED BY <1>2, <2>1, <2>2
<1>3. ASSUME NEW t \in Txns, txn[t].state # "absent"
      PROVE  Tries(t) + Left(txn[t]) <= allowance[t]
  BY <1>1, <1>3 DEF PostTxn
<1>. QED BY <1>1, <1>2, <1>3 DEF PostInv

LEMMA AcceptPosts ==
    ASSUME TxnInv, PostInv, NEW t \in Txns, NEW search \in BOOLEAN,
           NEW callback \in BOOLEAN, Accept(t, search, callback)
    PROVE  PostInv'
<1> DEFINE queued == search \/ callback
           r == [state |-> IF queued THEN "pending" ELSE "received",
                 search |-> search, callback |-> callback,
                 retries |-> 0, response |-> FALSE]
<1>1. /\ TypeOK /\ txn[t].state = "absent" /\ retrying[t] \in Nat /\ ~(retrying[t] > 0)
  BY PostInvElim, TxnInvElim DEF Accept
<1>2. r \in Record /\ r.state # "absent" /\ r.retries = 0
  BY DEF Record, States
<1>3. /\ txn' = [txn EXCEPT ![t] = r]
      /\ processing' = processing \/ processing' = processing \cup {t}
      /\ allowance' = [allowance EXCEPT ![t] = 1 + MaxRetries]
      /\ retrying' = retrying /\ session' = session
  BY DEF Accept
<1> HIDE DEF r
<1>4. /\ \A u \in Txns : txn'[u] = IF u = t THEN r ELSE txn[u]
      /\ \A u \in Txns : allowance'[u] = IF u = t THEN 1 + MaxRetries ELSE allowance[u]
      /\ \A u \in Txns \ {t} : Tries(u)' = Tries(u)
      /\ Tries(t)' <= 1 /\ Tries(t)' \in Nat
  BY <1>1, <1>3 DEF TypeOK, Tries
<1>5. ASSUME NEW u \in Txns PROVE PostTxn(u)'
  <2>1. CASE u = t
    <3>1. Left(r) = MaxRetries /\ MaxRetries \in Nat
      BY <1>2, Sizes
    <3>. QED BY <2>1, <3>1, <1>2, <1>4 DEF PostTxn
  <2>2. CASE u # t
    <3>1. PostTxn(u) /\ txn'[u] = txn[u] /\ allowance'[u] = allowance[u] /\ Tries(u)' = Tries(u)
      BY <2>2, <1>4, PostInvElim
    <3>2. u \in processing' => u \in processing
      BY <2>2, <1>3
    <3>. QED BY <3>1, <3>2 DEF PostTxn
  <2>. QED BY <2>1, <2>2
<1>6. ASSUME NEW w \in Sessions PROVE PostSession(w)'
  <2>1. PostSession(w) /\ (session[w] # Idle => session[w].of \in Txns)
    BY PostInvElim, TxnInvElim
  <2>2. ASSUME session[w] # Idle PROVE session[w].of \in Txns \ {t}
    BY <2>1, <2>2, <1>1 DEF PostSession
  <2>. QED BY <2>1, <2>2, <1>3, <1>4 DEF PostSession
<1>. QED BY <1>5, <1>6 DEF PostInv

\* A session that a step leaves alone stays covered, if what its transaction may
\* spend grows no less than its queue.
LEMMA SessionCarries ==
    ASSUME TxnInv, PostInv, NEW v \in Sessions, session'[v] = session[v],
           NEW U \in SUBSET Txns, session[v] # Idle => session[v].of \in U,
           \A u \in U, m \in Nat :
              Tries(u) + m <= allowance[u] => Tries(u)' + m <= allowance'[u],
           \A u \in U : txn[u].state # "absent" => txn'[u].state # "absent"
    PROVE  PostSession(v)'
<1> DEFINE q == session[v]
<1>1. PostSession(v)
  BY PostInvElim
<1>2. CASE q = Idle
  BY <1>2 DEF PostSession
<1>3. CASE q # Idle
  <2>1. q \in Busy /\ q.of \in U /\ Need(q.record, q.again) \in Nat
    <3>1. q \in Busy
      BY <1>3, TxnInvElim
    <3>2. q.record \in Record
      BY <3>1 DEF Busy
    <3>. QED BY <1>3, <3>1, <3>2, Sizes DEF Need
  <2>2. PICK u \in U, m \in Nat : u = q.of /\ m = Need(q.record, q.again)
    BY <2>1
  <2>3. /\ txn[u].state # "absent" /\ q.record.state # "absent"
        /\ q.stale = FALSE => Tries(u) + m <= allowance[u]
    BY <1>1, <1>3, <2>2 DEF PostSession
  <2>4. /\ txn'[u].state # "absent"
        /\ q.stale = FALSE => Tries(u)' + m <= allowance'[u]
    BY <2>3
  <2>. QED BY <2>2, <2>3, <2>4 DEF PostSession
<1>. QED BY <1>2, <1>3

\* A session takes up a job: either one of the tries that are queued, or one
\* that is granted a fresh allowance.
LEMMA WorkPosts ==
    ASSUME TxnInv, PostInv, NEW w \in Sessions, NEW t \in Txns, NEW res \in Results,
           NEW job, NEW n \in Nat,
           session[w] = Idle, Work(w, job, t, res), Frugal(n, res),
           txn[t].state # "absent", UNCHANGED txn, processing' \subseteq processing,
           \A u \in Txns \ {t} : Tries(u)' = Tries(u),
           \/ job # "manual" /\ n = Left(txn[t]) /\ Tries(t)' = Tries(t) - 1
           \/ job = "manual" /\ n = MaxRetries /\ Tries(t)' = Tries(t)
    PROVE  PostInv'
<1> DEFINE s == [job |-> job, of |-> t, record |-> res.record, again |-> res.again,
                 stale |-> FALSE]
           grant == IF job = "manual" THEN 1 + MaxRetries ELSE 0
           spent == IF res.posted THEN 1 ELSE 0
           need == Need(res.record, res.again)
<1>1. TypeOK
  BY TxnInvElim
<1>2. \A v \in Sessions : session'[v] = IF v = w THEN s ELSE session[v]
  BY <1>1 DEF Work, TypeOK
<1>3. /\ MaxRetries \in Nat /\ grant \in Nat /\ spent \in {0, 1}
      /\ job = "manual" => grant = 1 + MaxRetries
      /\ job # "manual" => grant = 0
  BY TransactionAssumption
<1>4. \A u \in Txns : allowance'[u] = IF u = t THEN allowance[t] - spent + grant
                                      ELSE allowance[u]
  BY <1>1 DEF Work, TypeOK
<1>5. need \in Nat
  BY Sizes2
<1>6. need + spent <= n + 1
  BY DEF Frugal, Post, Results
<1>7. /\ s # Idle /\ s.of = t /\ s.record = res.record /\ s.again = res.again
      /\ s.record.state # "absent"
  BY DEF Idle, Frugal
<1> HIDE DEF s, grant, spent, need
<1>8. /\ Tries(t) \in Nat /\ Left(txn[t]) \in Nat /\ allowance[t] \in Int
      /\ Tries(t) + Left(txn[t]) <= allowance[t] /\ Left(txn[t]) <= MaxRetries
  BY PostInvElim, Sizes
<1>9. /\ Tries(t)' + need <= allowance'[t]
      /\ Tries(t)' + Left(txn[t]) <= allowance'[t]
      /\ allowance[t] - Tries(t) <= allowance'[t] - Tries(t)'
  <2>1. CASE job # "manual"
    BY <2>1, <1>3, <1>4, <1>5, <1>6, <1>8
  <2>2. CASE job = "manual"
    BY <2>2, <1>3, <1>4, <1>5, <1>6, <1>8
  <2>. QED BY <2>1, <2>2
<1>10. ASSUME NEW u \in Txns, NEW m \in Nat, Tries(u) + m <= allowance[u]
       PROVE  Tries(u)' + m <= allowance'[u]
  <2>1. Tries(u) \in Nat /\ allowance[u] \in Int
    BY PostInvElim
  <2>2. CASE u = t
    <3>1. Tries(t)' \in Int /\ allowance'[t] \in Int
      BY <1>3, <1>4, <1>8
    <3>. QED BY <2>1, <2>2, <3>1, <1>9, <1>10
  <2>3. CASE u # t
    BY <2>3, <1>4, <1>10
  <2>. QED BY <2>2, <2>3
<1>11. ASSUME NEW u \in Txns PROVE PostTxn(u)'
  <2>1. CASE u = t
    BY <2>1, <1>9 DEF PostTxn
  <2>2. CASE u # t
    BY <2>2, <1>4, PostInvElim DEF PostTxn
  <2>. QED BY <2>1, <2>2
<1>12. ASSUME NEW v \in Sessions PROVE PostSession(v)'
  <2>1. CASE v = w
    BY <2>1, <1>2, <1>7, <1>9 DEF PostSession, need
  <2>2. CASE v # w
    <3>1. session'[v] = session[v] /\ (session[v] # Idle => session[v].of \in Txns)
      BY <2>2, <1>2, TxnInvElim
    <3>. QED BY <3>1, <1>10, TxnInvElim, SessionCarries
  <2>. QED BY <2>1, <2>2
<1>. QED BY <1>11, <1>12 DEF PostInv

LEMMA StartProcessPosts ==
    ASSUME TxnInv, PostInv, NEW w \in Workers, NEW t \in Txns, StartProcess(w, t)
    PROVE  PostInv'
<1>1. PICK res \in Process(txn[t]) : Work(w, "process", t, res)
  BY DEF StartProcess
<1>2. txn[t] \in Record /\ txn[t].state # "absent" /\ w \in Sessions
  BY PostInvElim DEF StartProcess, Sessions
<1>3. res \in Results /\ Frugal(Left(txn[t]), res) /\ Left(txn[t]) \in Nat
  BY <1>2, ProcessIsHonest, FrugalProcess, Sizes
<1>4. /\ processing' = processing \ {t} /\ t \in processing /\ retrying' = retrying
      /\ txn' = txn /\ session[w] = Idle
  BY DEF StartProcess
<1>5. retrying[t] \in Nat
  BY PostInvElim
<1>6. Tries(t)' = Tries(t) - 1 /\ \A u \in Txns \ {t} : Tries(u)' = Tries(u)
  BY <1>4, <1>5 DEF Tries
<1>7. processing' \subseteq processing /\ "process" # "manual"
  BY <1>4
<1>. QED BY <1>1, <1>2, <1>3, <1>4, <1>6, <1>7, WorkPosts

LEMMA StartRetryPosts ==
    ASSUME TxnInv, PostInv, NEW w \in Workers, NEW t \in Txns, StartRetry(w, t)
    PROVE  PostInv'
<1>1. PICK res \in RetryCallback(txn[t]) : Work(w, "retry", t, res)
  BY DEF StartRetry
<1>2. /\ txn[t] \in Record /\ txn[t].state # "absent" /\ w \in Sessions
      /\ txn[t].response = TRUE /\ Answering(txn[t])
  BY PostInvElim, TxnInvElim DEF StartRetry, Sessions
<1>3. res \in Results /\ Frugal(Left(txn[t]), res) /\ Left(txn[t]) \in Nat
  BY <1>2, RetryIsHonest, FrugalRetry, Sizes
<1>4. /\ retrying' = [retrying EXCEPT ![t] = @ - 1] /\ processing' = processing
      /\ txn' = txn /\ session[w] = Idle /\ TypeOK
  BY TxnInvElim DEF StartRetry
<1>5. Tries(t)' = Tries(t) - 1 /\ \A u \in Txns \ {t} : Tries(u)' = Tries(u)
  BY <1>4 DEF Tries, TypeOK
<1>6. processing' \subseteq processing /\ "retry" # "manual"
  BY <1>4
<1>. QED BY <1>1, <1>2, <1>3, <1>4, <1>5, <1>6, WorkPosts

LEMMA StartManualPosts ==
    ASSUME TxnInv, PostInv, NEW c \in Clerks, NEW t \in Txns, StartManual(c, t)
    PROVE  PostInv'
<1> DEFINE r == [txn[t] EXCEPT !.retries = 0]
<1>1. PICK res \in RetryCallback(r) : Work(c, "manual", t, res)
  BY DEF StartManual
<1>2. /\ txn[t] \in Record /\ txn[t].state # "absent" /\ c \in Sessions
      /\ txn[t].response = TRUE /\ Answering(txn[t])
  BY TxnInvElim DEF StartManual, Sessions, Record
<1>3. /\ r \in Record /\ r.response = TRUE /\ Answering(r) /\ r.state # "absent"
      /\ r.retries = 0
  BY <1>2 DEF Record, Answering
<1> HIDE DEF r
<1>4. res \in Results /\ Frugal(MaxRetries, res) /\ MaxRetries \in Nat
  <2>1. Left(r) = MaxRetries /\ MaxRetries \in Nat
    BY <1>3, Sizes
  <2>2. Frugal(Left(r), res)
    BY <1>1, <1>3, FrugalRetry
  <2>. QED BY <2>1, <2>2, <1>1, <1>3, RetryIsHonest
<1>5. /\ processing' = processing /\ retrying' = retrying /\ txn' = txn
      /\ session[c] = Idle
  BY DEF StartManual
<1>6. \A u \in Txns : Tries(u)' = Tries(u)
  BY <1>5 DEF Tries
<1>. QED BY <1>1, <1>2, <1>4, <1>5, <1>6, WorkPosts

\* A commit, after which the queue may run the job once more if that is granted.
LEMMA CommittedPosts ==
    ASSUME TxnInv, PostInv, NEW w \in Sessions, Committed(w),
           \/ processing' = processing /\ allowance' = allowance
           \/ /\ processing' = processing \cup {session[w].of}
              /\ allowance' = [allowance EXCEPT ![session[w].of] = @ + 1]
    PROVE  PostInv'
<1>1. TypeOK
  BY TxnInvElim
<1>2. /\ session[w] # Idle /\ session[w] \in Busy
      /\ session[w].of \in Txns /\ session[w].record \in Record
      /\ session[w].stale = FALSE /\ session[w].again \in BOOLEAN
  BY TxnInvElim DEF Committed, Busy
<1>3. PICK t \in Txns, r \in Record, again \in BOOLEAN :
         t = session[w].of /\ r = session[w].record /\ again = session[w].again
  BY <1>2
<1>4. /\ txn' = [txn EXCEPT ![t] = r]
      /\ retrying' = IF again THEN [retrying EXCEPT ![t] = @ + 1] ELSE retrying
      /\ session' = [v \in Sessions |->
            IF v = w THEN Idle
            ELSE IF session[v] # Idle /\ session[v].of = t
                 THEN [session[v] EXCEPT !.stale = TRUE] ELSE session[v]]
      /\ \/ processing' = processing /\ allowance' = allowance
         \/ /\ processing' = processing \cup {t}
            /\ allowance' = [allowance EXCEPT ![t] = @ + 1]
  BY <1>3 DEF Committed
<1>5. /\ r.state # "absent" /\ Tries(t) + Need(r, again) <= allowance[t]
      /\ Tries(t) \in Nat /\ allowance[t] \in Int
  BY <1>2, <1>3, PostInvElim DEF PostSession
<1>6. Need(r, again) = Left(r) + (IF again = TRUE THEN 1 ELSE 0) /\ Left(r) \in Nat
  BY Sizes DEF Need
<1>7. /\ Tries(t)' \in Nat /\ allowance'[t] \in Int
      /\ Tries(t)' - allowance'[t]
            <= Tries(t) - allowance[t] + (IF again = TRUE THEN 1 ELSE 0)
  BY <1>1, <1>4 DEF TypeOK, Tries
<1>8. \A u \in Txns \ {t} : /\ Tries(u)' = Tries(u) /\ allowance'[u] = allowance[u]
                            /\ u \in processing' => u \in processing
  BY <1>1, <1>4 DEF TypeOK, Tries
<1>9. \A u \in Txns : txn'[u] = IF u = t THEN r ELSE txn[u]
  BY <1>1, <1>4 DEF TypeOK
<1>10. ASSUME NEW u \in Txns PROVE PostTxn(u)'
  <2>1. CASE u = t
    <3>1. Tries(t)' + Left(r) <= allowance'[t]
      BY <1>5, <1>6, <1>7
    <3>. QED BY <2>1, <3>1, <1>5, <1>9 DEF PostTxn
  <2>2. CASE u # t
    BY <2>2, <1>8, <1>9, PostInvElim DEF PostTxn
  <2>. QED BY <2>1, <2>2
<1>11. ASSUME NEW v \in Sessions PROVE PostSession(v)'
  <2>1. CASE v = w
    BY <2>1, <1>4 DEF PostSession
  <2>2. CASE v # w /\ session[v] # Idle /\ session[v].of = t
    <3> DEFINE q == [session[v] EXCEPT !.stale = TRUE]
    <3>1. session'[v] = q
      BY <2>2, <1>4
    <3>2. session[v] \in Busy /\ session[v].record.state # "absent"
      BY <2>2, TxnInvElim, PostInvElim DEF PostSession
    <3>3. q.of = t /\ q.stale = TRUE /\ q.record = session[v].record
      BY <3>2, <2>2 DEF Busy
    <3>4. txn'[t].state # "absent"
      BY <1>5, <1>9
    <3> HIDE DEF q
    <3>. QED BY <3>1, <3>2, <3>3, <3>4 DEF PostSession
  <2>3. CASE v # w /\ ~(session[v] # Idle /\ session[v].of = t)
    <3>1. session'[v] = session[v]
      BY <2>3, <1>4
    <3>2. session[v] # Idle => session[v].of \in Txns \ {t}
      BY <2>3, TxnInvElim
    <3>3. \A u \in Txns \ {t}, m \in Nat :
             Tries(u) + m <= allowance[u] => Tries(u)' + m <= allowance'[u]
      BY <1>8, PostInvElim
    <3>4. \A u \in Txns \ {t} : txn[u].state # "absent" => txn'[u].state # "absent"
      BY <1>9
    <3>5. Txns \ {t} \in SUBSET Txns
      OBVIOUS
    <3>. QED BY <3>1, <3>2, <3>3, <3>4, <3>5, SessionCarries
  <2>. QED BY <2>1, <2>2, <2>3
<1>. QED BY <1>10, <1>11 DEF PostInv

LEMMA RequeuedPosts ==
    ASSUME TxnInv, PostInv, NEW w \in Sessions, session[w] # Idle, Requeued(w),
           UNCHANGED txn
    PROVE  PostInv'
<1> DEFINE s == session[w]
           t == s.of
<1>1. TypeOK
  BY TxnInvElim
<1>2. s \in Busy /\ t \in Txns /\ txn[t].state # "absent"
  BY TxnInvElim, PostInvElim DEF PostSession
<1>3. /\ processing' = IF s.job = "process" THEN processing \cup {t} ELSE processing
      /\ retrying' = IF s.job = "retry" THEN [retrying EXCEPT ![t] = @ + 1] ELSE retrying
      /\ allowance' = [allowance EXCEPT ![t] = @ + 1]
      /\ session' = [session EXCEPT ![w] = Idle]
  BY DEF Requeued
<1> HIDE DEF s, t
<1>4. ASSUME NEW u \in Txns
      PROVE  /\ Tries(u)' \in Nat /\ allowance'[u] \in Int
             /\ Tries(u)' - allowance'[u] <= Tries(u) - allowance[u]
             /\ u # t => /\ Tries(u)' = Tries(u) /\ allowance'[u] = allowance[u]
                         /\ u \in processing' => u \in processing
  BY <1>1, <1>2, <1>3 DEF TypeOK, Tries
<1>5. ASSUME NEW u \in Txns, NEW m \in Nat, Tries(u) + m <= allowance[u]
      PROVE  Tries(u)' + m <= allowance'[u]
  <2>1. Tries(u) \in Nat /\ allowance[u] \in Int
    BY PostInvElim
  <2>. QED BY <1>4, <1>5, <2>1
<1>6. ASSUME NEW u \in Txns PROVE PostTxn(u)'
  <2>1. CASE txn[u].state = "absent"
    <3>1. PostTxn(u) /\ u # t
      BY <2>1, <1>2, PostInvElim
    <3>. QED BY <2>1, <3>1, <1>4 DEF PostTxn
  <2>2. CASE txn[u].state # "absent"
    <3>1. Left(txn[u]) \in Nat /\ Tries(u) + Left(txn[u]) <= allowance[u]
      BY <2>2, PostInvElim
    <3>. QED BY <2>2, <3>1, <1>5 DEF PostTxn
  <2>. QED BY <2>1, <2>2
<1>7. ASSUME NEW v \in Sessions PROVE PostSession(v)'
  <2>1. session'[v] = IF v = w THEN Idle ELSE session[v]
    BY <1>1, <1>3 DEF TypeOK
  <2>2. CASE v = w
    BY <2>1, <2>2 DEF PostSession
  <2>3. CASE v # w
    <3>1. session[v] # Idle => session[v].of \in Txns
      BY TxnInvElim
    <3>. QED BY <2>1, <2>3, <3>1, <1>5, SessionCarries
  <2>. QED BY <2>2, <2>3
<1>. QED BY <1>6, <1>7 DEF PostInv

LEMMA PostNext == ASSUME TxnInv, PostInv, [Next]_vars PROVE PostInv'
<1>1. ASSUME NEW t \in Txns, NEW callback \in BOOLEAN,
             \/ AsyncSearch(t, callback) \/ Subscribe(t, callback)
             \/ Unsubscribe(t, callback) \/ AsyncTxnStatus(t, callback)
             \/ BulkSearchUpload(t, callback)
      PROVE  PostInv'
  <2>1. PICK search \in BOOLEAN : Accept(t, search, callback)
    BY <1>1 DEF AsyncSearch, Subscribe, Unsubscribe, AsyncTxnStatus, BulkSearchUpload
  <2>. QED BY <2>1, AcceptPosts
<1>2. ASSUME NEW t \in Txns, NEW w \in Workers, StartProcess(w, t) PROVE PostInv'
  BY <1>2, StartProcessPosts
<1>3. ASSUME NEW t \in Txns, NEW w \in Workers, StartRetry(w, t) PROVE PostInv'
  BY <1>3, StartRetryPosts
<1>4. ASSUME NEW t \in Txns, NEW c \in Clerks, StartManual(c, t) PROVE PostInv'
  BY <1>4, StartManualPosts
<1>5. ASSUME NEW w \in Sessions, Commit(w) PROVE PostInv'
  BY <1>5, CommittedPosts DEF Commit
<1>6. ASSUME NEW w \in Sessions, StartOver(w) PROVE PostInv'
  BY <1>6, RequeuedPosts DEF StartOver
<1>7. ASSUME NEW w \in Workers, Die(w) PROVE PostInv'
  BY <1>7, RequeuedPosts DEF Die, Sessions
<1>8. ASSUME NEW w \in Workers, CommitUnnoticed(w) PROVE PostInv'
  BY <1>8, CommittedPosts DEF CommitUnnoticed, Sessions
<1>9. CASE ToggleSender \/ UNCHANGED vars
  <2>1. UNCHANGED <<txn, processing, retrying, session, allowance>>
    BY <1>9 DEF ToggleSender, vars
  <2>. QED BY <2>1 DEF PostInv, PostTxn, PostSession, Tries
<1>. QED
  BY <1>1, <1>2, <1>3, <1>4, <1>5, <1>6, <1>7, <1>8, <1>9 DEF Next

\* No sender gets more POSTs than it was promised: one and max_retries more each
\* time the answer is asked for, and one for each execution lost or repeated, of
\* any number of jobs that overlap (_send_callback, _retry_callback).
THEOREM PostsStayBounded == Spec => []PostsAreBounded
<1>1. Init => PostInv
  BY DEF Init, NoRecord, PostInv, PostTxn, PostSession
<1>2. TxnInv /\ PostInv => PostsAreBounded
  <2> SUFFICES ASSUME TxnInv, PostInv, NEW t \in Txns PROVE allowance[t] >= 0
    BY DEF PostsAreBounded
  <2>1. CASE txn[t].state = "absent"
    BY <2>1, PostInvElim DEF PostTxn
  <2>2. CASE txn[t].state # "absent"
    BY <2>2, PostInvElim
  <2>. QED BY <2>1, <2>2
<1>. QED BY <1>1, <1>2, PostNext, TxnInvariance, PTL DEF Spec

=============================================================================
