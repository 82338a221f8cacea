--------------------------- MODULE AttachmentScan ---------------------------
(***************************************************************************)
(* Malware scanning of attachments (ir.attachment, extended by             *)
(* spp_attachment_av_scan). New bytes make an attachment pending and queue *)
(* a job that scans it; an infected one is quarantined, its bytes replaced *)
(* by an encrypted copy. Queueing may fail and jobs may be lost: an hourly *)
(* sweep queues again what is pending for too long.                        *)
(*                                                                         *)
(* Contents are numbers, 0 is none. A scan is a transaction in two steps:  *)
(* it reads the record and scans, then it commits unless another committed *)
(* a write of the record meanwhile. Other handlers are short and are one   *)
(* step. The status "scanning" is written and overwritten by the same      *)
(* transaction: nobody sees it.                                            *)
(***************************************************************************)
EXTENDS Integers, FiniteSets, Sequences

CONSTANTS
    Attachments,
    Workers,       \* workers of the job queue
    MaxAttempts,   \* pending_sweep_max_attempts
    BatchSize,     \* pending_sweep_batch_size
    MaxContents,   \* bound on files that are uploaded or downloaded
    MaxRescans,    \* bound on manual rescans
    MaxLost        \* bound on jobs that are lost or not queued

ASSUME ScanAssumption ==
    /\ IsFiniteSet(Attachments)
    /\ {MaxAttempts, BatchSize, MaxContents, MaxRescans, MaxLost} \subseteq Nat

Statuses == {"absent", "pending", "clean", "infected", "error", "skipped"}

\* owned: res_model is set, to a model that is not in SWEEP_EXCLUDED_MODELS.
File == [status : Statuses, bytes : Nat, readable : BOOLEAN, quarantined : BOOLEAN,
         copy : Nat, attempts : Nat, forensic : BOOLEAN, owned : BOOLEAN]

VARIABLES
    file,       \* the record of each attachment
    jobs,       \* queued _scan_for_malware jobs of each attachment
    scan,       \* what each worker is doing
    line,       \* attachments in the order of their write_date
    aged,       \* pending ones whose write_date is old enough for the sweep
    judged,     \* history: the content last found clean or infected, or restored
    condemned,  \* history: the content last found infected and not restored
    contents, rescans, lost   \* counters for the bounds

vars == <<file, jobs, scan, line, aged, judged, condemned, contents, rescans, lost>>

Idle == [job |-> "none"]
Scanning == [job : {"scan"}, of : Attachments, read : File]
Beaten == [job : {"beaten"}, of : Attachments]

TypeOK ==
    /\ file \in [Attachments -> File]
    /\ jobs \in [Attachments -> Nat]
    /\ scan \in [Workers -> Scanning \cup Beaten \cup {Idle}]
    /\ aged \subseteq Attachments
    /\ judged \in [Attachments -> Nat]
    /\ condemned \in [Attachments -> Nat]
    /\ {contents, rescans, lost} \subseteq Nat

-----------------------------------------------------------------------------
(* Records *)

NoFile == [status |-> "absent", bytes |-> 0, readable |-> TRUE, quarantined |-> FALSE,
           copy |-> 0, attempts |-> 0, forensic |-> FALSE, owned |-> FALSE]

Exists(a) == file[a].status # "absent"

\* attachment.datas: the bytes, unless the file store lost them.
Datas(f) == IF f.readable THEN f.bytes ELSE 0

\* The content that read returns of a file, when its fields name datas or not: a
\* read of raw, or of all fields, is answered whatever the quarantine.
Read(f, namesDatas) == IF namesDatas /\ f.quarantined THEN 0 ELSE Datas(f)

\* What the scans are doing once the records of S are written: those of one of
\* them will not commit.
Beat(S) ==
    [w \in Workers |-> IF scan[w] # Idle /\ scan[w].of \in S
                       THEN [job |-> "beaten", of |-> scan[w].of] ELSE scan[w]]

\* The records of new are written.
Update(new) ==
    /\ file' = [a \in Attachments |-> IF a \in DOMAIN new THEN new[a] ELSE file[a]]
    /\ scan' = Beat(DOMAIN new)
    /\ aged' = aged \ DOMAIN new
    /\ line' = SelectSeq(line, LAMBDA a : a \notin DOMAIN new)
               \o SelectSeq(line, LAMBDA a : a \in DOMAIN new)

Write(a, f) == Update([b \in {a} |-> f])

\* The records of S are deleted: jobs and scans of them find no record and fail.
Remove(S) ==
    /\ file' = [a \in Attachments |-> IF a \in S THEN NoFile ELSE file[a]]
    /\ jobs' = [a \in Attachments |-> IF a \in S THEN 0 ELSE jobs[a]]
    /\ scan' = [w \in Workers |->
          IF scan[w] # Idle /\ scan[w].of \in S THEN Idle ELSE scan[w]]
    /\ aged' = aged \ S
    /\ judged' = [a \in Attachments |-> IF a \in S THEN 0 ELSE judged[a]]
    /\ condemned' = [a \in Attachments |-> IF a \in S THEN 0 ELSE condemned[a]]
    /\ UNCHANGED <<line, contents, rescans, lost>>

\* with_delay for each of S, of which those in failed are not queued: the queue
\* refuses them, which the hooks swallow, or the registry is still loading.
Queue(S, failed) ==
    /\ jobs' = [a \in Attachments |-> IF a \in S \ failed THEN jobs[a] + 1 ELSE jobs[a]]
    /\ lost' = lost + Cardinality(failed)
    /\ lost' <= MaxLost

-----------------------------------------------------------------------------
(* Uploads *)

NewContent == contents + 1

Counted == contents < MaxContents /\ contents' = NewContent

Create(a) ==
    /\ ~Exists(a)
    /\ Counted
    /\ \E owned \in BOOLEAN :
          Write(a, [NoFile EXCEPT !.status = "pending", !.bytes = NewContent, !.owned = owned])
    /\ \E failed \in SUBSET {a} : Queue({a}, failed)
    /\ UNCHANGED <<judged, condemned, rescans>>

\* Mutant: the bytes change and the verdict stays.
RearmedKeepingStatus(f) == [f EXCEPT !.quarantined = FALSE, !.copy = 0, !.attempts = 0]

\* What write resets for new bytes.
Rearmed(f) ==
    [f EXCEPT !.status = "pending", !.quarantined = FALSE, !.copy = 0, !.attempts = 0]

WriteDatas(a) ==
    /\ Exists(a)
    /\ Counted
    /\ Write(a, [Rearmed(file[a]) EXCEPT !.bytes = NewContent, !.readable = TRUE])
    /\ \E failed \in SUBSET {a} : Queue({a}, failed)
    /\ judged' = [judged EXCEPT ![a] = 0]
    /\ condemned' = [condemned EXCEPT ![a] = 0]
    /\ UNCHANGED rescans

\* Without new bytes nothing is reset and nothing queued.
EmptyDatas(a) ==
    /\ file[a].bytes # 0
    /\ Write(a, [file[a] EXCEPT !.bytes = 0, !.readable = TRUE])
    /\ UNCHANGED <<jobs, judged, condemned, contents, rescans, lost>>

\* The file store loses the bytes of a. A scan that had read them is as if it had
\* committed before.
LoseBytes(a) ==
    /\ file[a].bytes # 0
    /\ file[a].readable
    /\ file' = [file EXCEPT ![a].readable = FALSE]
    /\ scan' = [w \in Workers |->
          IF scan[w].job = "scan" /\ scan[w].of = a
          THEN [scan[w] EXCEPT !.read = [@ EXCEPT !.readable = FALSE]] ELSE scan[w]]
    /\ UNCHANGED <<jobs, line, aged, judged, condemned, contents, rescans, lost>>

-----------------------------------------------------------------------------
(* Scans *)

\* _quarantine of content c: with an encrypted copy, or without one if there is
\* no provider or it fails; or an error leaves the bytes where they are.
Quarantine(f, c) ==
    LET q == [f EXCEPT !.quarantined = TRUE, !.readable = TRUE]
    IN  {[q EXCEPT !.bytes = 0, !.copy = c], [q EXCEPT !.bytes = 0, !.copy = 0],
         [f EXCEPT !.quarantined = TRUE]}

\* Mutant: a verdict other than infected ends the quarantine.
VerdictReleasing(f, st) == [f EXCEPT !.status = st, !.quarantined = FALSE]

Verdict(f, st) == [f EXCEPT !.status = st]

\* scan_binary: what it may say; a file that is too large is skipped, and so is any
\* file without an active backend.
ScanBinary == {"clean", "infected", "error", "skipped"}

\* _scan_for_malware: what it may make of the record.
ScanForMalware(f) ==
    IF Datas(f) = 0 THEN {Verdict(f, "skipped")}
    ELSE {Verdict(f, st) : st \in ScanBinary \ {"infected"}}
         \cup Quarantine(Verdict(f, "infected"), Datas(f))

StartScan(w, a) ==
    /\ scan[w] = Idle
    /\ jobs[a] > 0
    /\ jobs' = [jobs EXCEPT ![a] = @ - 1]
    /\ scan' = [scan EXCEPT ![w] = [job |-> "scan", of |-> a, read |-> file[a]]]
    /\ UNCHANGED <<file, line, aged, judged, condemned, contents, rescans, lost>>

CommitScan(w) ==
    LET s == scan[w]
    IN  /\ s.job = "scan"
        /\ \E f \in ScanForMalware(s.read) :
              /\ file' = [file EXCEPT ![s.of] = f]
              /\ judged' = IF f.status \in {"clean", "infected"}
                           THEN [judged EXCEPT ![s.of] = Datas(s.read)] ELSE judged
              /\ condemned' = IF f.status = "infected"
                              THEN [condemned EXCEPT ![s.of] = Datas(s.read)] ELSE condemned
        /\ scan' = [Beat({s.of}) EXCEPT ![w] = Idle]
        /\ aged' = aged \ {s.of}
        /\ line' = Append(SelectSeq(line, LAMBDA a : a # s.of), s.of)
        /\ UNCHANGED <<jobs, contents, rescans, lost>>

\* The scan that was beaten to its record runs again; or, if the error came up
\* inside the method, which cannot even record it, it fails for good.
StartOver(w) ==
    /\ scan[w].job = "beaten"
    /\ scan' = [scan EXCEPT ![w] = Idle]
    /\ jobs' \in {jobs, [jobs EXCEPT ![scan[w].of] = @ + 1]}
    /\ UNCHANGED <<file, line, aged, judged, condemned, contents, rescans, lost>>

\* The queue loses a job. A job whose worker dies while it scans is as if it had
\* been lost before: it has committed nothing.
LoseJob(a) ==
    /\ jobs[a] > 0
    /\ lost < MaxLost
    /\ lost' = lost + 1
    /\ jobs' = [jobs EXCEPT ![a] = @ - 1]
    /\ UNCHANGED <<file, scan, line, aged, judged, condemned, contents, rescans>>

\* action_rescan.
Rescan(a) ==
    /\ Exists(a)
    /\ ~file[a].quarantined
    /\ Datas(file[a]) # 0
    /\ rescans < MaxRescans
    /\ rescans' = rescans + 1
    /\ Write(a, [file[a] EXCEPT !.status = "pending", !.attempts = 0])
    /\ Queue({a}, {})
    /\ UNCHANGED <<judged, condemned, contents>>

-----------------------------------------------------------------------------
(* The sweep of pending attachments *)

Age(a) ==
    /\ file[a].status = "pending" /\ a \notin aged
    /\ aged' = aged \cup {a}
    /\ UNCHANGED <<file, jobs, scan, line, judged, condemned, contents, rescans, lost>>

Stranded(a) ==
    /\ a \in aged
    /\ file[a].status = "pending"
    /\ file[a].bytes # 0
    /\ ~file[a].quarantined
    /\ ~file[a].forensic
    /\ file[a].owned
    /\ file[a].attempts < MaxAttempts

\* The first BatchSize of them in the order of write_date.
Batch ==
    {line[i] : i \in {j \in DOMAIN line :
        /\ Stranded(line[j])
        /\ Cardinality({k \in 1 .. j - 1 : Stranded(line[k])}) < BatchSize}}

\* Mutant: an attempt is counted when the job is queued.
SweepCountingJobs ==
    /\ Batch # {}
    /\ LET readable == {a \in Batch : Datas(file[a]) # 0}
       IN  \E failed \in SUBSET readable :
              /\ Update([a \in readable \ failed |-> [file[a] EXCEPT !.attempts = @ + 1]])
              /\ Queue(readable, failed)
    /\ UNCHANGED <<judged, condemned, contents, rescans>>

\* _cron_sweep_pending_scans: an attempt counts whether it succeeds or not.
Sweep ==
    /\ Batch # {}
    /\ Update([a \in Batch |-> [file[a] EXCEPT !.attempts = @ + 1]])
    /\ LET readable == {a \in Batch : Datas(file[a]) # 0}
       IN  \E failed \in SUBSET readable : Queue(readable, failed)
    /\ UNCHANGED <<judged, condemned, contents, rescans>>

-----------------------------------------------------------------------------
(* Antivirus administrators and the other crons *)

\* action_restore_quarantined.
Restore(a) ==
    LET c == file[a].copy
    IN  /\ file[a].quarantined
        /\ c # 0
        /\ Write(a, [file[a] EXCEPT !.bytes = c, !.readable = TRUE, !.copy = 0,
                                    !.quarantined = FALSE, !.status = "clean"])
        /\ judged' = [judged EXCEPT ![a] = c]
        /\ condemned' = [condemned EXCEPT ![a] = 0]
        /\ UNCHANGED <<jobs, contents, rescans, lost>>

\* action_download_quarantined_for_analysis creates attachment b; create queues
\* a scan of it like of any other.
Download(a, b) ==
    /\ file[a].quarantined
    /\ file[a].copy # 0
    /\ ~Exists(b)
    /\ Counted
    /\ Write(b, [NoFile EXCEPT !.status = "skipped", !.bytes = file[a].copy,
                               !.forensic = TRUE, !.owned = TRUE])
    /\ \E failed \in SUBSET {b} : Queue({b}, failed)
    /\ UNCHANGED <<judged, condemned, rescans>>

\* action_permanently_delete_quarantined.
Delete(a) ==
    /\ file[a].quarantined
    /\ Remove({a})

\* _cron_purge_old_quarantined_files, for those past the retention.
Purge ==
    \E S \in SUBSET {a \in Attachments : file[a].quarantined /\ file[a].copy # 0} \ {{}} :
        /\ Update([a \in S |-> [file[a] EXCEPT !.copy = 0]])
        /\ UNCHANGED <<jobs, judged, condemned, contents, rescans, lost>>

\* _cron_cleanup_forensic_downloads.
Cleanup ==
    \E S \in SUBSET {a \in Attachments : file[a].forensic} \ {{}} : Remove(S)

-----------------------------------------------------------------------------

Init ==
    /\ file = [a \in Attachments |-> NoFile]
    /\ jobs = [a \in Attachments |-> 0]
    /\ scan = [w \in Workers |-> Idle]
    /\ line = CHOOSE s \in [1 .. Cardinality(Attachments) -> Attachments] :
                  \A a \in Attachments : \E i \in DOMAIN s : s[i] = a
    /\ aged = {}
    /\ judged = [a \in Attachments |-> 0]
    /\ condemned = [a \in Attachments |-> 0]
    /\ contents = 0 /\ rescans = 0 /\ lost = 0

Next ==
    \/ \E a \in Attachments :
          \/ Create(a) \/ WriteDatas(a) \/ EmptyDatas(a) \/ LoseBytes(a)
          \/ \E w \in Workers : StartScan(w, a)
          \/ LoseJob(a) \/ Rescan(a) \/ Age(a)
          \/ Restore(a) \/ Delete(a)
          \/ \E b \in Attachments : Download(a, b)
    \/ \E w \in Workers : CommitScan(w) \/ StartOver(w)
    \/ Sweep \/ Purge \/ Cleanup

Spec == Init /\ [][Next]_vars

\* Time passes, the cron runs the sweep, and the queue runs the jobs it holds.
FairSpec ==
    /\ Spec
    /\ WF_vars(Sweep)
    /\ \A a \in Attachments :
          /\ WF_vars(Age(a))
          /\ WF_vars(\E w \in Workers : StartScan(w, a))
    /\ \A w \in Workers : WF_vars(CommitScan(w) \/ StartOver(w))

-----------------------------------------------------------------------------
(* Properties *)

\* A verdict is about the bytes the attachment has: no scan that was overtaken by
\* new bytes leaves its verdict on them (write, _scan_for_malware).
VerdictIsAboutTheseBytes ==
    \A a \in Attachments :
        file[a].status \in {"clean", "infected"} /\ file[a].bytes # 0
            => file[a].bytes = judged[a]

\* Once bytes were found infected no read that names datas returns them from that
\* attachment, whatever is scanned, swept or written again, until an administrator
\* restores them (_scan_for_malware, _quarantine, action_rescan, read). Reads of raw
\* or of all fields are not blocked, nor are the forensic copies, attachments of
\* their own.
CondemnedIsBlocked ==
    \A a \in Attachments :
        condemned[a] # 0 => Read(file[a], TRUE) # condemned[a]

\* No attachment in the sweep's scope waits for a verdict for ever: one that can be
\* read is scanned in the end, or the sweep has queued it as often as it may. Out of
\* scope are forensic downloads, attachments that hang off no business record and
\* those of SWEEP_EXCLUDED_MODELS, whose scan may be lost (_pending_sweep_domain,
\* _cron_sweep_pending_scans).
Waiting(a) ==
    /\ file[a].status = "pending" /\ Datas(file[a]) # 0
    /\ file[a].owned /\ ~file[a].forensic
EveryFileIsExamined ==
    \A a \in Attachments :
        Waiting(a) ~> ~Waiting(a) \/ file[a].attempts >= MaxAttempts

=============================================================================
