------------------------ MODULE AttachmentScanProofs ------------------------
(***************************************************************************)
(* Proofs about AttachmentScan: for any number of attachments, workers,    *)
(* contents and lost jobs a verdict is about the bytes it stands beside,   *)
(* and condemned bytes stay blocked.                                       *)
(*                                                                         *)
(* The argument: a scan that will commit has read what the record still    *)
(* holds, because every write of the record makes the scans of it fail;    *)
(* and a record that does not exist has left no condemned content behind.  *)
(* The sweep passes nothing over that waits, because nothing that waits is *)
(* in quarantine.                                                          *)
(***************************************************************************)
EXTENDS AttachmentScan, FiniteSetTheorems, TLAPS

\* A scan that nobody overtook has read the present record.
ScansAreCurrent ==
    \A w \in Workers : scan[w].job = "scan" => scan[w].read = file[scan[w].of]

\* Nothing is remembered of a deleted attachment.
AbsentIsForgotten ==
    \A a \in Attachments : file[a].status = "absent" => condemned[a] = 0

\* Condemned bytes that are still there are flagged, the flag being what read looks at.
CondemnedIsFlagged ==
    \A a \in Attachments :
        file[a].bytes # 0 /\ file[a].bytes = condemned[a] => file[a].quarantined

\* The inductive invariant.
ScanInv ==
    /\ TypeOK
    /\ ScansAreCurrent
    /\ AbsentIsForgotten
    /\ VerdictIsAboutTheseBytes
    /\ CondemnedIsFlagged

-----------------------------------------------------------------------------
(* Lemmas about the writes *)

\* Each session is idle, scans or is beaten, and its kind tells which.
LEMMA SessionKinds ==
    ASSUME NEW s \in Scanning \cup Beaten \cup {Idle}
    PROVE  /\ s.job = "scan" <=> s \in Scanning
           /\ s.job = "none" <=> s = Idle
           /\ s # Idle => s.of \in Attachments
           /\ s.job = "scan" => s.read \in File
  BY DEF Scanning, Beaten, Idle

\* Beating scans keeps them well typed, and those that go on are of others.
LEMMA BeatScans ==
    ASSUME TypeOK, NEW S
    PROVE  /\ Beat(S) \in [Workers -> Scanning \cup Beaten \cup {Idle}]
           /\ \A w \in Workers : Beat(S)[w].job = "scan" =>
                 Beat(S)[w] = scan[w] /\ scan[w].of \notin S
<1>1. ASSUME NEW w \in Workers
      PROVE  /\ Beat(S)[w] \in Scanning \cup Beaten \cup {Idle}
             /\ Beat(S)[w].job = "scan" => Beat(S)[w] = scan[w] /\ scan[w].of \notin S
  <2>1. scan[w] \in Scanning \cup Beaten \cup {Idle}
    BY DEF TypeOK
  <2>2. CASE scan[w] # Idle /\ scan[w].of \in S
    <3>1. Beat(S)[w] = [job |-> "beaten", of |-> scan[w].of]
      BY <2>2 DEF Beat
    <3>. QED BY <3>1, <2>1, <2>2, SessionKinds DEF Beaten
  <2>3. CASE ~(scan[w] # Idle /\ scan[w].of \in S)
    <3>1. Beat(S)[w] = scan[w]
      BY <2>3 DEF Beat
    <3>2. scan[w].job = "scan" => scan[w] # Idle
      BY DEF Idle
    <3>. QED BY <3>1, <3>2, <2>1, <2>3
  <2>. QED BY <2>2, <2>3
<1>. QED BY <1>1 DEF Beat

\* What Update leaves: typed records, current scans, and no other change.
LEMMA UpdateKeeps ==
    ASSUME TypeOK, ScansAreCurrent,
           NEW new, \A a \in DOMAIN new \cap Attachments : new[a] \in File,
           Update(new)
    PROVE  /\ file' \in [Attachments -> File]
           /\ scan' \in [Workers -> Scanning \cup Beaten \cup {Idle}]
           /\ aged' \subseteq Attachments
           /\ ScansAreCurrent'
           /\ \A a \in Attachments :
                 file'[a] = IF a \in DOMAIN new THEN new[a] ELSE file[a]
<1>1. \A a \in Attachments : file'[a] = IF a \in DOMAIN new THEN new[a] ELSE file[a]
  BY DEF Update
<1>2. file' \in [Attachments -> File]
  BY DEF Update, TypeOK
<1>3. aged' \subseteq Attachments
  BY DEF Update, TypeOK
<1>4. scan' \in [Workers -> Scanning \cup Beaten \cup {Idle}]
  BY BeatScans DEF Update
<1>5. ASSUME NEW w \in Workers, scan'[w].job = "scan"
      PROVE  scan'[w].read = file'[scan'[w].of]
  <2>1. scan'[w] = scan[w] /\ scan[w].of \notin DOMAIN new
    BY <1>5, BeatScans DEF Update
  <2>2. scan[w].of \in Attachments
    BY <2>1, <1>5, SessionKinds DEF TypeOK, Idle
  <2>. QED BY <1>1, <1>5, <2>1, <2>2 DEF ScansAreCurrent
<1>. QED BY <1>1, <1>2, <1>3, <1>4, <1>5 DEF ScansAreCurrent

\* Queueing keeps the counters well typed.
LEMMA QueueKeeps ==
    ASSUME TypeOK, NEW S, S \subseteq Attachments, NEW failed \in SUBSET S,
           Queue(S, failed)
    PROVE  jobs' \in [Attachments -> Nat] /\ lost' \in Nat
<1>1. Cardinality(failed) \in Nat
  BY FS_Subset, FS_CardinalityType, ScanAssumption
<1>. QED BY <1>1 DEF Queue, TypeOK

-----------------------------------------------------------------------------
(* The steps that write records by Update. What they have to show is the      *)
(* typing of what they write and the two properties of each attachment.       *)

\* One attachment satisfies the properties.
Sound(f, j, c) ==
    /\ f.status = "absent" => c = 0
    /\ f.status \in {"clean", "infected"} /\ f.bytes # 0 => f.bytes = j
    /\ f.bytes # 0 /\ f.bytes = c => f.quarantined

LEMMA SoundIsInv ==
    ASSUME TypeOK, ScansAreCurrent,
           \A a \in Attachments : Sound(file[a], judged[a], condemned[a])
    PROVE  ScanInv
BY DEF Sound, ScanInv, AbsentIsForgotten, VerdictIsAboutTheseBytes, CondemnedIsFlagged

LEMMA InvIsSound ==
    ASSUME ScanInv
    PROVE  \A a \in Attachments : Sound(file[a], judged[a], condemned[a])
BY DEF Sound, ScanInv, AbsentIsForgotten, VerdictIsAboutTheseBytes, CondemnedIsFlagged

\* A step by Update preserves the invariant if what it writes is sound.
LEMMA UpdateIsSound ==
    ASSUME ScanInv, NEW new, Update(new),
           \A a \in DOMAIN new \cap Attachments : new[a] \in File,
           judged' \in [Attachments -> Nat], condemned' \in [Attachments -> Nat],
           jobs' \in [Attachments -> Nat], {contents', rescans', lost'} \subseteq Nat,
           \A a \in DOMAIN new \cap Attachments : Sound(new[a], judged'[a], condemned'[a]),
           \A a \in Attachments \ DOMAIN new :
              judged'[a] = judged[a] /\ condemned'[a] = condemned[a]
    PROVE  ScanInv'
<1>1. TypeOK /\ ScansAreCurrent
  BY DEF ScanInv
<1>2. /\ file' \in [Attachments -> File]
      /\ scan' \in [Workers -> Scanning \cup Beaten \cup {Idle}]
      /\ aged' \subseteq Attachments
      /\ ScansAreCurrent'
      /\ \A a \in Attachments :
            file'[a] = IF a \in DOMAIN new THEN new[a] ELSE file[a]
  BY <1>1, UpdateKeeps
<1>3. TypeOK'
  BY <1>2 DEF TypeOK
<1>4. \A a \in Attachments : Sound(file[a], judged[a], condemned[a])
  BY InvIsSound
<1>5. ASSUME NEW a \in Attachments
      PROVE  Sound(file[a], judged[a], condemned[a])'
  <2>1. CASE a \in DOMAIN new
    BY <2>1, <1>2 DEF Sound
  <2>2. CASE a \notin DOMAIN new
    <3>1. file'[a] = file[a] /\ judged'[a] = judged[a] /\ condemned'[a] = condemned[a]
      BY <2>2, <1>2
    <3>. QED BY <3>1, <1>4 DEF Sound
  <2>. QED BY <2>1, <2>2
<1>. QED
  BY <1>2, <1>3, <1>5
     DEF Sound, ScanInv, AbsentIsForgotten, VerdictIsAboutTheseBytes, CondemnedIsFlagged

\* The same for a step that writes one record.
LEMMA WriteIsSound ==
    ASSUME ScanInv, NEW a \in Attachments, NEW f \in File, Write(a, f),
           judged' \in [Attachments -> Nat], condemned' \in [Attachments -> Nat],
           jobs' \in [Attachments -> Nat], {contents', rescans', lost'} \subseteq Nat,
           Sound(f, judged'[a], condemned'[a]),
           \A b \in Attachments \ {a} :
              judged'[b] = judged[b] /\ condemned'[b] = condemned[b]
    PROVE  ScanInv'
<1> DEFINE new == [b \in {a} |-> f]
<1>1. Update(new)
  BY DEF Write
<1>2. DOMAIN new = {a} /\ new[a] = f
  OBVIOUS
<1>3. /\ \A b \in DOMAIN new \cap Attachments : new[b] \in File
      /\ \A b \in DOMAIN new \cap Attachments : Sound(new[b], judged'[b], condemned'[b])
      /\ \A b \in Attachments \ DOMAIN new :
            judged'[b] = judged[b] /\ condemned'[b] = condemned[b]
  BY <1>2
<1> HIDE DEF new
<1>. QED BY <1>1, <1>3, UpdateIsSound

-----------------------------------------------------------------------------
(* The actions *)

LEMMA CreateKeeps ==
    ASSUME ScanInv, NEW a \in Attachments, Create(a)
    PROVE  ScanInv'
<1> DEFINE f(owned) ==
       [NoFile EXCEPT !.status = "pending", !.bytes = NewContent, !.owned = owned]
<1>1. TypeOK /\ Sound(file[a], judged[a], condemned[a])
  BY InvIsSound DEF ScanInv
<1>2. condemned[a] = 0
  BY <1>1 DEF Sound, Create, Exists
<1>3. contents \in Nat /\ NewContent \in Nat
  BY <1>1 DEF TypeOK, NewContent
<1>4. PICK owned \in BOOLEAN : Write(a, f(owned))
  BY DEF Create
<1>5. f(owned) \in File /\ Sound(f(owned), judged[a], 0)
  BY <1>3 DEF File, Statuses, NoFile, Sound
<1>6. PICK failed \in SUBSET {a} : Queue({a}, failed)
  BY DEF Create
<1>7. jobs' \in [Attachments -> Nat] /\ lost' \in Nat
  BY <1>1, <1>6, QueueKeeps
<1>8. contents' = NewContent /\ UNCHANGED <<judged, condemned, rescans>>
  BY DEF Create, Counted
<1> HIDE DEF f
<1>. QED
  BY <1>1, <1>2, <1>3, <1>4, <1>5, <1>7, <1>8, WriteIsSound DEF TypeOK

LEMMA WriteDatasKeeps ==
    ASSUME ScanInv, NEW a \in Attachments, WriteDatas(a)
    PROVE  ScanInv'
<1> DEFINE f == [Rearmed(file[a]) EXCEPT !.bytes = NewContent, !.readable = TRUE]
<1>1. TypeOK /\ file[a] \in File
  BY DEF ScanInv, TypeOK
<1>2. contents \in Nat /\ NewContent \in Nat
  BY <1>1 DEF TypeOK, NewContent
<1>3. f \in File /\ f.status = "pending" /\ f.bytes = contents + 1
  BY <1>1, <1>2 DEF File, Statuses, Rearmed, NewContent
<1>4. Sound(f, 0, 0)
  BY <1>2, <1>3 DEF Sound
<1>5. PICK failed \in SUBSET {a} : Queue({a}, failed)
  BY DEF WriteDatas
<1>6. jobs' \in [Attachments -> Nat] /\ lost' \in Nat
  BY <1>1, <1>5, QueueKeeps
<1>7. /\ Write(a, f) /\ contents' = NewContent
      /\ judged' = [judged EXCEPT ![a] = 0]
      /\ condemned' = [condemned EXCEPT ![a] = 0]
      /\ UNCHANGED rescans
  BY DEF WriteDatas, Counted
<1> HIDE DEF f
<1>. QED
  BY <1>1, <1>2, <1>3, <1>4, <1>6, <1>7, WriteIsSound DEF TypeOK

LEMMA EmptyDatasKeeps ==
    ASSUME ScanInv, NEW a \in Attachments, EmptyDatas(a)
    PROVE  ScanInv'
<1> DEFINE f == [file[a] EXCEPT !.bytes = 0, !.readable = TRUE]
<1>1. TypeOK /\ file[a] \in File /\ Sound(file[a], judged[a], condemned[a])
  BY InvIsSound DEF ScanInv, TypeOK
<1>2. f \in File /\ Sound(f, judged[a], condemned[a])
  BY <1>1 DEF File, Sound
<1>3. Write(a, f) /\ UNCHANGED <<jobs, judged, condemned, contents, rescans, lost>>
  BY DEF EmptyDatas
<1> HIDE DEF f
<1>. QED BY <1>1, <1>2, <1>3, WriteIsSound DEF TypeOK

LEMMA RescanKeeps ==
    ASSUME ScanInv, NEW a \in Attachments, Rescan(a)
    PROVE  ScanInv'
<1> DEFINE f == [file[a] EXCEPT !.status = "pending", !.attempts = 0]
<1>1. TypeOK /\ file[a] \in File /\ Sound(file[a], judged[a], condemned[a])
  BY InvIsSound DEF ScanInv, TypeOK
<1>2. f \in File /\ Sound(f, judged[a], condemned[a])
  BY <1>1 DEF File, Statuses, Sound
<1>3. /\ Write(a, f) /\ Queue({a}, {}) /\ rescans' = rescans + 1
      /\ UNCHANGED <<judged, condemned, contents>>
  BY DEF Rescan
<1>4. jobs' \in [Attachments -> Nat] /\ lost' \in Nat
  BY <1>1, <1>3, QueueKeeps
<1> HIDE DEF f
<1>. QED BY <1>1, <1>2, <1>3, <1>4, WriteIsSound DEF TypeOK

LEMMA RestoreKeeps ==
    ASSUME ScanInv, NEW a \in Attachments, Restore(a)
    PROVE  ScanInv'
<1> DEFINE c == file[a].copy
           f == [file[a] EXCEPT !.bytes = c, !.readable = TRUE, !.copy = 0,
                                !.quarantined = FALSE, !.status = "clean"]
<1>1. TypeOK /\ file[a] \in File /\ c \in Nat /\ c # 0
  BY DEF ScanInv, TypeOK, File, Restore
<1>2. f \in File /\ Sound(f, c, 0)
  BY <1>1 DEF File, Statuses, Sound
<1>3. /\ Write(a, f)
      /\ judged' = [judged EXCEPT ![a] = c]
      /\ condemned' = [condemned EXCEPT ![a] = 0]
      /\ UNCHANGED <<jobs, contents, rescans, lost>>
  BY DEF Restore
<1> HIDE DEF f, c
<1>. QED BY <1>1, <1>2, <1>3, WriteIsSound DEF TypeOK

LEMMA DownloadKeeps ==
    ASSUME ScanInv, NEW a \in Attachments, NEW b \in Attachments, Download(a, b)
    PROVE  ScanInv'
<1> DEFINE f == [NoFile EXCEPT !.status = "skipped", !.bytes = file[a].copy,
                               !.forensic = TRUE, !.owned = TRUE]
<1>1. TypeOK /\ Sound(file[b], judged[b], condemned[b]) /\ file[a].copy \in Nat
  BY InvIsSound DEF ScanInv, TypeOK, File
<1>2. condemned[b] = 0
  BY <1>1 DEF Sound, Download, Exists
<1>3. f \in File /\ Sound(f, judged[b], 0)
  BY <1>1 DEF File, Statuses, NoFile, Sound
<1>4. contents \in Nat /\ NewContent \in Nat
  BY <1>1 DEF TypeOK, NewContent
<1>5. PICK failed \in SUBSET {b} : Queue({b}, failed)
  BY DEF Download
<1>6. jobs' \in [Attachments -> Nat] /\ lost' \in Nat
  BY <1>1, <1>5, QueueKeeps
<1>7. /\ Write(b, f) /\ contents' = NewContent
      /\ UNCHANGED <<judged, condemned, rescans>>
  BY DEF Download, Counted
<1> HIDE DEF f
<1>. QED
  BY <1>1, <1>2, <1>3, <1>4, <1>6, <1>7, WriteIsSound DEF TypeOK

LEMMA PurgeKeeps ==
    ASSUME ScanInv, Purge
    PROVE  ScanInv'
<1>1. PICK S \in SUBSET Attachments :
          /\ Update([a \in S |-> [file[a] EXCEPT !.copy = 0]])
          /\ UNCHANGED <<jobs, judged, condemned, contents, rescans, lost>>
  BY DEF Purge
<1> DEFINE new == [a \in S |-> [file[a] EXCEPT !.copy = 0]]
<1>2. TypeOK
  BY DEF ScanInv
<1>3. ASSUME NEW a \in S
      PROVE  /\ new[a] = [file[a] EXCEPT !.copy = 0]
             /\ new[a] \in File /\ Sound(new[a], judged[a], condemned[a])
  <2>1. file[a] \in File /\ Sound(file[a], judged[a], condemned[a])
    BY <1>2, InvIsSound DEF TypeOK
  <2>. QED BY <2>1 DEF File, Sound
<1>4. Update(new) /\ DOMAIN new = S
  BY <1>1
<1> HIDE DEF new
<1>. QED BY <1>1, <1>2, <1>3, <1>4, UpdateIsSound DEF TypeOK

LEMMA SweepKeeps ==
    ASSUME ScanInv, Sweep
    PROVE  ScanInv'
<1> DEFINE new == [a \in Batch |-> [file[a] EXCEPT !.attempts = @ + 1]]
           readable == {a \in Batch : Datas(file[a]) # 0}
<1>1. TypeOK
  BY DEF ScanInv
<1>2. Batch \subseteq Attachments
  BY <1>1 DEF Batch, Stranded, TypeOK
<1>3. ASSUME NEW a \in Batch
      PROVE  new[a] \in File /\ Sound(new[a], judged[a], condemned[a])
  <2>1. file[a] \in File /\ Sound(file[a], judged[a], condemned[a])
    BY <1>1, <1>2, InvIsSound DEF TypeOK
  <2>2. new[a] = [file[a] EXCEPT !.attempts = file[a].attempts + 1]
    BY <2>1 DEF File
  <2>. QED BY <2>1, <2>2 DEF File, Sound
<1>4. PICK failed \in SUBSET readable : Queue(readable, failed)
  BY DEF Sweep
<1>5. jobs' \in [Attachments -> Nat] /\ lost' \in Nat
  BY <1>1, <1>2, <1>4, QueueKeeps
<1>6. Update(new) /\ DOMAIN new = Batch /\ UNCHANGED <<judged, condemned, contents, rescans>>
  BY DEF Sweep
<1> HIDE DEF new
<1>. QED BY <1>1, <1>3, <1>5, <1>6, UpdateIsSound DEF TypeOK

-----------------------------------------------------------------------------
(* Steps that touch no record, or not by Update *)

\* Files stay as they are: what matters is that scans stay typed and current.
LEMMA FilesUntouched ==
    ASSUME ScanInv, TypeOK', ScansAreCurrent', UNCHANGED <<file, judged, condemned>>
    PROVE  ScanInv'
BY DEF ScanInv, AbsentIsForgotten, VerdictIsAboutTheseBytes, CondemnedIsFlagged

LEMMA StartScanKeeps ==
    ASSUME ScanInv, NEW w \in Workers, NEW a \in Attachments, StartScan(w, a)
    PROVE  ScanInv'
<1>1. TypeOK /\ ScansAreCurrent /\ file[a] \in File /\ jobs[a] \in Nat
  BY DEF ScanInv, TypeOK
<1> DEFINE s == [job |-> "scan", of |-> a, read |-> file[a]]
<1>2. s \in Scanning
  BY <1>1 DEF Scanning
<1>3. TypeOK'
  BY <1>1, <1>2 DEF TypeOK, StartScan
<1>4. ScansAreCurrent'
  <2>1. /\ scan' = [scan EXCEPT ![w] = s] /\ file' = file
        /\ scan \in [Workers -> Scanning \cup Beaten \cup {Idle}]
    BY <1>1 DEF StartScan, TypeOK
  <2>. QED BY <1>1, <2>1 DEF ScansAreCurrent
<1>. QED BY <1>3, <1>4, FilesUntouched DEF StartScan

LEMMA StartOverKeeps ==
    ASSUME ScanInv, NEW w \in Workers, StartOver(w)
    PROVE  ScanInv'
<1>1. TypeOK /\ ScansAreCurrent
  BY DEF ScanInv
<1>2. scan[w].of \in Attachments
  BY <1>1, SessionKinds DEF TypeOK, StartOver, Idle
<1>3. jobs' \in [Attachments -> Nat]
  BY <1>1, <1>2 DEF TypeOK, StartOver
<1>4. TypeOK'
  BY <1>1, <1>3 DEF TypeOK, StartOver
<1>5. ScansAreCurrent'
  BY <1>1 DEF TypeOK, ScansAreCurrent, StartOver, Idle
<1>. QED BY <1>4, <1>5, FilesUntouched DEF StartOver

LEMMA LoseJobKeeps ==
    ASSUME ScanInv, NEW a \in Attachments, LoseJob(a)
    PROVE  ScanInv'
<1>1. TypeOK'
  BY DEF ScanInv, TypeOK, LoseJob
<1>. QED BY <1>1, FilesUntouched DEF ScanInv, ScansAreCurrent, LoseJob

LEMMA AgeKeeps ==
    ASSUME ScanInv, NEW a \in Attachments, Age(a)
    PROVE  ScanInv'
<1>1. TypeOK'
  BY DEF ScanInv, TypeOK, Age
<1>. QED BY <1>1, FilesUntouched DEF ScanInv, ScansAreCurrent, Age

LEMMA LoseBytesKeeps ==
    ASSUME ScanInv, NEW a \in Attachments, LoseBytes(a)
    PROVE  ScanInv'
<1> DEFINE Lost(f) == [f EXCEPT !.readable = FALSE]
<1>1. TypeOK /\ ScansAreCurrent
  BY DEF ScanInv
<1>2. \A f \in File : /\ Lost(f) \in File
                      /\ Lost(f).status = f.status /\ Lost(f).bytes = f.bytes
                      /\ Lost(f).quarantined = f.quarantined
  BY DEF File
<1>3. \A b \in Attachments : file[b] \in File
  BY <1>1 DEF TypeOK
<1>4. file' = [file EXCEPT ![a] = Lost(file[a])]
  BY <1>1 DEF LoseBytes, TypeOK
<1>5. \A b \in Attachments : file'[b] = IF b = a THEN Lost(file[a]) ELSE file[b]
  BY <1>1, <1>4 DEF TypeOK
<1>6. file' \in [Attachments -> File]
  BY <1>1, <1>2, <1>3, <1>4 DEF TypeOK
<1> HIDE DEF Lost
<1>7. ASSUME NEW w \in Workers
      PROVE  /\ scan'[w] \in Scanning \cup Beaten \cup {Idle}
             /\ scan'[w].job = "scan" => scan'[w].read = file'[scan'[w].of]
  <2>1. scan[w] \in Scanning \cup Beaten \cup {Idle}
    BY <1>1 DEF TypeOK
  <2>2. CASE scan[w].job = "scan" /\ scan[w].of = a
    <3>1. scan'[w] = [scan[w] EXCEPT !.read = Lost(scan[w].read)]
      BY <2>2 DEF LoseBytes, Lost
    <3>2. scan[w] \in Scanning /\ scan[w].read = file[a]
      BY <2>1, <2>2, <1>1, SessionKinds DEF ScansAreCurrent
    <3>3. scan'[w] = [scan[w] EXCEPT !.read = Lost(file[a])]
      BY <3>1, <3>2
    <3>4. scan'[w] = [job |-> "scan", of |-> a, read |-> Lost(file[a])]
      BY <3>2, <3>3, <2>2 DEF Scanning
    <3>. QED BY <3>4, <1>2, <1>3, <1>5 DEF Scanning
  <2>3. CASE ~(scan[w].job = "scan" /\ scan[w].of = a)
    <3>1. scan'[w] = scan[w]
      BY <2>3 DEF LoseBytes
    <3>2. scan[w].job = "scan" => scan[w].of \in Attachments /\ scan[w].of # a
      BY <2>1, <2>3, SessionKinds DEF Idle
    <3>. QED BY <3>1, <3>2, <2>1, <1>1, <1>5 DEF ScansAreCurrent
  <2>. QED BY <2>2, <2>3
<1>8. scan' \in [Workers -> Scanning \cup Beaten \cup {Idle}]
  BY <1>7 DEF LoseBytes
<1>9. TypeOK' /\ ScansAreCurrent'
  BY <1>1, <1>6, <1>7, <1>8 DEF TypeOK, ScansAreCurrent, LoseBytes
<1>10. \A b \in Attachments : Sound(file[b], judged[b], condemned[b])'
  <2> TAKE b \in Attachments
  <2>1. Sound(file[b], judged[b], condemned[b])
    BY InvIsSound
  <2>2. /\ file'[b].status = file[b].status /\ file'[b].bytes = file[b].bytes
        /\ file'[b].quarantined = file[b].quarantined
    BY <1>2, <1>3, <1>5
  <2>. QED BY <2>1, <2>2 DEF Sound, LoseBytes
<1>. QED
  BY <1>9, <1>10
     DEF Sound, ScanInv, AbsentIsForgotten, VerdictIsAboutTheseBytes, CondemnedIsFlagged

LEMMA RemoveKeeps ==
    ASSUME ScanInv, NEW S, Remove(S)
    PROVE  ScanInv'
<1>1. TypeOK /\ ScansAreCurrent
  BY DEF ScanInv
<1>2. NoFile \in File
  BY DEF NoFile, File, Statuses
<1>3. ASSUME NEW w \in Workers
      PROVE  /\ scan'[w] \in Scanning \cup Beaten \cup {Idle}
             /\ scan'[w].job = "scan" => scan'[w].read = file'[scan'[w].of]
  <2>1. scan[w] \in Scanning \cup Beaten \cup {Idle}
    BY <1>1 DEF TypeOK
  <2>2. CASE scan[w] # Idle /\ scan[w].of \in S
    BY <2>2 DEF Remove, Idle
  <2>3. CASE ~(scan[w] # Idle /\ scan[w].of \in S)
    <3>1. scan'[w] = scan[w]
      BY <2>3 DEF Remove
    <3>2. ASSUME scan[w].job = "scan" PROVE scan[w].read = file'[scan[w].of]
      <4>1. scan[w].of \in Attachments /\ scan[w].of \notin S
        BY <3>2, <2>1, <2>3, SessionKinds DEF Idle
      <4>. QED BY <3>2, <4>1, <1>1 DEF Remove, ScansAreCurrent
    <3>. QED BY <3>1, <3>2, <2>1
  <2>. QED BY <2>2, <2>3
<1>4. scan' \in [Workers -> Scanning \cup Beaten \cup {Idle}]
  BY <1>3 DEF Remove
<1>5. TypeOK'
  BY <1>1, <1>2, <1>4 DEF Remove, TypeOK
<1>6. \A a \in Attachments : Sound(file[a], judged[a], condemned[a])'
  <2> TAKE a \in Attachments
  <2>1. Sound(file[a], judged[a], condemned[a])
    BY InvIsSound
  <2>. QED BY <2>1, <1>1 DEF Sound, Remove, NoFile, TypeOK
<1>. QED
  BY <1>3, <1>5, <1>6
     DEF Sound, ScanInv, AbsentIsForgotten, VerdictIsAboutTheseBytes, CondemnedIsFlagged,
         ScansAreCurrent

\* What a scan makes of a record: a typed record whose verdict, if there is one, is
\* about the bytes it read, and which stays blocked or was judged anew.
LEMMA Verdicts ==
    ASSUME NEW f \in File, NEW g \in ScanForMalware(f), NEW j \in Nat, NEW c \in Nat,
           Sound(f, j, c)
    PROVE  /\ g \in File
           /\ Sound(g, IF g.status \in {"clean", "infected"} THEN Datas(f) ELSE j,
                       IF g.status = "infected" THEN Datas(f) ELSE c)
<1> DEFINE v(st) == [f EXCEPT !.status = st]
<1>1. \A st \in ScanBinary :
         v(st) \in File /\ v(st).status = st /\ v(st).bytes = f.bytes
         /\ v(st).quarantined = f.quarantined
  BY DEF ScanBinary, File, Statuses
<1>2. CASE Datas(f) = 0
  <2>1. g = v("skipped")
    BY <1>2 DEF ScanForMalware, Verdict
  <2>. QED BY <2>1, <1>1 DEF Sound, ScanBinary
<1>3. CASE Datas(f) # 0
  <2>1. f.bytes # 0 /\ Datas(f) = f.bytes /\ f.bytes \in Nat
    BY <1>3 DEF Datas, File
  <2>2. CASE \E st \in ScanBinary \ {"infected"} : g = v(st)
    <3>1. PICK st \in ScanBinary \ {"infected"} : g = v(st)
      BY <2>2
    <3>. QED BY <3>1, <1>1, <2>1 DEF Sound, ScanBinary
  <2>3. CASE g \in Quarantine(v("infected"), Datas(f))
    <3>1. v("infected") \in File /\ v("infected").status = "infected"
          /\ v("infected").bytes = f.bytes
      BY <1>1 DEF ScanBinary
    <3> DEFINE i == v("infected")
    <3> HIDE DEF v
    <3>2. i \in File /\ i.status = "infected" /\ i.bytes = f.bytes
      BY <3>1 DEF i
    <3> DEFINE q == [i EXCEPT !.quarantined = TRUE, !.readable = TRUE]
    <3>3. \/ g = [q EXCEPT !.bytes = 0, !.copy = f.bytes]
          \/ g = [q EXCEPT !.bytes = 0, !.copy = 0]
          \/ g = [i EXCEPT !.quarantined = TRUE]
      BY <2>1, <2>3 DEF Quarantine, i
    <3> HIDE DEF i
    <3>4. q \in File /\ q.status = "infected" /\ q.quarantined = TRUE
      BY <3>2 DEF File
    <3> HIDE DEF q
    <3>5. CASE g = [q EXCEPT !.bytes = 0, !.copy = f.bytes]
      BY <3>4, <3>5, <2>1 DEF File, Sound
    <3>6. CASE g = [q EXCEPT !.bytes = 0, !.copy = 0]
      BY <3>4, <3>6 DEF File, Sound
    <3>7. CASE g = [i EXCEPT !.quarantined = TRUE]
      <4>1. g \in File /\ g.status = "infected" /\ g.quarantined = TRUE /\ g.bytes = f.bytes
        BY <3>2, <3>7 DEF File
      <4>. QED BY <4>1, <2>1 DEF Sound
    <3>. QED BY <3>3, <3>5, <3>6, <3>7
  <2>. QED BY <1>3, <2>2, <2>3 DEF ScanForMalware, Verdict
<1>. QED BY <1>2, <1>3

LEMMA CommitScanKeeps ==
    ASSUME ScanInv, NEW w \in Workers, CommitScan(w)
    PROVE  ScanInv'
<1> DEFINE s == scan[w]
           a == s.of
<1>1. TypeOK /\ ScansAreCurrent
  BY DEF ScanInv
<1>2. s.job = "scan" /\ s \in Scanning \cup Beaten \cup {Idle}
  BY <1>1 DEF CommitScan, TypeOK
<1>3. s # Idle /\ a \in Attachments
  BY <1>2, SessionKinds DEF Idle
<1>4. s.read = file[a]
  BY <1>1, <1>2 DEF ScansAreCurrent
<1>5. PICK f \in ScanForMalware(s.read) :
         /\ file' = [file EXCEPT ![a] = f]
         /\ judged' = IF f.status \in {"clean", "infected"}
                      THEN [judged EXCEPT ![a] = Datas(s.read)] ELSE judged
         /\ condemned' = IF f.status = "infected"
                         THEN [condemned EXCEPT ![a] = Datas(s.read)] ELSE condemned
  BY DEF CommitScan
<1> HIDE DEF s, a
<1>6. /\ f \in ScanForMalware(file[a]) /\ file[a] \in File
      /\ judged[a] \in Nat /\ condemned[a] \in Nat
      /\ Sound(file[a], judged[a], condemned[a])
  BY <1>1, <1>3, <1>4, <1>5, InvIsSound DEF TypeOK
<1>7. Datas(file[a]) \in Nat
  BY <1>6 DEF Datas, File
<1>8. /\ f \in File
      /\ Sound(f, IF f.status \in {"clean", "infected"} THEN Datas(file[a]) ELSE judged[a],
                  IF f.status = "infected" THEN Datas(file[a]) ELSE condemned[a])
  BY <1>6, Verdicts
<1>9. /\ file' \in [Attachments -> File]
      /\ judged' \in [Attachments -> Nat] /\ condemned' \in [Attachments -> Nat]
  BY <1>1, <1>3, <1>4, <1>5, <1>7, <1>8 DEF TypeOK
<1>10. scan' = [Beat({a}) EXCEPT ![w] = Idle] /\ aged' = aged \ {a}
       /\ UNCHANGED <<jobs, contents, rescans, lost>>
  BY DEF CommitScan, s, a
<1>11. scan' \in [Workers -> Scanning \cup Beaten \cup {Idle}]
  BY <1>1, <1>10, BeatScans
<1>12. TypeOK'
  BY <1>1, <1>9, <1>10, <1>11 DEF TypeOK
<1>13. ASSUME NEW v \in Workers, scan'[v].job = "scan"
       PROVE  scan'[v].read = file'[scan'[v].of]
  <2>1. v # w
    BY <1>13, <1>10, <1>11, BeatScans, <1>1 DEF Idle
  <2>2. scan'[v] = Beat({a})[v]
    BY <2>1, <1>10, <1>1, BeatScans
  <2>3. scan'[v] = scan[v] /\ scan[v].of # a
    BY <2>2, <1>13, <1>1, BeatScans
  <2>4. scan[v].of \in Attachments
    BY <2>3, <1>13, <1>1, SessionKinds DEF TypeOK, Idle
  <2>. QED BY <2>3, <2>4, <1>13, <1>1, <1>5 DEF ScansAreCurrent, TypeOK
<1>14. ASSUME NEW b \in Attachments
       PROVE  Sound(file[b], judged[b], condemned[b])'
  <2>1. Sound(file[b], judged[b], condemned[b])
    BY InvIsSound
  <2>2. CASE b = a
    BY <2>2, <1>1, <1>4, <1>5, <1>8 DEF Sound, TypeOK
  <2>3. CASE b # a
    <3>1. file'[b] = file[b] /\ judged'[b] = judged[b] /\ condemned'[b] = condemned[b]
      BY <2>3, <1>1, <1>5 DEF TypeOK
    <3>. QED BY <3>1, <2>1 DEF Sound
  <2>. QED BY <2>2, <2>3
<1>. QED
  BY <1>12, <1>13, <1>14
     DEF Sound, ScanInv, AbsentIsForgotten, VerdictIsAboutTheseBytes, CondemnedIsFlagged,
         ScansAreCurrent

-----------------------------------------------------------------------------
(* The theorems *)

LEMMA ScanInit == ASSUME Init PROVE ScanInv
<1>1. NoFile \in File /\ NoFile.status = "absent" /\ NoFile.bytes = 0
  BY DEF NoFile, File, Statuses
<1>2. TypeOK
  BY <1>1 DEF Init, TypeOK
<1>3. ScansAreCurrent
  BY DEF Init, ScansAreCurrent, Idle
<1>. QED
  BY <1>1, <1>2, <1>3
     DEF Init, ScanInv, AbsentIsForgotten, VerdictIsAboutTheseBytes, CondemnedIsFlagged

LEMMA ScanNext == ASSUME ScanInv, [Next]_vars PROVE ScanInv'
<1>1. ASSUME NEW a \in Attachments, Create(a) PROVE ScanInv'
  BY <1>1, CreateKeeps
<1>2. ASSUME NEW a \in Attachments, WriteDatas(a) PROVE ScanInv'
  BY <1>2, WriteDatasKeeps
<1>3. ASSUME NEW a \in Attachments, EmptyDatas(a) PROVE ScanInv'
  BY <1>3, EmptyDatasKeeps
<1>4. ASSUME NEW a \in Attachments, LoseBytes(a) PROVE ScanInv'
  BY <1>4, LoseBytesKeeps
<1>5. ASSUME NEW a \in Attachments, NEW w \in Workers, StartScan(w, a) PROVE ScanInv'
  BY <1>5, StartScanKeeps
<1>6. ASSUME NEW a \in Attachments, LoseJob(a) PROVE ScanInv'
  BY <1>6, LoseJobKeeps
<1>7. ASSUME NEW a \in Attachments, Rescan(a) PROVE ScanInv'
  BY <1>7, RescanKeeps
<1>8. ASSUME NEW a \in Attachments, Age(a) PROVE ScanInv'
  BY <1>8, AgeKeeps
<1>9. ASSUME NEW a \in Attachments, Restore(a) PROVE ScanInv'
  BY <1>9, RestoreKeeps
<1>10. ASSUME NEW a \in Attachments, Delete(a) PROVE ScanInv'
  BY <1>10, RemoveKeeps DEF Delete
<1>11. ASSUME NEW a \in Attachments, NEW b \in Attachments, Download(a, b) PROVE ScanInv'
  BY <1>11, DownloadKeeps
<1>12. ASSUME NEW w \in Workers, CommitScan(w) PROVE ScanInv'
  BY <1>12, CommitScanKeeps
<1>13. ASSUME NEW w \in Workers, StartOver(w) PROVE ScanInv'
  BY <1>13, StartOverKeeps
<1>14. CASE Sweep
  BY <1>14, SweepKeeps
<1>15. CASE Purge
  BY <1>15, PurgeKeeps
<1>16. CASE Cleanup
  BY <1>16, RemoveKeeps DEF Cleanup
<1>17. CASE UNCHANGED vars
  BY <1>17
     DEF vars, ScanInv, TypeOK, ScansAreCurrent, AbsentIsForgotten,
         VerdictIsAboutTheseBytes, CondemnedIsFlagged
<1>. QED
  BY <1>1, <1>2, <1>3, <1>4, <1>5, <1>6, <1>7, <1>8, <1>9, <1>10, <1>11, <1>12,
     <1>13, <1>14, <1>15, <1>16, <1>17 DEF Next

\* The inductive invariant holds in every reachable state.
THEOREM ScanInvariance == Spec => []ScanInv
BY ScanInit, ScanNext, PTL DEF Spec

\* Every reachable state is well typed.
THEOREM ScanTypeCorrect == Spec => []TypeOK
<1>1. ScanInv => TypeOK
  BY DEF ScanInv
<1>. QED BY <1>1, ScanInvariance, PTL

\* No scan leaves its verdict on bytes that came after those it read, however many
\* workers scan, sweeps queue and users write at once.
THEOREM VerdictsAreCurrent == Spec => []VerdictIsAboutTheseBytes
<1>1. ScanInv => VerdictIsAboutTheseBytes
  BY DEF ScanInv
<1>. QED BY <1>1, ScanInvariance, PTL

\* No read that names datas returns infected bytes until they are restored.
THEOREM CondemnedStaysBlocked == Spec => []CondemnedIsBlocked
<1>1. ASSUME ScanInv PROVE CondemnedIsBlocked
  <2> SUFFICES ASSUME NEW a \in Attachments, condemned[a] # 0,
                      Read(file[a], TRUE) = condemned[a]
               PROVE  FALSE
    BY DEF CondemnedIsBlocked
  <2>1. Datas(file[a]) = condemned[a] /\ ~file[a].quarantined
    BY DEF Read
  <2>2. file[a].bytes = condemned[a]
    BY <2>1 DEF Datas
  <2>. QED BY <1>1, <2>1, <2>2 DEF ScanInv, CondemnedIsFlagged
<1>. QED BY <1>1, ScanInvariance, PTL

-----------------------------------------------------------------------------
(* What the sweep reaches *)

Loose(f) == f.status = "pending" => f.quarantined = FALSE

\* Nothing that waits for a verdict is in quarantine, where the sweep leaves it.
PendingIsLoose == \A a \in Attachments : Loose(file[a])

\* The sweep takes every file that waits for long enough and has attempts left.
SweepReachesWaiting ==
    \A a \in Attachments :
        Waiting(a) /\ a \in aged /\ file[a].attempts < MaxAttempts => Stranded(a)

LEMMA UpdateLoose ==
    ASSUME PendingIsLoose, NEW new,
           \A a \in DOMAIN new \cap Attachments : Loose(new[a]), Update(new)
    PROVE  PendingIsLoose'
BY DEF PendingIsLoose, Update

LEMMA WriteLoose ==
    ASSUME PendingIsLoose, NEW a \in Attachments, NEW f, Loose(f), Write(a, f)
    PROVE  PendingIsLoose'
<1> DEFINE new == [b \in {a} |-> f]
<1>1. Update(new) /\ \A b \in DOMAIN new \cap Attachments : Loose(new[b])
  BY DEF Write
<1> HIDE DEF new
<1>. QED BY <1>1, UpdateLoose

LEMMA RemoveLoose ==
    ASSUME PendingIsLoose, NEW S, Remove(S)
    PROVE  PendingIsLoose'
BY DEF PendingIsLoose, Remove, NoFile, Loose

\* The writes of the handlers leave what is pending loose.
LEMMA HandlersLoose ==
    ASSUME ScanInv, PendingIsLoose, NEW a \in Attachments, NEW b \in Attachments,
           \/ Create(a) \/ WriteDatas(a) \/ EmptyDatas(a) \/ Rescan(a) \/ Restore(a)
           \/ Download(a, b)
    PROVE  PendingIsLoose'
<1>1. file[a] \in File /\ Loose(file[a])
  BY DEF ScanInv, TypeOK, PendingIsLoose
<1>2. CASE Create(a)
  <2> DEFINE f(owned) == [NoFile EXCEPT !.status = "pending", !.bytes = NewContent,
                                        !.owned = owned]
  <2>1. PICK owned \in BOOLEAN : Write(a, f(owned))
    BY <1>2 DEF Create
  <2>2. Loose(f(owned))
    BY DEF NoFile, Loose
  <2> HIDE DEF f
  <2>. QED BY <2>1, <2>2, WriteLoose
<1>3. CASE WriteDatas(a)
  <2> DEFINE f == [Rearmed(file[a]) EXCEPT !.bytes = NewContent, !.readable = TRUE]
  <2>1. Write(a, f) /\ Loose(f)
    BY <1>1, <1>3 DEF WriteDatas, Rearmed, File, Loose
  <2> HIDE DEF f
  <2>. QED BY <2>1, WriteLoose
<1>4. CASE EmptyDatas(a)
  <2> DEFINE f == [file[a] EXCEPT !.bytes = 0, !.readable = TRUE]
  <2>1. Write(a, f) /\ Loose(f)
    BY <1>1, <1>4 DEF EmptyDatas, File, Loose
  <2> HIDE DEF f
  <2>. QED BY <2>1, WriteLoose
<1>5. CASE Rescan(a)
  <2> DEFINE f == [file[a] EXCEPT !.status = "pending", !.attempts = 0]
  <2>1. Write(a, f) /\ Loose(f)
    BY <1>1, <1>5 DEF Rescan, File, Loose
  <2> HIDE DEF f
  <2>. QED BY <2>1, WriteLoose
<1>6. CASE Restore(a)
  <2> DEFINE f == [file[a] EXCEPT !.bytes = file[a].copy, !.readable = TRUE, !.copy = 0,
                                  !.quarantined = FALSE, !.status = "clean"]
  <2>1. Write(a, f) /\ Loose(f)
    BY <1>1, <1>6 DEF Restore, File, Loose
  <2> HIDE DEF f
  <2>. QED BY <2>1, WriteLoose
<1>7. CASE Download(a, b)
  <2> DEFINE f == [NoFile EXCEPT !.status = "skipped", !.bytes = file[a].copy,
                                 !.forensic = TRUE, !.owned = TRUE]
  <2>1. Write(b, f) /\ Loose(f)
    BY <1>7 DEF Download, NoFile, Loose
  <2> HIDE DEF f
  <2>. QED BY <2>1, WriteLoose
<1>. QED BY <1>2, <1>3, <1>4, <1>5, <1>6, <1>7

LEMMA CommitScanLoose ==
    ASSUME ScanInv, PendingIsLoose, NEW w \in Workers, CommitScan(w)
    PROVE  PendingIsLoose'
<1>1. TypeOK /\ scan[w] \in Scanning \cup Beaten \cup {Idle} /\ scan[w].job = "scan"
  BY DEF ScanInv, TypeOK, CommitScan
<1>2. scan[w].read \in File /\ scan[w].of \in Attachments
  BY <1>1, SessionKinds DEF Idle
<1>3. PICK f \in ScanForMalware(scan[w].read) : file' = [file EXCEPT ![scan[w].of] = f]
  BY DEF CommitScan
<1>4. f.status \in {"skipped", "clean", "error", "infected"}
  BY <1>2, <1>3 DEF ScanForMalware, ScanBinary, Verdict, Quarantine, File
<1>5. Loose(f)
  BY <1>4 DEF Loose
<1>. QED BY <1>1, <1>2, <1>3, <1>5 DEF PendingIsLoose, TypeOK

LEMMA LooseNext == ASSUME ScanInv, PendingIsLoose, [Next]_vars PROVE PendingIsLoose'
<1>1. ASSUME NEW a \in Attachments,
             \/ Create(a) \/ WriteDatas(a) \/ EmptyDatas(a) \/ Rescan(a) \/ Restore(a)
             \/ \E b \in Attachments : Download(a, b)
      PROVE  PendingIsLoose'
  BY <1>1, HandlersLoose
<1>2. ASSUME NEW a \in Attachments, LoseBytes(a) PROVE PendingIsLoose'
  BY <1>2 DEF LoseBytes, PendingIsLoose, Loose, ScanInv, TypeOK, File
<1>3. ASSUME NEW a \in Attachments,
             LoseJob(a) \/ Age(a) \/ \E w \in Workers : StartScan(w, a)
      PROVE  PendingIsLoose'
  BY <1>3 DEF StartScan, LoseJob, Age, PendingIsLoose
<1>4. ASSUME NEW w \in Workers, CommitScan(w) PROVE PendingIsLoose'
  BY <1>4, CommitScanLoose
<1>5. ASSUME NEW a \in Attachments, Delete(a) PROVE PendingIsLoose'
  BY <1>5, RemoveLoose DEF Delete
<1>6. CASE Cleanup
  BY <1>6, RemoveLoose DEF Cleanup
<1>7. CASE Sweep
  <2> DEFINE new == [a \in Batch |-> [file[a] EXCEPT !.attempts = @ + 1]]
  <2>1. Update(new)
    BY <1>7 DEF Sweep
  <2>2. \A a \in DOMAIN new \cap Attachments : Loose(new[a])
    BY DEF ScanInv, TypeOK, File, PendingIsLoose, Loose
  <2> HIDE DEF new
  <2>. QED BY <2>1, <2>2, UpdateLoose
<1>8. CASE Purge
  <2>1. PICK S \in SUBSET Attachments :
           Update([a \in S |-> [file[a] EXCEPT !.copy = 0]])
    BY <1>8 DEF Purge
  <2> DEFINE new == [a \in S |-> [file[a] EXCEPT !.copy = 0]]
  <2>2. \A a \in DOMAIN new \cap Attachments : Loose(new[a])
    BY DEF ScanInv, TypeOK, File, PendingIsLoose, Loose
  <2>3. Update(new)
    BY <2>1
  <2> HIDE DEF new
  <2>. QED BY <2>2, <2>3, UpdateLoose
<1>9. CASE UNCHANGED vars
  BY <1>9 DEF vars, PendingIsLoose
<1>10. ASSUME NEW w \in Workers, StartOver(w) PROVE PendingIsLoose'
  BY <1>10 DEF StartOver, PendingIsLoose
<1>. QED
  BY <1>1, <1>2, <1>3, <1>4, <1>5, <1>6, <1>7, <1>8, <1>9, <1>10 DEF Next

\* What waits is never passed over by the sweep: whatever is restored, scanned
\* again, quarantined or uploaded meanwhile, a readable file that is still pending
\* after the delay is one of those _cron_sweep_pending_scans selects.
THEOREM WaitingIsSwept == Spec => []SweepReachesWaiting
<1>1. Init => PendingIsLoose
  BY DEF Init, NoFile, PendingIsLoose, Loose
<1>2. PendingIsLoose => SweepReachesWaiting
  BY DEF PendingIsLoose, Loose, SweepReachesWaiting, Waiting, Stranded, Datas
<1>. QED BY <1>1, <1>2, ScanInvariance, LooseNext, PTL DEF Spec

=============================================================================
