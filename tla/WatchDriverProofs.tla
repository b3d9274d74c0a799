--------------------------- MODULE WatchDriverProofs ---------------------------
(***************************************************************************)
(* Proofs about the watch driver, for every set of paths and versions, any *)
(* queue.txt, any size of the candidate table and of the ring, and any     *)
(* stability wait; and about its history, for a behaviour of any length:   *)
(* the ring is the window of the most recent jobs, so no archive is        *)
(* extracted again before it has aged out, and every job goes where the    *)
(* first line of queue.txt that names its archive says.                    *)
(***************************************************************************)
EXTENDS JobLog, StatusRingProofs, Induction

-------------------------------------------------------------------------------
(* The inductive invariant. *)

DriverTyped ==
  /\ fs \in [Path -> Stamp \cup {Absent}]
  /\ newest \in [Path -> Stamp \cup {Absent}]
  /\ quiet \in [Path -> 0..Wait]
  /\ cand \in [Path -> Candidate \cup {NoCandidate}]
  /\ pc \in {"down", "queue", "watch", "sleep", "extract", "running",
             "finished", "record", "flush"}
  /\ unread \subseteq Asked
  /\ todo \subseteq Watched
  /\ job \in Key \cup {NoJob}
  /\ job_dest \in {OwnDir} \cup {Lines[i].dest : i \in Asked}
  /\ opened \in Stamp \cup {Absent}
  /\ outcome \in Result
  /\ crashes \in 0..MaxCrashes
  /\ faults \in 0..MaxFaults

(* The driver is in a rewrite of queue.status when it says so, and it has  *)
(* a job from the scan that found one to the end of that rewrite.          *)
ControlOK ==
  /\ pc = "down" <=> phase = "down"
  /\ pc = "flush" <=> phase \in {"write", "rename"}
  /\ pc \in {"extract", "running", "finished", "record", "flush"} <=> job # NoJob

(* What the table says of a file that is still the one it saw: that it has *)
(* been so for at least the time counted, and, once it was looked into     *)
(* and could be read, what it is.                                          *)
Tells(p, c) == /\ c.age <= quiet[p]
               /\ \/ c.is_archive \in {"unsniffed", "unread"}
                  \/ c.is_archive = "yes" <=> KeyOf(p, fs[p]) \in Archive

(* A path never returns to a version it has left, so whatever the table    *)
(* holds of another version can never come to be of the current one.       *)
RowOK(p) == /\ fs[p] <= newest[p]
            /\ cand[p] # NoCandidate => cand[p].stamp <= newest[p]
            /\ cand[p] # NoCandidate /\ cand[p].stamp = fs[p] => Tells(p, cand[p])

TableOK == \A p \in Path : RowOK(p)

(* While a job runs, and until what it has extracted is unlinked: the file *)
(* at its path is the version that was opened, or gone, or a newer one     *)
(* that the user put there since; and what extracted is an archive.        *)
Holds == pc = "running" \/ (pc = "finished" /\ outcome = ok)
OpenedOK ==
  Holds => /\ opened \in Stamp /\ opened <= newest[job.path]
           /\ fs[job.path] = Absent \/ opened <= fs[job.path]
           /\ pc = "finished" => KeyOf(job.path, opened) \in Archive
           /\ ~TouchesJobs => opened = fs[job.path]

DriverInv == /\ RingInv
             /\ DriverTyped
             /\ ControlOK
             /\ TableOK
             /\ OpenedOK

-------------------------------------------------------------------------------
(* Constants and records. *)

(* What the assumptions on the constants come to. *)
LEMMA DriverConstants ==
  /\ Wait \in Nat /\ Absent \notin Stamp /\ Stamp \subseteq Nat /\ Absent \in Nat
  /\ Watched \subseteq Path /\ NoJob \notin Key /\ NoCandidate \notin Candidate
  /\ \A i \in Asked : Ask(i) \in Path
  /\ failed \in Result /\ Result \subseteq {ok, failed} /\ ok # failed
<1>1. NoJob \notin Key
  BY DEF NoJob, Key
<1>2. NoCandidate \notin Candidate
  BY DEF NoCandidate, Candidate
<1>3. \A i \in Asked : Ask(i) \in Path
  BY DEF Asked, Ask
<1>. QED
  BY <1>1, <1>2, <1>3, DriverAssumption DEF Wait, Absent

(* A key names its path and its version. *)
LEMMA KeyFields ==
  ASSUME NEW p \in Path, NEW s \in Stamp
  PROVE  KeyOf(p, s) \in Key /\ KeyOf(p, s).path = p /\ KeyOf(p, s).stamp = s
BY DEF KeyOf, Key

(* The fields of a candidate, and what it is after each of its updates:    *)
(* marked as touched or not, grown older, looked into.                     *)
LEMMA CandidateFields ==
  ASSUME NEW c \in Candidate
  PROVE  /\ c.stamp \in Stamp /\ c.stamp \in Nat /\ c.stamp # Absent
         /\ c.age \in 0..Wait /\ c.is_archive \in {"unsniffed", "yes", "no", "unread"}
         /\ c # NoCandidate
BY DriverConstants DEF Candidate

(* d is the candidate c, with or without the mark. *)
SameButTouched(d, c) ==
  d \in Candidate /\ d.stamp = c.stamp /\ d.age = c.age /\ d.is_archive = c.is_archive

(* The mark of the scan changes nothing else of a candidate. *)
LEMMA MarkedCandidate ==
  ASSUME NEW c \in Candidate
  PROVE  /\ SameButTouched([c EXCEPT !.touched = TRUE], c)
         /\ SameButTouched([c EXCEPT !.touched = FALSE], c)
BY DEF Candidate, SameButTouched

(* Nor does its age. *)
LEMMA AgedCandidate ==
  ASSUME NEW c \in Candidate, NEW n \in 0..Wait
  PROVE  /\ [c EXCEPT !.age = n] \in Candidate /\ [c EXCEPT !.age = n].stamp = c.stamp
         /\ [c EXCEPT !.age = n].age = n /\ [c EXCEPT !.age = n].is_archive = c.is_archive
BY DEF Candidate

(* Nor does the verdict on its content. *)
LEMMA JudgedCandidate ==
  ASSUME NEW c \in Candidate, NEW v \in {"yes", "no", "unread"}
  PROVE  /\ [c EXCEPT !.is_archive = v] \in Candidate
         /\ [c EXCEPT !.is_archive = v].stamp = c.stamp
         /\ [c EXCEPT !.is_archive = v].age = c.age
         /\ [c EXCEPT !.is_archive = v].is_archive = v
BY DEF Candidate

(* Ages saturate together, and keep their order. *)
LEMMA OlderFacts ==
  ASSUME NEW m \in 0..Wait, NEW n \in 0..Wait
  PROVE  Older(m) \in 0..Wait /\ (m <= n => Older(m) <= Older(n))
BY DriverConstants DEF Older

-------------------------------------------------------------------------------
(* The table and the files. *)

(* What may happen to the file at p between two states: nothing, it goes,  *)
(* or it becomes a version that this path has never had.                   *)
Forward(p) ==
  \/ fs'[p] = fs[p] /\ quiet'[p] = quiet[p] /\ newest'[p] = newest[p]
  \/ fs'[p] = Absent /\ newest'[p] = newest[p]
  \/ fs'[p] \in Stamp /\ fs'[p] > newest[p] /\ newest'[p] = fs'[p]

(* A candidate that is at most forgotten or marked stays right about its   *)
(* file, whatever becomes of the file.                                     *)
LEMMA ForwardKeepsRow ==
  ASSUME DriverTyped, NEW p \in Path, RowOK(p), Forward(p),
         cand'[p] # NoCandidate =>
           /\ cand[p] # NoCandidate /\ cand'[p].stamp = cand[p].stamp
           /\ cand'[p].age = cand[p].age /\ cand'[p].is_archive = cand[p].is_archive
  PROVE  RowOK(p)'
<1>1. fs[p] \in Nat /\ newest[p] \in Nat
  BY DriverConstants DEF DriverTyped
<1>2. cand[p] # NoCandidate => cand[p] \in Candidate /\ cand[p].stamp \in Nat /\ cand[p].stamp # Absent
  <2>1. cand[p] # NoCandidate => cand[p] \in Candidate
    BY DEF DriverTyped
  <2>. QED
    BY <2>1, CandidateFields
<1>3. Absent = 0
  BY DEF Absent
<1>4. CASE fs'[p] = fs[p] /\ quiet'[p] = quiet[p] /\ newest'[p] = newest[p]
  BY <1>4 DEF RowOK, Tells
<1>5. CASE fs'[p] = Absent /\ newest'[p] = newest[p]
  BY <1>1, <1>2, <1>3, <1>5 DEF RowOK
<1>6. CASE fs'[p] \in Stamp /\ fs'[p] > newest[p] /\ newest'[p] = fs'[p]
  <2>1. fs'[p] \in Nat
    BY <1>6, DriverConstants
  <2>. QED
    BY <1>1, <1>2, <1>6, <2>1 DEF RowOK
<1>. QED
  BY <1>4, <1>5, <1>6 DEF Forward

(* The user's part in a look moves the one file forward. *)
LEMMA LookMovesForward ==
  ASSUME DriverTyped, TableOK, NEW p \in Path, NEW s \in ByThen(p), Becomes(p, s)
  PROVE  /\ \A q \in Path : Forward(q)
         /\ fs'[p] = s
         /\ s = fs[p] => fs' = fs /\ newest' = newest /\ quiet' = quiet
         /\ fs' \in [Path -> Stamp \cup {Absent}]
         /\ newest' \in [Path -> Stamp \cup {Absent}]
         /\ quiet' \in [Path -> 0..Wait]
<1>1. /\ fs \in [Path -> Stamp \cup {Absent}] /\ newest \in [Path -> Stamp \cup {Absent}]
      /\ quiet \in [Path -> 0..Wait] /\ 0 \in 0..Wait
      /\ fs[p] \in Nat /\ newest[p] \in Nat /\ fs[p] <= newest[p]
  <2>1. /\ fs \in [Path -> Stamp \cup {Absent}] /\ newest \in [Path -> Stamp \cup {Absent}]
        /\ quiet \in [Path -> 0..Wait]
    BY DEF DriverTyped
  <2>2. fs[p] <= newest[p]
    BY DEF TableOK, RowOK
  <2>3. /\ fs[p] \in Stamp \cup {Absent} /\ newest[p] \in Stamp \cup {Absent}
        /\ Stamp \cup {Absent} \subseteq Nat /\ Wait \in Nat
    BY <2>1, DriverConstants
  <2>. QED
    BY <2>1, <2>2, <2>3
<1>2. s \in Stamp \cup {Absent} /\ (s = fs[p] \/ s = Absent \/ (s \in Stamp /\ s > newest[p]))
  BY <1>1 DEF ByThen
<1>3. s \in Nat /\ Absent = 0
  BY <1>2, DriverConstants DEF Absent
<1>4. /\ fs' = [fs EXCEPT ![p] = s]
      /\ newest' = [newest EXCEPT ![p] = IF s > newest[p] THEN s ELSE newest[p]]
      /\ quiet' = [quiet EXCEPT ![p] = IF s = fs[p] THEN quiet[p] ELSE 0]
  BY DEF Becomes
<1>5. fs' \in [Path -> Stamp \cup {Absent}] /\ newest' \in [Path -> Stamp \cup {Absent}]
  BY <1>1, <1>2, <1>4
<1>6. quiet' \in [Path -> 0..Wait]
  BY <1>1, <1>4
<1>7. s = fs[p] => fs' = fs /\ newest' = newest /\ quiet' = quiet
  BY <1>1, <1>4
<1>8. fs'[p] = s /\ newest'[p] = IF s > newest[p] THEN s ELSE newest[p]
  BY <1>1, <1>4
<1>9. Forward(p)
  BY <1>1, <1>2, <1>3, <1>7, <1>8 DEF Forward
<1>10. \A q \in Path : q # p => Forward(q)
  BY <1>1, <1>4 DEF Forward
<1>. QED
  BY <1>5, <1>6, <1>7, <1>8, <1>9, <1>10

(* The row of a file that was looked at: it has the stamp that lstat told, *)
(* and tells the truth of that version if it is still the one on the disk. *)
LEMMA LookedAtRow ==
  ASSUME DriverTyped, TableOK, NEW p \in Path, NEW s \in ByThen(p), NEW v, Look(p, s, v),
         fs[p] # Absent
  PROVE  /\ Sniffed(p, v) \in Candidate
         /\ Sniffed(p, v).stamp = fs[p]
         /\ fs[p] <= newest'[p]
         /\ Sniffed(p, v).age <= quiet[p]
         /\ s = fs[p] => \/ Sniffed(p, v).is_archive \in {"unsniffed", "unread"}
                         \/ Sniffed(p, v).is_archive = "yes" <=> KeyOf(p, fs[p]) \in Archive
<1>0. /\ Becomes(p, s) /\ v \in {"yes", "no", "unread"}
      /\ v = "unread" \/ (v = "yes" <=> KeyOf(p, s) \in Archive)
  BY DEF Look, Verdict
<1>1. /\ fs[p] \in Stamp /\ fs[p] \in Nat /\ newest[p] \in Nat /\ fs[p] <= newest[p]
      /\ quiet[p] \in 0..Wait /\ newest'[p] \in Nat
      /\ cand[p] \in Candidate \cup {NoCandidate} /\ NoCandidate.stamp = Absent
  BY <1>0, DriverConstants, LookMovesForward DEF DriverTyped, TableOK, RowOK, NoCandidate
<1>2. fs[p] <= newest'[p]
  BY <1>0, <1>1, DriverConstants DEF Becomes, DriverTyped
<1>. DEFINE c == Compared(p)
<1>3. /\ c \in Candidate /\ c.stamp = fs[p] /\ c.age <= quiet[p]
      /\ \/ c.is_archive \in {"unsniffed", "unread"}
         \/ (c.is_archive = "yes" <=> KeyOf(p, fs[p]) \in Archive)
  <2>1. CASE cand[p].stamp = fs[p]
    <3>1. cand[p] \in Candidate /\ Tells(p, cand[p])
      BY <1>1, <2>1, DriverConstants DEF TableOK, RowOK
    <3>2. c = [cand[p] EXCEPT !.touched = TRUE]
      BY <2>1 DEF Compared
    <3>. HIDE DEF c
    <3>. QED
      BY <2>1, <3>1, <3>2, MarkedCandidate DEF SameButTouched, Tells
  <2>2. CASE cand[p].stamp # fs[p]
    BY <1>1, <2>2, DriverConstants DEF Compared, Candidate
  <2>. QED
    BY <2>1, <2>2
<1>. HIDE DEF c
<1>4. CASE SniffDue(p)
  <2>1. Sniffed(p, v) = [c EXCEPT !.is_archive = v]
    BY <1>4 DEF Sniffed, c
  <2>2. /\ Sniffed(p, v) \in Candidate /\ Sniffed(p, v).stamp = c.stamp
        /\ Sniffed(p, v).age = c.age /\ Sniffed(p, v).is_archive = v
    <3>1. c \in Candidate
      BY <1>3
    <3>3. /\ [c EXCEPT !.is_archive = v] \in Candidate
          /\ [c EXCEPT !.is_archive = v].stamp = c.stamp
          /\ [c EXCEPT !.is_archive = v].age = c.age
          /\ [c EXCEPT !.is_archive = v].is_archive = v
      BY <1>0, <3>1, JudgedCandidate
    <3>. QED
      BY <2>1, <3>3
  <2>. QED
    BY <1>0, <1>2, <1>3, <2>2
<1>5. CASE ~SniffDue(p)
  BY <1>2, <1>3, <1>5 DEF Sniffed, c
<1>. QED
  BY <1>4, <1>5

(* A look at a file keeps the table right, whether the scan goes on from   *)
(* there (the candidate is marked as touched) or ends (observe, scan_dir,  *)
(* cand_sweep).                                                            *)
LEMMA LookKeepsTable ==
  ASSUME DriverTyped, TableOK, NEW p \in Path, NEW s \in ByThen(p), NEW v, Look(p, s, v),
         cand' = TableAfter(p, v) \/ cand' = Swept(TableAfter(p, v))
  PROVE  TableOK' /\ cand' \in [Path -> Candidate \cup {NoCandidate}]
<1>. DEFINE table == TableAfter(p, v)
<1>1. /\ fs[p] \in Stamp \cup {Absent}
      /\ cand \in [Path -> Candidate \cup {NoCandidate}]
  BY DEF DriverTyped
<1>2. /\ table \in [Path -> Candidate \cup {NoCandidate}]
      /\ \A q \in Path : q # p => table[q] = cand[q]
      /\ table[p] = cand[p] \/ (fs[p] # Absent /\ table[p] = Sniffed(p, v))
  BY <1>1, LookedAtRow DEF TableAfter
<1>. HIDE DEF table
<1>3. /\ cand' \in [Path -> Candidate \cup {NoCandidate}]
      /\ \A q \in Path : cand'[q] # NoCandidate =>
            /\ table[q] # NoCandidate /\ cand'[q].stamp = table[q].stamp
            /\ cand'[q].age = table[q].age /\ cand'[q].is_archive = table[q].is_archive
  <2>1. CASE cand' = table
    BY <1>2, <2>1
  <2>2. CASE cand' = Swept(table)
    <3>1. \A q \in Path :
            \/ cand'[q] = NoCandidate
            \/ table[q] \in Candidate /\ cand'[q] = [table[q] EXCEPT !.touched = FALSE]
      BY <1>2, <2>2 DEF Swept
    <3>2. \A q \in Path : cand'[q] # NoCandidate => SameButTouched(cand'[q], table[q])
      BY <3>1, MarkedCandidate
    <3>3. \A q \in Path : cand'[q] # NoCandidate => table[q] # NoCandidate
      BY <3>1, CandidateFields
    <3>4. cand' = [q \in Path |-> cand'[q]]
      BY <2>2 DEF Swept
    <3>. QED
      BY <3>2, <3>3, <3>4 DEF SameButTouched
  <2>. QED
    BY <2>1, <2>2 DEF table
<1>4. ASSUME NEW q \in Path PROVE RowOK(q)'
  <2>1. RowOK(q) /\ Forward(q)
    BY LookMovesForward DEF TableOK, Look
  <2>2. CASE table[q] = cand[q]
    BY <1>3, <2>1, <2>2, ForwardKeepsRow
  <2>3. CASE q = p /\ fs[p] # Absent /\ table[p] = Sniffed(p, v)
    <3>1. /\ Sniffed(p, v).stamp = fs[p] /\ fs[p] <= newest'[p] /\ Sniffed(p, v).age <= quiet[p]
          /\ s = fs[p] => \/ Sniffed(p, v).is_archive \in {"unsniffed", "unread"}
                          \/ Sniffed(p, v).is_archive = "yes" <=> KeyOf(p, fs[p]) \in Archive
      BY <2>3, LookedAtRow
    <3>2. fs'[p] = s /\ (s = fs[p] => quiet' = quiet)
      BY LookMovesForward DEF Look
    <3>3. fs'[p] <= newest'[p]
      <4>1. fs[p] \in Nat /\ newest[p] \in Nat /\ fs[p] <= newest[p] /\ newest'[p] \in Nat
        BY <1>1, DriverConstants, LookMovesForward DEF DriverTyped, TableOK, RowOK, Look
      <4>2. Absent = 0
        BY DEF Absent
      <4>. QED
        BY <2>1, <2>3, <3>1, <4>1, <4>2 DEF Forward
    <3>. QED
      BY <1>3, <2>3, <3>1, <3>2, <3>3 DEF RowOK, Tells
  <2>. QED
    BY <1>2, <2>2, <2>3
<1>. QED
  BY <1>3, <1>4 DEF TableOK

-------------------------------------------------------------------------------
(* The steps, one lemma for each or for those that keep the invariant for  *)
(* the same reason.                                                        *)

(* Whatever the driver does with queue.status is one of the calls that the *)
(* ring is proved for, or none.                                            *)
LEMMA DriverKeepsRing ==
  ASSUME DriverInv, [DriverNext]_driverVars
  PROVE  RingInv'
<1>1. RecordJob => \E k \in Key, r \in Result : Record(k, r)
  <2>. SUFFICES ASSUME RecordJob PROVE job \in Key /\ outcome \in Result /\ Record(job, outcome)
    OBVIOUS
  <2>. QED
    BY DEF RecordJob, DriverInv, DriverTyped, ControlOK
<1>2. [StatusNext]_statusVars
  BY <1>1
  DEF DriverNext, driverVars, Launch, Running, WakeUp, Scan, RunJob, User, Upload, RemoveFile, Second,
      Crash, ScanLine, OverlookLines, OpenWatchPaths, ScanFile, OverlookFiles, NothingReady,
      OpenArchive, EndExtraction, Delete, KeepArchive, FlushStep, StatusNext
<1>. QED
  BY <1>2, NextPreservesRingInv DEF DriverInv

(* What there is of a job, while there is one. *)
LEMMA JobFacts ==
  ASSUME DriverInv
  PROVE  /\ pc \in {"extract", "running", "finished", "record", "flush"}
              => job # NoJob /\ job \in Key /\ job.path \in Path /\ job.stamp \in Stamp
         /\ pc \in {"down", "queue", "watch", "sleep"} => job = NoJob
<1>1. job # NoJob => job \in Key /\ job.path \in Path /\ job.stamp \in Stamp
  BY DEF DriverInv, DriverTyped, Key
<1>. QED
  BY <1>1 DEF DriverInv, ControlOK

(* Uploads and removals, also while the driver is down or has a job. *)
LEMMA UserKeepsInvariant ==
  ASSUME DriverInv, RingInv', User
  PROVE  DriverInv'
<1>1. PICK p \in Path : Upload(p) \/ RemoveFile(p)
  BY DEF User
<1>2. /\ UNCHANGED <<scanVars, jobVars, pc, counts, statusVars>> /\ MayChange(p)
      /\ quiet' = [quiet EXCEPT ![p] = 0]
      /\ \/ fs' = [fs EXCEPT ![p] = Absent] /\ newest' = newest
         \/ \E s \in Stamp : /\ s > newest[p]
                             /\ fs' = [fs EXCEPT ![p] = s]
                             /\ newest' = [newest EXCEPT ![p] = s]
  BY <1>1 DEF Upload, RemoveFile
<1>3. cand' = cand /\ unread' = unread /\ todo' = todo /\ job' = job /\ job_dest' = job_dest
      /\ opened' = opened /\ outcome' = outcome /\ pc' = pc /\ phase' = phase
      /\ crashes' = crashes /\ faults' = faults
  BY <1>2 DEF scanVars, jobVars, counts, statusVars
<1>4. /\ fs' \in [Path -> Stamp \cup {Absent}] /\ newest' \in [Path -> Stamp \cup {Absent}]
      /\ quiet' \in [Path -> 0..Wait]
  BY <1>2, DriverConstants DEF DriverInv, DriverTyped
<1>5. DriverTyped' /\ ControlOK'
  BY <1>3, <1>4 DEF DriverInv, DriverTyped, ControlOK
<1>6. \A q \in Path : Forward(q)
  BY <1>2 DEF Forward, DriverInv, DriverTyped
<1>7. TableOK'
  BY <1>3, <1>6, ForwardKeepsRow DEF DriverInv, TableOK
<1>8. OpenedOK'
  <2>1. CASE ~Holds
    BY <1>3, <2>1 DEF OpenedOK, Holds
  <2>2. CASE Holds
    <3>1. /\ job.path \in Path /\ job # NoJob /\ opened \in Stamp /\ opened <= newest[job.path]
          /\ fs[job.path] = Absent \/ opened <= fs[job.path]
          /\ pc = "finished" => KeyOf(job.path, opened) \in Archive
          /\ ~TouchesJobs => opened = fs[job.path]
      BY <2>2, JobFacts DEF DriverInv, OpenedOK, Holds
    <3>2. /\ opened \in Nat /\ newest[job.path] \in Nat /\ fs[job.path] \in Nat
          /\ fs'[job.path] \in Nat /\ newest'[job.path] \in Nat
      BY <1>4, <3>1, DriverConstants DEF DriverInv, DriverTyped
    <3>3. Forward(job.path)
      BY <1>6, <3>1
    <3>4. opened <= newest'[job.path] /\ (fs'[job.path] = Absent \/ opened <= fs'[job.path])
      BY <3>1, <3>2, <3>3 DEF Forward
    <3>5. ASSUME ~TouchesJobs PROVE opened = fs'[job.path]
      <4>1. job.path # p
        BY <1>2, <3>1, <3>5 DEF MayChange
      <4>2. fs'[job.path] = fs[job.path]
        BY <1>2, <3>1, <4>1 DEF DriverInv, DriverTyped
      <4>. QED
        BY <3>1, <3>5, <4>2
    <3>. QED
      BY <1>3, <3>1, <3>4, <3>5 DEF OpenedOK
  <2>. QED
    BY <2>1, <2>2
<1>. QED
  BY <1>5, <1>7, <1>8 DEF DriverInv

(* A second passes for the files and for the table. *)
LEMMA SecondKeepsInvariant ==
  ASSUME DriverInv, RingInv', Second
  PROVE  DriverInv'
<1>1. /\ fs' = fs /\ newest' = newest /\ unread' = unread /\ todo' = todo /\ job' = job
      /\ job_dest' = job_dest /\ opened' = opened /\ outcome' = outcome /\ pc' = pc
      /\ crashes' = crashes /\ faults' = faults /\ phase' = phase
      /\ quiet' = [p \in Path |-> Older(quiet[p])]
      /\ cand' = [p \in Path |-> IF cand[p] = NoCandidate THEN NoCandidate
                                 ELSE [cand[p] EXCEPT !.age = Older(cand[p].age)]]
  BY DEF Second, jobVars, counts, statusVars
<1>2. ASSUME NEW p \in Path
      PROVE  /\ quiet'[p] \in 0..Wait /\ cand'[p] \in Candidate \cup {NoCandidate}
             /\ RowOK(p)'
  <2>1. /\ quiet[p] \in 0..Wait /\ quiet'[p] = Older(quiet[p]) /\ RowOK(p)
        /\ cand[p] \in Candidate \cup {NoCandidate}
    BY <1>1 DEF DriverInv, DriverTyped, TableOK
  <2>2. quiet'[p] \in 0..Wait
    BY <2>1, OlderFacts
  <2>3. CASE cand[p] = NoCandidate
    BY <1>1, <2>1, <2>2, <2>3 DEF RowOK
  <2>4. CASE cand[p] # NoCandidate
    <3>1. cand[p] \in Candidate /\ cand[p].age \in 0..Wait /\ Older(cand[p].age) \in 0..Wait
      BY <2>1, <2>4, CandidateFields, OlderFacts
    <3>2. /\ cand'[p] = [cand[p] EXCEPT !.age = Older(cand[p].age)]
          /\ cand'[p] \in Candidate /\ cand'[p].stamp = cand[p].stamp
          /\ cand'[p].age = Older(cand[p].age) /\ cand'[p].is_archive = cand[p].is_archive
      BY <1>1, <2>4, <3>1, AgedCandidate
    <3>3. cand[p].age <= quiet[p] => cand'[p].age <= quiet'[p]
      BY <2>1, <3>1, <3>2, OlderFacts
    <3>. QED
      BY <1>1, <2>1, <2>2, <2>4, <3>2, <3>3 DEF RowOK, Tells
  <2>. QED
    BY <2>3, <2>4
<1>3. quiet' \in [Path -> 0..Wait] /\ cand' \in [Path -> Candidate \cup {NoCandidate}]
  <2>1. quiet' = [p \in Path |-> quiet'[p]] /\ cand' = [p \in Path |-> cand'[p]]
    BY <1>1
  <2>. QED
    BY <1>2, <2>1
<1>4. DriverTyped' /\ ControlOK'
  BY <1>1, <1>3 DEF DriverInv, DriverTyped, ControlOK
<1>5. TableOK' /\ OpenedOK'
  BY <1>1, <1>2 DEF DriverInv, TableOK, OpenedOK, Holds
<1>. QED
  BY <1>4, <1>5 DEF DriverInv

(* A look at the next line or file: it becomes the job, or is passed over. *)
LEMMA ScanKeepsInvariant ==
  ASSUME DriverInv, RingInv', ScanLine \/ ScanFile
  PROVE  DriverInv'
<1>. DEFINE Dest == {OwnDir} \cup {Lines[i].dest : i \in Asked}
            Looks(p, to) == \E s \in ByThen(p), v \in {"yes", "no", "unread"} :
                              Look(p, s, v) /\ (Accept(p, to, v) \/ PassOver(p, v))
<1>0. PICK p \in Path, to \in Dest : Looks(p, to)
  <2>1. ASSUME ScanLine PROVE \E p \in Path, to \in Dest : Looks(p, to)
    <3>1. PICK i \in unread : Looks(Ask(i), Lines[i].dest)
      BY <2>1 DEF ScanLine
    <3>2. i \in Asked /\ Ask(i) \in Path
      BY DriverConstants DEF DriverInv, DriverTyped
    <3>. QED
      BY <3>1, <3>2
  <2>2. ASSUME ScanFile PROVE \E p \in Path, to \in Dest : Looks(p, to)
    <3>1. PICK p \in todo : Looks(p, OwnDir)
      BY <2>2 DEF ScanFile
    <3>2. p \in Path
      BY DriverConstants DEF DriverInv, DriverTyped
    <3>. QED
      BY <3>1, <3>2
  <2>. QED
    BY <2>1, <2>2
<1>1. PICK s \in ByThen(p), v \in {"yes", "no", "unread"} :
        Look(p, s, v) /\ (Accept(p, to, v) \/ PassOver(p, v))
  BY <1>0
<1>2. /\ opened' = opened /\ outcome' = outcome /\ crashes' = crashes /\ phase' = phase
      /\ pc \in {"queue", "watch"} /\ unread' \subseteq unread /\ todo' \subseteq todo
  BY DEF ScanLine, ScanFile, Accept, PassOver, statusVars
<1>3. /\ cand' = TableAfter(p, v) \/ cand' = Swept(TableAfter(p, v))
      /\ \/ pc' = "extract" /\ job' = KeyOf(p, fs[p]) /\ job_dest' = to /\ IsReady(p, v)
         \/ pc' = pc /\ job' = job /\ job_dest' = job_dest
  BY <1>1 DEF Accept, PassOver
<1>4. TableOK' /\ cand' \in [Path -> Candidate \cup {NoCandidate}]
  BY <1>1, <1>3, LookKeepsTable DEF DriverInv
<1>5. job' \in Key \cup {NoJob} /\ (pc' = "extract" => job' # NoJob)
  <2>1. IsReady(p, v) => fs[p] \in Stamp
    BY DEF IsReady, DriverInv, DriverTyped
  <2>2. CASE job' = KeyOf(p, fs[p]) /\ IsReady(p, v)
    <3>1. KeyOf(p, fs[p]) \in Key
      BY <2>1, <2>2, KeyFields
    <3>. QED
      BY <2>2, <3>1, DriverConstants
  <2>3. CASE pc' = pc /\ job' = job
    BY <1>2, <2>3 DEF DriverInv, DriverTyped
  <2>. QED
    BY <1>3, <2>2, <2>3
<1>6. /\ fs' \in [Path -> Stamp \cup {Absent}] /\ newest' \in [Path -> Stamp \cup {Absent}]
      /\ quiet' \in [Path -> 0..Wait]
  BY <1>1, LookMovesForward DEF DriverInv, Look
<1>7. faults' \in 0..MaxFaults
  BY <1>1, DriverAssumption DEF Look, Fault, DriverInv, DriverTyped
<1>8. DriverTyped'
  BY <1>2, <1>7, <1>3, <1>4, <1>5, <1>6 DEF DriverInv, DriverTyped
<1>9. ControlOK' /\ OpenedOK'
  BY <1>2, <1>3, <1>5 DEF DriverInv, ControlOK, OpenedOK, Holds
<1>. QED
  BY <1>4, <1>8, <1>9 DEF DriverInv

(* What an error hides from the scan is left as it was. *)
LEMMA OverlookKeepsInvariant ==
  ASSUME DriverInv, RingInv', OverlookLines \/ OverlookFiles
  PROVE  DriverInv'
<1>1. /\ fs' = fs /\ newest' = newest /\ quiet' = quiet /\ cand' = cand /\ job' = job
      /\ job_dest' = job_dest /\ opened' = opened /\ outcome' = outcome /\ pc' = pc
      /\ crashes' = crashes /\ phase' = phase /\ unread' \subseteq unread /\ todo' \subseteq todo
      /\ faults < MaxFaults /\ faults' = faults + 1
  BY DEF OverlookLines, OverlookFiles, Fault, userVars, jobVars, statusVars
<1>2. faults' \in 0..MaxFaults
  BY <1>1, DriverAssumption DEF DriverInv, DriverTyped
<1>3. DriverTyped' /\ ControlOK'
  BY <1>1, <1>2 DEF DriverInv, DriverTyped, ControlOK
<1>4. TableOK' /\ OpenedOK'
  BY <1>1 DEF DriverInv, TableOK, RowOK, Tells, OpenedOK, Holds
<1>. QED
  BY <1>3, <1>4 DEF DriverInv

(* The rest of the loop, between two looks. *)
LEMMA TickKeepsInvariant ==
  ASSUME DriverInv, RingInv', Launch \/ WakeUp \/ OpenWatchPaths \/ NothingReady
  PROVE  DriverInv'
<1>1. /\ fs' = fs /\ newest' = newest /\ quiet' = quiet /\ job' = job
      /\ job_dest' = job_dest /\ opened' = opened /\ outcome' = outcome
      /\ crashes' = crashes /\ faults' = faults
      /\ unread' \in {unread, Asked} /\ todo' \in {todo, {}, Watched}
      /\ cand' = cand \/ cand' = Swept(cand)
  BY DEF Launch, WakeUp, OpenWatchPaths, NothingReady, BeginTick, userVars, jobVars, counts
<1>2. /\ pc \in {"down", "queue", "watch", "sleep"} /\ pc' \in {"queue", "watch", "sleep"}
      /\ phase' = "idle"
  BY DEF Launch, Open, WakeUp, OpenWatchPaths, NothingReady, BeginTick, statusVars, DriverInv,
         ControlOK, RingInv
<1>3. /\ cand' \in [Path -> Candidate \cup {NoCandidate}]
      /\ \A p \in Path : cand'[p] = NoCandidate \/ cand'[p] = cand[p]
                         \/ (cand[p] # NoCandidate /\ SameButTouched(cand'[p], cand[p]))
  <2>1. CASE cand' = cand
    BY <2>1 DEF DriverInv, DriverTyped
  <2>2. CASE cand' = Swept(cand)
    <3>1. \A p \in Path :
            \/ cand'[p] = NoCandidate
            \/ cand[p] \in Candidate /\ cand'[p] = [cand[p] EXCEPT !.touched = FALSE]
      BY <2>2 DEF Swept, DriverInv, DriverTyped
    <3>2. \A p \in Path :
            \/ cand'[p] = NoCandidate
            \/ cand[p] # NoCandidate /\ SameButTouched(cand'[p], cand[p])
      BY <3>1, MarkedCandidate, CandidateFields
    <3>3. cand' = [p \in Path |-> cand'[p]]
      BY <2>2 DEF Swept
    <3>. QED
      BY <3>2, <3>3 DEF SameButTouched
  <2>. QED
    BY <1>1, <2>1, <2>2
<1>4. DriverTyped'
  BY <1>1, <1>2, <1>3 DEF DriverInv, DriverTyped
<1>5. TableOK'
  <2>1. \A p \in Path : Forward(p)
    BY <1>1 DEF Forward
  <2>. QED
    BY <1>3, <2>1, ForwardKeepsRow DEF DriverInv, TableOK, SameButTouched
<1>6. ControlOK' /\ OpenedOK'
  BY <1>1, <1>2, JobFacts DEF ControlOK, OpenedOK, Holds
<1>. QED
  BY <1>4, <1>5, <1>6 DEF DriverInv

(* The job: what was opened was on the disk at the time. *)
LEMMA JobKeepsInvariant ==
  ASSUME DriverInv, RingInv', OpenArchive \/ EndExtraction \/ KeepArchive \/ RecordJob
  PROVE  DriverInv'
<1>1. /\ fs' = fs /\ newest' = newest /\ quiet' = quiet /\ job' = job
      /\ job_dest' = job_dest /\ crashes' = crashes /\ faults' = faults /\ unread' = unread /\ todo' = todo
      /\ cand' = cand
  BY DEF OpenArchive, EndExtraction, KeepArchive, RecordJob, userVars, scanVars, jobVars, counts
<1>2. /\ pc \in {"extract", "running", "finished", "record"}
      /\ pc' \in {"running", "finished", "record", "flush"}
      /\ pc' = "flush" <=> RecordJob
      /\ phase' = IF RecordJob THEN "write" ELSE phase
  BY DEF OpenArchive, EndExtraction, KeepArchive, RecordJob, Record, statusVars
<1>3. opened' \in Stamp \cup {Absent} /\ outcome' \in Result
  BY JobFacts, DriverConstants
  DEF OpenArchive, EndExtraction, KeepArchive, RecordJob, jobVars, DriverInv, DriverTyped
<1>4. DriverTyped' /\ TableOK'
  BY <1>1, <1>2, <1>3 DEF DriverInv, DriverTyped, TableOK, RowOK, Tells
<1>5. ControlOK'
  BY <1>1, <1>2 DEF DriverInv, ControlOK
<1>6. OpenedOK'
  <2>1. CASE OpenArchive
    <3>1. CASE fs[job.path] = Absent
      BY <2>1, <3>1, DriverConstants DEF OpenArchive, OpenedOK, Holds
    <3>2. CASE fs[job.path] # Absent
      <4>1. opened' = fs[job.path] /\ pc' = "running" /\ job.path \in Path
        BY <2>1, <3>2, JobFacts DEF OpenArchive
      <4>2. fs[job.path] \in Stamp /\ fs[job.path] <= newest[job.path] /\ fs[job.path] \in Nat
        BY <3>2, <4>1, DriverConstants DEF DriverInv, DriverTyped, TableOK, RowOK
      <4>. QED
        BY <1>1, <4>1, <4>2 DEF OpenedOK, Holds
    <3>. QED
      BY <3>1, <3>2
  <2>2. CASE EndExtraction
    BY <1>1, <2>2 DEF EndExtraction, DriverInv, OpenedOK, Holds
  <2>3. CASE KeepArchive \/ RecordJob
    BY <2>3 DEF KeepArchive, RecordJob, OpenedOK, Holds
  <2>. QED
    BY <2>1, <2>2, <2>3
<1>. QED
  BY <1>4, <1>5, <1>6 DEF DriverInv

(* Unlinking the archive moves its file forward like any other change. *)
LEMMA DeleteKeepsInvariant ==
  ASSUME DriverInv, RingInv', Delete
  PROVE  DriverInv'
<1>1. /\ newest' = newest /\ job' = job /\ job_dest' = job_dest /\ opened' = opened
      /\ outcome' = outcome /\ crashes' = crashes /\ faults' = faults /\ unread' = unread /\ todo' = todo
      /\ cand' = cand /\ phase' = phase /\ pc = "finished" /\ pc' = "record"
      /\ fs' = [fs EXCEPT ![job.path] = Absent] /\ quiet' = [quiet EXCEPT ![job.path] = 0]
  BY DEF Delete, scanVars, jobVars, counts, statusVars
<1>2. job.path \in Path
  BY <1>1, JobFacts
<1>3. fs' \in [Path -> Stamp \cup {Absent}] /\ quiet' \in [Path -> 0..Wait]
  BY <1>1, <1>2, DriverConstants DEF DriverInv, DriverTyped
<1>4. DriverTyped' /\ ControlOK' /\ OpenedOK'
  BY <1>1, <1>3 DEF DriverInv, DriverTyped, ControlOK, OpenedOK, Holds
<1>5. \A p \in Path : Forward(p)
  BY <1>1, <1>2 DEF Forward, DriverInv, DriverTyped
<1>6. TableOK'
  BY <1>1, <1>5, ForwardKeepsRow DEF DriverInv, TableOK
<1>. QED
  BY <1>4, <1>6 DEF DriverInv

(* Each call of the rewrite; the last one ends the job. *)
LEMMA FlushKeepsInvariant ==
  ASSUME DriverInv, RingInv', FlushStep
  PROVE  DriverInv'
<1>1. /\ fs' = fs /\ newest' = newest /\ quiet' = quiet /\ cand' = cand /\ crashes' = crashes
      /\ faults' = faults
      /\ pc = "flush" /\ phase' \in {"idle", "rename"}
  BY DEF FlushStep, Flush, WriteTemp, WriteTempFails, Rename, RenameFails, userVars, scanVars, counts
<1>2. TableOK'
  BY <1>1 DEF DriverInv, TableOK, RowOK, Tells
<1>3. CASE phase' = "idle"
  <2>1. /\ pc' = "queue" /\ unread' = Asked /\ todo' = {} /\ job' = NoJob /\ job_dest' = OwnDir
        /\ opened' = Absent /\ outcome' = failed
    BY <1>3 DEF FlushStep, BeginTick
  <2>2. DriverTyped' /\ ControlOK' /\ OpenedOK'
    BY <1>1, <1>3, <2>1, DriverConstants DEF DriverInv, DriverTyped, ControlOK, OpenedOK, Holds
  <2>. QED
    BY <1>2, <2>2 DEF DriverInv
<1>4. CASE phase' = "rename"
  <2>1. /\ pc' = pc /\ unread' = unread /\ todo' = todo /\ job' = job /\ job_dest' = job_dest
        /\ opened' = opened /\ outcome' = outcome
    BY <1>4 DEF FlushStep, scanVars, jobVars
  <2>2. DriverTyped' /\ ControlOK' /\ OpenedOK'
    BY <1>1, <1>4, <2>1 DEF DriverInv, DriverTyped, ControlOK, OpenedOK, Holds
  <2>. QED
    BY <1>2, <2>2 DEF DriverInv
<1>. QED
  BY <1>1, <1>3, <1>4

(* A crash leaves nothing but files. *)
LEMMA CrashKeepsInvariant ==
  ASSUME DriverInv, RingInv', Crash
  PROVE  DriverInv'
<1>1. /\ fs' = fs /\ newest' = newest /\ quiet' = quiet /\ crashes' = crashes + 1
      /\ faults' = faults
      /\ crashes < MaxCrashes /\ phase' = "down" /\ pc' = "down"
      /\ cand' = [p \in Path |-> NoCandidate] /\ unread' = {} /\ todo' = {}
      /\ job' = NoJob /\ job_dest' = OwnDir /\ opened' = Absent /\ outcome' = failed
  BY DEF Crash, Down, userVars
<1>2. crashes' \in 0..MaxCrashes
  BY <1>1, DriverAssumption DEF DriverInv, DriverTyped
<1>3. DriverTyped'
  BY <1>1, <1>2, DriverConstants DEF DriverInv, DriverTyped
<1>4. ControlOK' /\ OpenedOK'
  BY <1>1 DEF ControlOK, OpenedOK, Holds
<1>5. TableOK'
  BY <1>1 DEF DriverInv, TableOK, RowOK
<1>. QED
  BY <1>3, <1>4, <1>5 DEF DriverInv

-------------------------------------------------------------------------------
(* The invariant, and what it is for. *)

(* The program has never run, and there are no files. *)
LEMMA DriverInitInvariant == DriverInit => DriverInv
<1>. SUFFICES ASSUME DriverInit PROVE DriverInv
  OBVIOUS
<1>1. RingInv
  BY InitEstablishesRingInv DEF DriverInit
<1>2. DriverTyped
  BY DriverConstants, DriverAssumption DEF DriverInit, DriverTyped
<1>3. ControlOK /\ TableOK /\ OpenedOK
  BY DriverConstants DEF DriverInit, StatusInit, ControlOK, TableOK, RowOK, OpenedOK, Holds
<1>. QED
  BY <1>1, <1>2, <1>3 DEF DriverInv

(* Every step of the driver, the user and the clock, taken together. *)
LEMMA DriverNextInvariant == DriverInv /\ [DriverNext]_driverVars => DriverInv'
<1>. SUFFICES ASSUME DriverInv, [DriverNext]_driverVars PROVE DriverInv'
  OBVIOUS
<1>0. RingInv'
  BY DriverKeepsRing
<1>1. CASE User
  BY <1>0, <1>1, UserKeepsInvariant
<1>2. CASE Second
  BY <1>0, <1>2, SecondKeepsInvariant
<1>3. CASE ScanLine \/ ScanFile
  BY <1>0, <1>3, ScanKeepsInvariant
<1>4. CASE Launch \/ WakeUp \/ OpenWatchPaths \/ NothingReady
  BY <1>0, <1>4, TickKeepsInvariant
<1>5. CASE OpenArchive \/ EndExtraction \/ KeepArchive \/ RecordJob
  BY <1>0, <1>5, JobKeepsInvariant
<1>6. CASE Delete
  BY <1>0, <1>6, DeleteKeepsInvariant
<1>7. CASE FlushStep
  BY <1>0, <1>7, FlushKeepsInvariant
<1>8. CASE Crash
  BY <1>0, <1>8, CrashKeepsInvariant
<1>9. CASE UNCHANGED driverVars
  BY <1>0, <1>9
  DEF driverVars, userVars, scanVars, jobVars, counts, statusVars, DriverInv, DriverTyped,
      ControlOK, TableOK, RowOK, Tells, OpenedOK, Holds
<1>10. CASE OverlookLines \/ OverlookFiles
  BY <1>0, <1>10, OverlookKeepsInvariant
<1>. QED
  BY <1>1, <1>2, <1>3, <1>4, <1>5, <1>6, <1>7, <1>8, <1>9, <1>10
  DEF DriverNext, Running, Scan, RunJob

(* So the invariant holds throughout every behaviour. *)
THEOREM DriverInvariant == DriverSpec => []DriverInv
BY DriverInitInvariant, DriverNextInvariant, PTL DEF DriverSpec

(* The type invariant of the driver and of its ring: a job is always a     *)
(* path and a version, the table and the ages stay within their bounds.    *)
THEOREM DriverTypes == DriverSpec => []DriverTypeOK
<1>1. DriverInv => DriverTypeOK
  BY DEF DriverInv, DriverTyped, DriverTypeOK, RingInv, Ring, StatusTypeOK
<1>. QED
  BY <1>1, DriverInvariant, PTL

(* A cached verdict under the stamp of the file is the verdict on the file *)
(* as it is, or that of a read that failed (observe, ua_detect_file).      *)
THEOREM VerdictsAreCurrent == DriverSpec => []VerdictIsCurrent
<1>1. DriverInv => VerdictIsCurrent
  BY DEF DriverInv, TableOK, RowOK, Tells, VerdictIsCurrent
<1>. QED
  BY <1>1, DriverInvariant, PTL

(* Only a file that has been quiet for the whole wait becomes a job, and   *)
(* the job names its current version (observe, scan_dir, scan_queue_file). *)
LEMMA AcceptedStep ==
  ASSUME DriverInv, [DriverNext]_driverVars, job = NoJob, job' # NoJob
  PROVE  fs[job'.path] = job'.stamp /\ quiet[job'.path] >= Wait
<1>1. ScanLine \/ ScanFile
  BY JobFacts
  DEF DriverNext, Running, Scan, RunJob, User, Upload, RemoveFile, Second, Launch, WakeUp,
      OverlookLines, OpenWatchPaths, OverlookFiles, NothingReady, OpenArchive, EndExtraction, Delete, KeepArchive, RecordJob,
      FlushStep, Crash, jobVars, driverVars
<1>2. \E p \in Path : \E s \in ByThen(p), v \in {"yes", "no", "unread"} :
        Look(p, s, v) /\ IsReady(p, v) /\ job' = KeyOf(p, fs[p])
  <2>1. CASE ScanLine
    <3>1. PICK i \in unread : \E s \in ByThen(Ask(i)), v \in {"yes", "no", "unread"} :
            Look(Ask(i), s, v) /\ IsReady(Ask(i), v) /\ job' = KeyOf(Ask(i), fs[Ask(i)])
      BY <2>1 DEF ScanLine, Accept, PassOver
    <3>2. Ask(i) \in Path
      BY DriverConstants DEF DriverInv, DriverTyped
    <3>. QED
      BY <3>1, <3>2
  <2>2. CASE ScanFile
    <3>1. PICK p \in todo : \E s \in ByThen(p), v \in {"yes", "no", "unread"} :
            Look(p, s, v) /\ IsReady(p, v) /\ job' = KeyOf(p, fs[p])
      BY <2>2 DEF ScanFile, Accept, PassOver
    <3>2. p \in Path
      BY DriverConstants DEF DriverInv, DriverTyped
    <3>. QED
      BY <3>1, <3>2
  <2>. QED
    BY <1>1, <2>1, <2>2
<1>3. PICK p \in Path : \E s \in ByThen(p), v \in {"yes", "no", "unread"} :
        Look(p, s, v) /\ IsReady(p, v) /\ job' = KeyOf(p, fs[p])
  BY <1>2
<1>4. PICK s \in ByThen(p), v \in {"yes", "no", "unread"} :
        Look(p, s, v) /\ IsReady(p, v) /\ job' = KeyOf(p, fs[p])
  BY <1>3
<1>5. fs[p] # Absent /\ Sniffed(p, v).age >= Wait
  BY <1>4 DEF IsReady, Settled
<1>6. /\ Sniffed(p, v).age \in Nat /\ Sniffed(p, v).age <= quiet[p] /\ quiet[p] \in Nat
      /\ Wait \in Nat
  BY <1>4, <1>5, LookedAtRow, CandidateFields, DriverConstants DEF DriverInv, DriverTyped
<1>7. job'.path = p /\ job'.stamp = fs[p]
  BY <1>4 DEF KeyOf
<1>. QED
  BY <1>5, <1>6, <1>7

(* An archive is left alone until it has stopped changing, whatever the    *)
(* polls, the clock and the uploads do in between (observe, cand_sweep).   *)
THEOREM JobsWereQuiet == DriverSpec => AcceptedWhenQuiet
<1>1. DriverInv /\ [DriverNext]_driverVars
        => [job = NoJob /\ job' # NoJob
              => fs[job'.path] = job'.stamp /\ quiet[job'.path] >= Wait]_driverVars
  BY AcceptedStep
<1>. QED
  BY <1>1, DriverInvariant, PTL DEF DriverSpec, AcceptedWhenQuiet

(* The step that unlinks. *)
LEMMA DeleteStep ==
  ASSUME DriverInv, [DriverNext]_driverVars, pc = "finished", pc' = "record"
  PROVE  \A p \in Path : fs'[p] # fs[p] =>
            /\ p = job.path /\ outcome = ok /\ fs'[p] = Absent
            /\ KeyOf(p, opened) \in Archive
            /\ opened = fs[p] \/ (TouchesJobs /\ opened < fs[p])
<1>1. Delete \/ KeepArchive
  BY JobFacts
  DEF DriverNext, Running, Scan, RunJob, User, Upload, RemoveFile, Second, Launch, WakeUp, BeginTick,
      ScanLine, ScanFile, OverlookLines, OverlookFiles, OpenWatchPaths, NothingReady, OpenArchive,
      EndExtraction, RecordJob, FlushStep, Crash, driverVars
<1>2. CASE Delete
  <2>1. /\ fs' = [fs EXCEPT ![job.path] = Absent] /\ outcome = ok /\ job.path \in Path
        /\ fs[job.path] # Absent
    BY <1>2, JobFacts DEF Delete, Deletes
  <2>2. /\ opened \in Stamp /\ opened <= fs[job.path] /\ KeyOf(job.path, opened) \in Archive
        /\ ~TouchesJobs => opened = fs[job.path]
    BY <2>1 DEF DriverInv, OpenedOK, Holds
  <2>3. opened \in Nat /\ fs[job.path] \in Nat
    BY <2>1, <2>2, DriverConstants DEF DriverInv, DriverTyped
  <2>4. opened = fs[job.path] \/ (TouchesJobs /\ opened < fs[job.path])
    BY <2>2, <2>3
  <2>. QED
    BY <2>1, <2>2, <2>4 DEF DriverInv, DriverTyped
<1>3. CASE KeepArchive
  BY <1>3 DEF KeepArchive, userVars
<1>. QED
  BY <1>1, <1>2, <1>3

(* The archive is removed only after UA_OK for an archive at its path; a   *)
(* version is lost that was not extracted only if it was put there while   *)
(* the job ran (maybe_delete, ua_extract_run).                             *)
THEOREM DeletedWereExtracted == DriverSpec => UnlinkedAfterSuccess
<1>1. DriverInv /\ [DriverNext]_driverVars
        => [pc = "finished" /\ pc' = "record"
              => \A p \in Path : fs'[p] # fs[p] =>
                   /\ p = job.path /\ outcome = ok /\ fs'[p] = Absent
                   /\ KeyOf(p, opened) \in Archive
                   /\ opened = fs[p] \/ (TouchesJobs /\ opened < fs[p])]_driverVars
  BY DeleteStep
<1>. QED
  BY <1>1, DriverInvariant, PTL DEF DriverSpec, UnlinkedAfterSuccess

-------------------------------------------------------------------------------
(* The driver with its history: the inductive invariant. *)

(* The two histories; a program that is down remembers nothing.            *)
HistoryOK == /\ log \in Seq(Key)
             /\ stored \in Seq(Key)
             /\ phase = "down" => log = <<>>

(* Until it is recorded, the running job is none that the ring remembers:  *)
(* without this the record might update an old one where it stands, and    *)
(* the ring would no longer be a window.                                   *)
JobIsNew == pc \in {"extract", "running", "finished", "record"} => job \notin KeysOf(rec)

LogInv == /\ DriverInv
          /\ HistoryOK
          /\ JobIsNew
          /\ RingIsRecentJobs
          /\ PlainPaths => FarApart(log) /\ FarApart(stored)

-------------------------------------------------------------------------------
(* Windows. *)

(* Keys of a ring, taken from its records one by one. *)
LEMMA RingFacts ==
  ASSUME NEW s \in Ring
  PROVE  /\ Len(s) \in Nat /\ Len(s) <= UA_STATUS_MAX /\ DOMAIN s = 1..Len(s)
         /\ \A i \in 1..Len(s) : s[i] \in Rec /\ s[i].key \in Key /\ s[i].key \in KeysOf(s)
         /\ UA_STATUS_MAX \in Nat \ {0}
<1>1. /\ Len(s) \in Nat /\ Len(s) <= UA_STATUS_MAX /\ DOMAIN s = 1..Len(s)
      /\ \A i \in 1..Len(s) : s[i] \in Rec
  BY DEF Ring
<1>2. \A i \in 1..Len(s) : s[i].key \in Key
  BY <1>1, RecordFields
<1>. QED
  BY <1>1, <1>2, StatusMaxAssumption DEF KeysOf

(* A path that survives being parsed makes a file that reads back as it is *)
(* (parse_line).                                                           *)
LEMMA PlainReload ==
  ASSUME PlainPaths, NEW s \in Ring
  PROVE  /\ Loaded(s) \in Ring /\ Len(Loaded(s)) = Len(s)
         /\ \A i \in 1..Len(s) : Loaded(s)[i].key = s[i].key
<1>1. Capped(Len(s)) = Len(s)
  BY RingFacts DEF Capped
<1>2. Loaded(s) = [i \in 1..Len(s) |-> [s[i] EXCEPT !.key = Reread(s[i].key)]]
  BY <1>1 DEF Loaded
<1>3. \A k \in Key : Reread(k) = k
  BY DEF PlainPaths, Reread, Key
<1>4. \A i \in 1..Len(s) : /\ [s[i] EXCEPT !.key = Reread(s[i].key)] \in Rec
                           /\ [s[i] EXCEPT !.key = Reread(s[i].key)].key = s[i].key
  <2>. SUFFICES ASSUME NEW i \in 1..Len(s)
                PROVE  /\ [s[i] EXCEPT !.key = Reread(s[i].key)] \in Rec
                       /\ [s[i] EXCEPT !.key = Reread(s[i].key)].key = s[i].key
    OBVIOUS
  <2>1. s[i] \in Rec /\ s[i].key \in Key
    BY RingFacts
  <2>2. Reread(s[i].key) = s[i].key
    BY <1>3, <2>1
  <2>. QED
    BY <2>1, <2>2, RecordFields
<1>5. Loaded(s) \in [1..Len(s) -> Rec] /\ \A i \in 1..Len(s) : Loaded(s)[i].key = s[i].key
  BY <1>2, <1>4
<1>6. Len(s) \in Nat
  BY RingFacts
<1>. QED
  BY <1>5, <1>6, LoadedProperties, FunctionIsSequence

(* The end of a history that a window shows. *)
LEMMA WindowFacts ==
  ASSUME NEW s \in Ring, NEW jobs \in Seq(Key), IsWindow(s, jobs)
  PROVE  /\ Len(s) <= Len(jobs) /\ Len(jobs) \in Nat
         /\ Len(s) < UA_STATUS_MAX => Len(s) = Len(jobs)
         /\ \A i \in 1..Len(s) : /\ s[i].key = jobs[Len(jobs) - Len(s) + i]
                                 /\ Len(jobs) - Len(s) + i \in 1..Len(jobs)
<1>1. /\ Len(s) = Capped(Len(jobs)) /\ Len(jobs) \in Nat
      /\ \A i \in 1..Len(s) : s[i].key = jobs[Len(jobs) - Len(s) + i]
  BY RingFacts DEF IsWindow
<1>. QED
  BY <1>1, RingFacts DEF Capped

(* A window of a history without early repetitions has none at all.        *)
LEMMA WindowIsInjective ==
  ASSUME NEW s \in Ring, NEW jobs \in Seq(Key), IsWindow(s, jobs), FarApart(jobs),
         NEW i \in 1..Len(s), NEW j \in 1..Len(s), i < j
  PROVE  s[i].key # s[j].key
<1>. DEFINE d == Len(jobs) - Len(s)
<1>1. /\ Len(s) \in Nat /\ Len(s) <= UA_STATUS_MAX /\ UA_STATUS_MAX \in Nat
      /\ d \in Nat /\ d + i \in 1..Len(jobs) /\ d + j \in 1..Len(jobs)
      /\ s[i].key = jobs[d + i] /\ s[j].key = jobs[d + j]
  BY WindowFacts, RingFacts
<1>2. DOMAIN jobs = 1..Len(jobs)
  OBVIOUS
<1>. HIDE DEF d
<1>3. d + i < d + j /\ (d + j) - (d + i) <= UA_STATUS_MAX
  BY <1>1
<1>. QED
  BY <1>1, <1>2, <1>3 DEF FarApart

(* A new job moves the window on by one (ua_status_record): the ring has   *)
(* room for it, or gives up the oldest job for it.                         *)
LEMMA RecordedShifts ==
  ASSUME HistoryOK, NEW s \in Ring, IsWindow(s, log), NEW k \in Key, NEW r \in Result,
         k \notin KeysOf(s)
  PROVE  /\ Len(Recorded(s, k, r)) = Capped(Len(log) + 1)
         /\ DOMAIN Recorded(s, k, r) = 1..Len(Recorded(s, k, r))
         /\ \A i \in 1..Len(Recorded(s, k, r)) :
              Recorded(s, k, r)[i].key
                = Append(log, k)[(Len(log) + 1) - Len(Recorded(s, k, r)) + i]
<1>. DEFINE new == [key |-> k, result |-> r]
            m == Len(Room(s))
            t == Recorded(s, k, r)
            n == Len(log)
            longer == Append(log, k)
<1>1. t = Append(Room(s), new) /\ new \in Rec /\ new.key = k
  BY DEF Recorded, Rec
<1>2. /\ Len(s) \in Nat /\ Len(s) <= UA_STATUS_MAX /\ UA_STATUS_MAX \in Nat \ {0}
      /\ s \in Seq(Rec) /\ n \in Nat /\ Len(s) = Capped(n)
      /\ \A i \in 1..Len(s) : s[i].key = log[n - Len(s) + i] /\ n - Len(s) + i \in 1..n
  <2>1. n \in Nat /\ s \in Seq(Rec) /\ Len(s) = Capped(n)
    BY DEF HistoryOK, Ring, IsWindow
  <2>2. \A i \in 1..Len(s) : s[i].key = log[n - Len(s) + i] /\ n - Len(s) + i \in 1..n
    <3>1. log \in Seq(Key)
      BY DEF HistoryOK
    <3>. QED
      BY <3>1, WindowFacts
  <2>. QED
    BY <2>1, <2>2, RingFacts
<1>3. /\ Room(s) \in Seq(Rec) /\ m \in Nat /\ m + 1 = Capped(n + 1)
      /\ \A i \in 1..m : Room(s)[i].key = log[n - m + i] /\ n - m + i \in 1..n
  <2>1. CASE Len(s) = UA_STATUS_MAX
    <3>1. Room(s) = Tail(s) /\ s # <<>>
      BY <1>2, <2>1 DEF Room
    <3>2. /\ Tail(s) \in Seq(Rec) /\ Len(Tail(s)) = Len(s) - 1
          /\ \A i \in 1..Len(Tail(s)) : Tail(s)[i] = s[i + 1]
      BY <1>2, <3>1
    <3>3. \A i \in 1..m : i + 1 \in 1..Len(s) /\ n - Len(s) + (i + 1) = n - m + i
      BY <1>2, <3>1, <3>2
    <3>4. m + 1 = Capped(n + 1)
      BY <1>2, <2>1, <3>1, <3>2 DEF Capped
    <3>. QED
      BY <1>2, <3>1, <3>2, <3>3, <3>4
  <2>2. CASE Len(s) # UA_STATUS_MAX
    <3>1. Room(s) = s
      BY <2>2 DEF Room
    <3>2. m + 1 = Capped(n + 1)
      BY <1>2, <2>2, <3>1 DEF Capped
    <3>. QED
      BY <1>2, <3>1, <3>2
  <2>. QED
    BY <2>1, <2>2
<1>. HIDE DEF new, t
<1>4. /\ Len(t) = m + 1 /\ DOMAIN t = 1..(m + 1)
      /\ \A i \in 1..m : t[i] = Room(s)[i]
      /\ t[m + 1] = new
  BY <1>1, <1>3
<1>5. /\ \A i \in 1..n : longer[i] = log[i]
      /\ longer[n + 1] = k
  BY DEF HistoryOK
<1>. HIDE DEF m, n, longer
<1>6. ASSUME NEW i \in 1..(m + 1) PROVE t[i].key = longer[(n + 1) - (m + 1) + i]
  <2>1. CASE i \in 1..m
    <3>1. (n + 1) - (m + 1) + i = n - m + i
      BY <1>2, <1>3
    <3>. QED
      BY <1>3, <1>4, <1>5, <2>1, <3>1
  <2>2. CASE i = m + 1
    <3>1. (n + 1) - (m + 1) + i = n + 1
      BY <1>2, <1>3, <2>2
    <3>. QED
      BY <1>1, <1>4, <1>5, <2>2, <3>1
  <2>. QED
    BY <1>3, <2>1, <2>2
<1>. QED
  BY <1>3, <1>4, <1>6 DEF t, n, longer

-------------------------------------------------------------------------------
(* The steps. *)

(* The history changes nothing of what the driver does. *)
LEMMA LogStepIsDriverStep == [LogNext]_logVars => [DriverNext]_driverVars
BY DEF LogNext, logVars, LogLaunch, LogRecord, LogFlush, LogCrash, LogScan, Unrecorded, DriverNext, Running,
       RunJob

(* Recording the job. *)
LEMMA RecordKeepsHistory ==
  ASSUME LogInv, DriverInv', LogRecord
  PROVE  LogInv'
<1>1. /\ pc = "record" /\ phase = "idle" /\ phase' = "write" /\ pc' = "flush"
      /\ rec' = Recorded(rec, job, outcome) /\ file' = file /\ log' = Append(log, job)
      /\ stored' = stored
  BY DEF LogRecord, RecordJob, Record
<1>2. /\ job \in Key /\ outcome \in Result /\ job \notin KeysOf(rec)
      /\ rec \in Ring /\ file \in Ring /\ log \in Seq(Key) /\ Len(log) \in Nat
      /\ stored \in Seq(Key)
  BY <1>1, JobFacts DEF LogInv, JobIsNew, HistoryOK, DriverInv, DriverTyped, RingInv
<1>3. /\ log' \in Seq(Key) /\ Len(log') = Len(log) + 1
      /\ \A i \in 1..Len(log) : log'[i] = log[i] 
      /\ log'[Len(log) + 1] = job
  BY <1>1, <1>2
<1>4. HistoryOK' /\ JobIsNew'
  BY <1>1, <1>2, <1>3 DEF HistoryOK, JobIsNew
<1>5. ASSUME PlainPaths
      PROVE  /\ IsWindow(rec, log)' /\ IsWindow(file, stored)'
             /\ FarApart(log)' /\ FarApart(stored)'
  <2>1. IsWindow(rec, log) /\ IsWindow(file, stored)
    BY <1>1, <1>5 DEF LogInv, RingIsRecentJobs
  <2>2. IsWindow(rec, log)'
    <3>1. HistoryOK
      BY DEF LogInv
    <3>2. /\ Len(rec') = Capped(Len(log) + 1) /\ DOMAIN rec' = 1..Len(rec')
          /\ \A i \in 1..Len(rec') : rec'[i].key = log'[(Len(log) + 1) - Len(rec') + i]
      BY <1>1, <1>2, <2>1, <3>1, RecordedShifts
    <3>. QED
      BY <1>3, <3>2 DEF IsWindow
  <2>3. IsWindow(file, stored)' /\ FarApart(stored)'
    BY <1>1, <1>5, <2>1 DEF LogInv, IsWindow, FarApart
  <2>4. ASSUME NEW i \in 1..Len(log), log[i] = job
        PROVE  (Len(log) + 1) - i > UA_STATUS_MAX
    <3>. DEFINE m == Len(rec)
                n == Len(log)
    <3>1. /\ m \in Nat /\ m <= n /\ m <= UA_STATUS_MAX /\ (m < UA_STATUS_MAX => m = n)
          /\ UA_STATUS_MAX \in Nat /\ \A l \in 1..m : rec[l].key = log[n - m + l] /\ rec[l].key # job
      BY <1>2, <2>1, RingFacts, WindowFacts
    <3>2. i \notin (n - m + 1)..n
      <4>. SUFFICES ASSUME i \in (n - m + 1)..n PROVE FALSE
        OBVIOUS
      <4>1. i - (n - m) \in 1..m /\ n - m + (i - (n - m)) = i
        BY <1>2, <3>1
      <4>. QED
        BY <2>4, <3>1, <4>1
    <3>3. n \in Nat /\ i \in 1..n
      BY <1>2
    <3>. HIDE DEF m, n
    <3>4. m = UA_STATUS_MAX /\ i <= n - m
      BY <3>1, <3>2, <3>3
    <3>. QED
      BY <3>1, <3>3, <3>4 DEF n
  <2>5. ASSUME NEW i \in DOMAIN log', NEW j \in DOMAIN log', i < j, log'[i] = log'[j]
        PROVE  j - i > UA_STATUS_MAX
    <3>1. DOMAIN log' = 1..(Len(log) + 1) /\ DOMAIN log = 1..Len(log)
      BY <1>2, <1>3
    <3>2. CASE j \in 1..Len(log)
      <4>1. i \in DOMAIN log /\ j \in DOMAIN log /\ log[i] = log[j]
        BY <1>2, <1>3, <2>5, <3>1, <3>2
      <4>. QED
        BY <1>5, <2>5, <4>1 DEF LogInv, FarApart
    <3>3. CASE j = Len(log) + 1
      <4>1. i \in 1..Len(log) /\ log[i] = job
        BY <1>2, <1>3, <2>5, <3>1, <3>3
      <4>. QED
        BY <2>4, <3>3, <4>1
    <3>. QED
      BY <1>2, <3>1, <3>2, <3>3
  <2>6. FarApart(log)'
    BY <2>5 DEF FarApart
  <2>. QED
    BY <2>2, <2>3, <2>6
<1>. QED
  BY <1>4, <1>5 DEF LogInv, RingIsRecentJobs, PlainPaths

(* A rewrite makes the file the window of all jobs remembered if its       *)
(* rename comes through, and otherwise leaves the window it was.           *)
LEMMA FlushKeepsHistory ==
  ASSUME LogInv, DriverInv', LogFlush
  PROVE  LogInv'
<1>1. /\ pc = "flush" /\ phase' \in {"idle", "rename"} /\ rec' = rec /\ log' = log
      /\ pc' \in {"queue", "flush"} /\ phase \in {"write", "rename"}
      /\ \/ file' = file /\ stored' = stored
         \/ phase = "rename" /\ file' = tmp /\ stored' = log
  BY DEF LogFlush, FlushStep, Flush, WriteTemp, WriteTempFails, Rename, RenameFails, Rewritten,
         BeginTick
<1>2. HistoryOK' /\ JobIsNew'
  BY <1>1 DEF LogInv, HistoryOK, JobIsNew
<1>3. \/ file' = file /\ stored' = stored
      \/ file' = rec /\ stored' = log
  BY <1>1 DEF LogInv, DriverInv, RingInv, TempIsMemory
<1>4. RingIsRecentJobs'
  BY <1>1, <1>3 DEF LogInv, RingIsRecentJobs, IsWindow, PlainPaths
<1>5. PlainPaths' => FarApart(log)' /\ FarApart(stored)'
  BY <1>1, <1>3 DEF LogInv, FarApart, PlainPaths
<1>. QED
  BY <1>2, <1>4, <1>5 DEF LogInv

(* A crash leaves what the file knows of. *)
LEMMA CrashKeepsHistory ==
  ASSUME LogInv, DriverInv', LogCrash
  PROVE  LogInv'
<1>1. /\ phase' = "down" /\ pc' = "down" /\ file' = file /\ stored' = stored
      /\ log' = <<>> /\ rec' = <<>>
  BY DEF LogCrash, Crash, Down
<1>2. HistoryOK' /\ JobIsNew'
  BY <1>1 DEF LogInv, HistoryOK, JobIsNew
<1>3. IsWindow(rec, log)'
  BY <1>1, StatusMaxAssumption DEF IsWindow, Capped
<1>4. RingIsRecentJobs' /\ (PlainPaths' => FarApart(log)' /\ FarApart(stored)')
  BY <1>1, <1>3 DEF LogInv, RingIsRecentJobs, IsWindow, FarApart, PlainPaths
<1>. QED
  BY <1>2, <1>4 DEF LogInv

(* Starting again reads the file: all of it, and with it the history that  *)
(* it stores, or some of its records, which are then all the history.      *)
LEMMA LaunchKeepsHistory ==
  ASSUME LogInv, DriverInv', LogLaunch
  PROVE  LogInv'
<1>. DEFINE Whole == rec' = Loaded(file)
            keys == [i \in DOMAIN rec' |-> rec'[i].key]
<1>1. /\ phase' = "idle" /\ pc' = "queue" /\ file' = file /\ stored' = stored
      /\ log' = IF Whole THEN stored ELSE keys
  BY DEF LogLaunch, Launch, Open, BeginTick
<1>2. PICK n \in 0..Len(Loaded(file)) : rec' = SubSeq(Loaded(file), 1, n)
  BY DEF LogLaunch, Launch, Open
<1>3. /\ file \in Ring /\ rec' \in Ring /\ Loaded(file) \in Ring /\ stored \in Seq(Key)
      /\ Len(rec') = n /\ \A i \in 1..n : rec'[i] = Loaded(file)[i]
  BY <1>2, LoadedProperties, PrefixProperties DEF LogInv, HistoryOK, DriverInv, RingInv
<1>4. keys \in Seq(Key) /\ Len(keys) = Len(rec') /\ \A i \in 1..Len(rec') : keys[i] = rec'[i].key
  <2>1. /\ DOMAIN rec' = 1..Len(rec') /\ Len(rec') \in Nat
        /\ \A i \in 1..Len(rec') : rec'[i].key \in Key
    BY <1>3, RingFacts
  <2>2. keys \in [1..Len(rec') -> Key]
    BY <2>1
  <2>. QED
    BY <2>1, <2>2, FunctionIsSequence
<1>. HIDE DEF Whole, keys
<1>5. HistoryOK' /\ JobIsNew'
  BY <1>1, <1>3, <1>4 DEF HistoryOK, JobIsNew
<1>6. ASSUME PlainPaths
      PROVE  IsWindow(rec, log)' /\ FarApart(log)'
  <2>1. /\ IsWindow(file, stored) /\ FarApart(stored)
    BY <1>6 DEF LogInv, RingIsRecentJobs
  <2>2. /\ Len(Loaded(file)) = Len(file)
        /\ \A i \in 1..Len(file) : Loaded(file)[i].key = file[i].key
    BY <1>3, <1>6, PlainReload
  <2>3. CASE Whole
    <3>1. DOMAIN Loaded(file) = 1..Len(file) /\ DOMAIN file = 1..Len(file)
      BY <1>3, <2>2, RingFacts
    <3>. QED
      BY <1>1, <2>1, <2>2, <2>3, <3>1 DEF IsWindow, FarApart, Whole
  <2>4. CASE ~Whole
    <3>1. /\ log' = keys /\ Len(rec') \in Nat /\ Len(rec') <= UA_STATUS_MAX
          /\ DOMAIN rec' = 1..Len(rec') /\ UA_STATUS_MAX \in Nat
      BY <1>1, <1>3, <2>4, RingFacts
    <3>2. IsWindow(rec, log)'
      BY <1>4, <3>1 DEF IsWindow, Capped
    <3>3. ASSUME NEW i \in DOMAIN log', NEW j \in DOMAIN log', i < j
          PROVE  log'[i] # log'[j]
      <4>1. i \in 1..n /\ j \in 1..n /\ log'[i] = rec'[i].key /\ log'[j] = rec'[j].key
        BY <1>3, <1>4, <3>1
      <4>2. n \in 0..Len(file) /\ Len(file) \in Nat
        BY <1>3, <2>2, RingFacts
      <4>3. i \in 1..Len(file) /\ j \in 1..Len(file)
        BY <4>1, <4>2
      <4>4. file[i].key # file[j].key
        BY <1>3, <2>1, <3>3, <4>3, WindowIsInjective
      <4>. QED
        BY <1>3, <2>2, <4>1, <4>3, <4>4
    <3>. QED
      BY <3>2, <3>3 DEF FarApart
  <2>. QED
    BY <2>3, <2>4
<1>7. ASSUME PlainPaths PROVE IsWindow(file, stored)' /\ FarApart(stored)'
  BY <1>1, <1>7 DEF LogInv, RingIsRecentJobs, IsWindow, FarApart
<1>. QED
  BY <1>5, <1>6, <1>7 DEF LogInv, RingIsRecentJobs, PlainPaths

(* The other steps leave the history alone; a scan that accepts a job has  *)
(* asked the ring about it (ua_status_seen).                               *)
LEMMA RestKeepsHistory ==
  ASSUME LogInv, DriverInv', UNCHANGED <<log, stored, statusVars>>,
         Scan \/ WakeUp \/ Unrecorded \/ User \/ Second \/ UNCHANGED driverVars
  PROVE  LogInv'
<1>1. /\ HistoryOK' /\ RingIsRecentJobs'
      /\ PlainPaths' => FarApart(log)' /\ FarApart(stored)'
  BY DEF LogInv, HistoryOK, RingIsRecentJobs, FarApart, IsWindow, PlainPaths, statusVars
<1>. DEFINE Busy == {"extract", "running", "finished", "record"}
<1>2. \/ pc' \in Busy => pc \in Busy /\ job' = job
      \/ job' \notin KeysOf(rec)
  <2>1. CASE ScanLine
    BY <2>1 DEF ScanLine, Accept, PassOver, IsReady, Seen
  <2>2. CASE ScanFile
    BY <2>2 DEF ScanFile, Accept, PassOver, IsReady, Seen
  <2>3. CASE OpenWatchPaths \/ NothingReady \/ WakeUp
    BY <2>3 DEF OpenWatchPaths, NothingReady, WakeUp, BeginTick
  <2>4. CASE Unrecorded
    BY <2>4 DEF Unrecorded, OpenArchive, EndExtraction, Delete, KeepArchive, jobVars
  <2>5. CASE User \/ Second \/ UNCHANGED driverVars
    BY <2>5 DEF User, Upload, RemoveFile, Second, jobVars, driverVars
  <2>6. CASE OverlookLines \/ OverlookFiles
    BY <2>6 DEF OverlookLines, OverlookFiles, jobVars
  <2>. QED
    BY <2>1, <2>2, <2>3, <2>4, <2>5, <2>6 DEF Scan
<1>3. JobIsNew'
  BY <1>2 DEF LogInv, JobIsNew, statusVars
<1>. QED
  BY <1>1, <1>3 DEF LogInv

-------------------------------------------------------------------------------
(* The invariant, and what it is for. *)

(* Nothing has been recorded yet. *)
LEMMA LogInitInvariant == LogInit => LogInv
<1>. SUFFICES ASSUME LogInit PROVE LogInv
  OBVIOUS
<1>1. /\ rec = <<>> /\ file = <<>> /\ phase = "down" /\ pc = "down" /\ log = <<>> /\ stored = <<>>
  BY DEF LogInit, DriverInit, StatusInit
<1>2. Capped(0) = 0 /\ Len(<<>>) = 0
  BY StatusMaxAssumption DEF Capped
<1>3. DriverInv
  BY DriverInitInvariant DEF LogInit
<1>. QED
  BY <1>1, <1>2, <1>3
  DEF LogInv, HistoryOK, JobIsNew, RingIsRecentJobs, FarApart, IsWindow

(* Every step keeps it. *)
LEMMA LogNextInvariant == LogInv /\ [LogNext]_logVars => LogInv'
<1>. SUFFICES ASSUME LogInv, [LogNext]_logVars PROVE LogInv'
  OBVIOUS
<1>0. DriverInv'
  BY LogStepIsDriverStep, DriverNextInvariant DEF LogInv
<1>1. CASE LogRecord
  BY <1>0, <1>1, RecordKeepsHistory
<1>2. CASE LogFlush
  BY <1>0, <1>2, FlushKeepsHistory
<1>3. CASE LogCrash
  BY <1>0, <1>3, CrashKeepsHistory
<1>4. CASE LogLaunch
  BY <1>0, <1>4, LaunchKeepsHistory
<1>5. CASE LogScan
  <2>1. Scan /\ UNCHANGED <<log, stored, statusVars>>
    BY <1>5 DEF LogScan, Scan, ScanLine, ScanFile, OverlookLines, OverlookFiles, OpenWatchPaths,
              NothingReady
  <2>. QED
    BY <1>0, <2>1, RestKeepsHistory
<1>6. CASE (WakeUp \/ Unrecorded \/ User \/ Second) /\ UNCHANGED <<log, stored, passed>>
  <2>1. UNCHANGED <<log, stored, statusVars>>
    BY <1>6
    DEF WakeUp, Unrecorded, User, Second, OpenArchive, EndExtraction, Delete, KeepArchive, Upload,
        RemoveFile
  <2>. QED
    BY <1>0, <1>6, <2>1, RestKeepsHistory
<1>7. CASE UNCHANGED logVars
  <2>1. UNCHANGED <<log, stored, statusVars>> /\ UNCHANGED driverVars
    BY <1>7 DEF logVars, driverVars
  <2>. QED
    BY <1>0, <2>1, RestKeepsHistory
<1>. QED
  BY <1>1, <1>2, <1>3, <1>4, <1>5, <1>6, <1>7 DEF LogNext

(* The invariant holds throughout every behaviour. *)
THEOREM LogInvariant == LogSpec => []LogInv
BY LogInitInvariant, LogNextInvariant, PTL DEF LogSpec

(* The ring in memory is the most recent of the jobs that the program can  *)
(* remember, in their order, and the file is what was the ring at its last *)
(* completed rewrite; a launch that cannot read the file remembers what it *)
(* has read of it (flush, ua_status_record, ua_status_open).               *)
THEOREM RingHoldsRecentJobs == LogSpec => []RingIsRecentJobs
BY LogInvariant, PTL DEF LogInv

(* A job that the program can remember is not redone, on any poll, after   *)
(* any crash and any restart that reads queue.status, until as many newer  *)
(* ones as the ring holds have been recorded (ua_status_seen).             *)
THEOREM RerunsAreFarApart == LogSpec => []RerunOnlyAfterAgeing
<1>1. LogInv => RerunOnlyAfterAgeing
  BY DEF LogInv, RerunOnlyAfterAgeing
<1>. QED
  BY <1>1, LogInvariant, PTL

(* The history is a history of the driver: every theorem about the driver  *)
(* holds of these behaviours too.                                          *)
THEOREM LogIsDriver == LogSpec => DriverSpec
<1>1. LogInit => DriverInit
  BY DEF LogInit
<1>. QED
  BY <1>1, LogStepIsDriverStep, PTL DEF LogSpec, DriverSpec
-------------------------------------------------------------------------------
(* The words of a line. *)

(* The words that are found step by step. *)
WordSteps(f, text) == /\ f[0] = <<>>
                      /\ \A i \in 1..Len(text) : f[i] = AddWord(f[i - 1], text[i])

(* The last step has them all, and no blank is among them. *)
LEMMA WordsStepByStep ==
  ASSUME NEW W, NEW text \in Seq(W)
  PROVE  \E f : /\ WordSteps(f, text)
                /\ \A i \in 0..Len(text) : f[i] \in Seq(W \ {Blank})
                /\ WordsOf(text) = f[Len(text)]
<1>. DEFINE n == Len(text)
            D == Seq(W \ {Blank})
            step == [q \in (1..n) \X D |-> AddWord(q[2], text[q[1]])]
<1>1. n \in Nat /\ DOMAIN text = 1..n /\ <<>> \in D /\ \A i \in 1..n : text[i] \in W
  OBVIOUS
<1>2. \A d \in D, w \in W : AddWord(d, w) \in D
  BY DEF AddWord
<1>. HIDE DEF D
<1>3. step \in [(1..n) \X D -> D]
  BY <1>1, <1>2
<1>4. \A i \in 1..n, d \in D : step[<<i, d>>] = AddWord(d, text[i])
  OBVIOUS
<1>. HIDE DEF step, n
<1>5. PICK F : GoesLeft(F, n, D, <<>>, step)
  BY <1>1, <1>3, LastFirst
<1>6. ASSUME NEW s \in SUBSET (1..n)
      PROVE  /\ F[s] = IF s = {} THEN <<>> ELSE AddWord(F[s \ {Max(s)}], text[Max(s)])
             /\ F[s] \in D
  <2>1. CASE s = {}
    BY <1>1, <1>5, <2>1 DEF GoesLeft
  <2>2. CASE s # {}
    <3>1. s \in SUBSET (0..n)
      OBVIOUS
    <3>2. Max(s) \in 1..n /\ F[s \ {Max(s)}] \in D /\ F[s] \in D
      BY <1>1, <1>5, <2>2, <3>1, MaxFacts DEF GoesLeft
    <3>3. F[s] = step[<<Max(s), F[s \ {Max(s)}]>>]
      BY <1>5, <2>2 DEF GoesLeft
    <3>. QED
      BY <1>4, <2>2, <3>2, <3>3
  <2>. QED
    BY <2>1, <2>2
<1>7. F = [s \in SUBSET DOMAIN text |->
             IF s = {} THEN <<>> ELSE AddWord(F[s \ {Max(s)}], text[Max(s)])]
  BY <1>1, <1>5, <1>6 DEF GoesLeft
<1>8. PICK G : /\ G = [s \in SUBSET DOMAIN text |->
                         IF s = {} THEN <<>> ELSE AddWord(G[s \ {Max(s)}], text[Max(s)])]
               /\ WordsOf(text) = G[DOMAIN text]
  BY <1>7 DEF WordsOf, FoldLeft, MapThenFoldSet
<1>. DEFINE f == [i \in 0..n |-> G[1..i]]
<1>9. f[0] = <<>> /\ WordsOf(text) = f[n]
  BY <1>1, <1>8
<1>10. ASSUME NEW i \in 1..n PROVE f[i] = AddWord(f[i - 1], text[i])
  <2>1. 1..i \in SUBSET (1..n) /\ 1..i # {} /\ Max(1..i) = i /\ (1..i) \ {i} = 1..(i - 1)
    BY <1>1, Unrolled
  <2>2. G[1..i] = AddWord(G[1..(i - 1)], text[i])
    BY <1>1, <1>8, <2>1
  <2>. QED
    BY <1>1, <2>2
<1>. HIDE DEF f
<1>11. \A i \in 0..n : f[i] \in D
  <2>. DEFINE Bad == {i \in 0..n : f[i] \notin D}
  <2>. SUFFICES ASSUME Bad # {} PROVE FALSE
    OBVIOUS
  <2>1. Bad \in SUBSET Nat
    BY <1>1
  <2>. HIDE DEF Bad
  <2>2. PICK i \in Bad : \A j \in Bad : i <= j
    BY <2>1, LeastNumber
  <2>. USE DEF Bad
  <2>3. i # 0
    BY <1>1, <1>9, <2>2
  <2>4. i \in 1..n /\ i - 1 \in 0..n /\ f[i - 1] \in D
    BY <1>1, <2>2, <2>3
  <2>. QED
    BY <1>1, <1>2, <1>10, <2>2, <2>4
<1>12. WordSteps(f, text) /\ WordsOf(text) = f[Len(text)]
       /\ \A i \in 0..Len(text) : f[i] \in Seq(W \ {Blank})
  BY <1>9, <1>10, <1>11 DEF WordSteps, n, D
<1>. QED
  BY <1>12

(* So no word is one that the line does not have. *)
LEMMA WordsAreWords ==
  ASSUME NEW W, NEW text \in Seq(W)
  PROVE  WordsOf(text) \in Seq(W \ {Blank})
<1>1. Len(text) \in 0..Len(text)
  OBVIOUS
<1>. QED
  BY <1>1, WordsStepByStep

(* A text of blanks has none. *)
LEMMA NoWords ==
  ASSUME NEW W, NEW text \in Seq(W), \A i \in 1..Len(text) : text[i] = Blank
  PROVE  WordsOf(text) = <<>>
<1>. DEFINE n == Len(text)
<1>1. n \in Nat
  OBVIOUS
<1>2. PICK f : WordSteps(f, text) /\ WordsOf(text) = f[n]
  BY WordsStepByStep
<1>. DEFINE Bad == {i \in 0..n : f[i] # <<>>}
<1>. SUFFICES ASSUME Bad # {} PROVE FALSE
  BY <1>1, <1>2
<1>3. Bad \in SUBSET Nat
  BY <1>1
<1>. HIDE DEF Bad
<1>4. PICK i \in Bad : \A j \in Bad : i <= j
  BY <1>3, LeastNumber
<1>. USE DEF Bad
<1>5. i # 0
  BY <1>2, <1>4 DEF WordSteps
<1>6. i \in 1..n /\ i - 1 \in 0..n /\ f[i - 1] = <<>>
  BY <1>1, <1>4, <1>5
<1>7. f[i] = AddWord(f[i - 1], text[i])
  BY <1>2, <1>6 DEF WordSteps
<1>. QED
  BY <1>4, <1>6, <1>7 DEF AddWord

(* One more. *)
LEMMA WordsAfterAppend ==
  ASSUME NEW W, NEW text \in Seq(W), NEW w \in W
  PROVE  WordsOf(Append(text, w)) = AddWord(WordsOf(text), w)
<1>. DEFINE n == Len(text)
            more == Append(text, w)
<1>1. n \in Nat /\ more \in Seq(W) /\ Len(more) = n + 1 /\ more[n + 1] = w
      /\ \A i \in 1..n : more[i] = text[i]
  OBVIOUS
<1>. HIDE DEF more
<1>2. PICK f : WordSteps(f, text) /\ WordsOf(text) = f[n]
  BY WordsStepByStep
<1>3. PICK g : WordSteps(g, more) /\ WordsOf(more) = g[Len(more)]
  BY <1>1, WordsStepByStep
<1>4. \A i \in 0..n : f[i] = g[i]
  <2>. DEFINE Bad == {i \in 0..n : f[i] # g[i]}
  <2>. SUFFICES ASSUME Bad # {} PROVE FALSE
    OBVIOUS
  <2>1. Bad \in SUBSET Nat
    BY <1>1
  <2>. HIDE DEF Bad
  <2>2. PICK i \in Bad : \A j \in Bad : i <= j
    BY <2>1, LeastNumber
  <2>. USE DEF Bad
  <2>3. i # 0
    BY <1>2, <1>3, <2>2 DEF WordSteps
  <2>4. i \in 1..n /\ i - 1 \in 0..n /\ f[i - 1] = g[i - 1]
    BY <1>1, <2>2, <2>3
  <2>5. i \in 1..Len(more)
    BY <1>1, <2>4
  <2>6. f[i] = AddWord(f[i - 1], text[i]) /\ g[i] = AddWord(g[i - 1], more[i])
    BY <1>2, <1>3, <2>4, <2>5 DEF WordSteps
  <2>. QED
    BY <1>1, <2>2, <2>4, <2>6
<1>5. g[n + 1] = AddWord(g[n], w)
  <2>1. n + 1 \in 1..Len(more) /\ (n + 1) - 1 = n
    BY <1>1
  <2>. QED
    BY <1>1, <1>3, <2>1 DEF WordSteps
<1>. QED
  BY <1>1, <1>2, <1>3, <1>4, <1>5 DEF more

(* No line, no words. *)
LEMMA WordsOfNothing == WordsOf(<<>>) = <<>>
<1>1. <<>> \in Seq(Word) /\ \A i \in 1..Len(<<>>) : <<>>[i] = Blank
  OBVIOUS
<1>. QED
  BY <1>1, NoWords

(* Two texts, one after the other. *)
LEMMA BothFacts ==
  ASSUME NEW W, NEW s \in Seq(W), NEW t \in Seq(W)
  PROVE  /\ s \o t \in Seq(W) /\ Len(s \o t) = Len(s) + Len(t)
         /\ Len(s) \in Nat /\ Len(t) \in Nat
         /\ \A i \in 1..Len(s) : (s \o t)[i] = s[i]
         /\ \A i \in 1..Len(t) : (s \o t)[Len(s) + i] = t[i]
OBVIOUS

(* Or many more. *)
LEMMA WordsOfBoth ==
  ASSUME NEW W, NEW s \in Seq(W), NEW t \in Seq(W)
  PROVE  WordsOf(s \o t) = WordsOf(s) \o WordsOf(t)
<1>. DEFINE n == Len(t)
            part(i) == SubSeq(t, 1, i)
            Good(i) == WordsOf(s \o part(i)) = WordsOf(s) \o WordsOf(part(i))
            Bad == {i \in 0..n : ~Good(i)}
<1>1. /\ n \in Nat /\ n \in 0..n /\ part(n) = t /\ part(0) = <<>>
      /\ \A i \in 0..n : part(i) \in Seq(W)
      /\ \A i \in 1..n : i - 1 \in 0..n /\ t[i] \in W /\ part(i) = Append(part(i - 1), t[i])
  OBVIOUS
<1>. SUFFICES ASSUME Bad # {} PROVE FALSE
  <2>. SUFFICES Good(n)
    BY <1>1
  <2>. HIDE DEF Good
  <2>. QED
    BY <1>1
<1>2. Bad \in SUBSET Nat
  BY <1>1
<1>. HIDE DEF Bad, part, n
<1>3. PICK i \in Bad : \A j \in Bad : i <= j
  BY <1>2, LeastNumber
<1>4. /\ WordsOf(s) \in Seq(W) /\ \A j \in 0..n : WordsOf(part(j)) \in Seq(W)
  <2>1. ASSUME NEW u \in Seq(W) PROVE WordsOf(u) \in Seq(W)
    <3>1. WordsOf(u) \in Seq(W \ {Blank})
      BY WordsAreWords
    <3>. QED
      BY <3>1
  <2>. QED
    BY <1>1, <2>1
<1>5. i # 0
  <2>1. s \o <<>> = s /\ WordsOf(s) \o <<>> = WordsOf(s)
    BY <1>4
  <2>2. Good(0)
    BY <1>1, <2>1, WordsOfNothing
  <2>. QED
    BY <1>3, <2>2 DEF Bad
<1>6. i \in 1..n /\ i - 1 \in 0..n /\ i - 1 \notin Bad
  <2>1. i \in 0..n /\ n \in Nat
    BY <1>1, <1>3 DEF Bad
  <2>2. i - 1 \in Bad => i <= i - 1
    BY <1>3
  <2>. QED
    BY <1>5, <2>1, <2>2
<1>7. Good(i - 1)
  BY <1>6 DEF Bad
<1>. DEFINE r == part(i - 1)
<1>8. r \in Seq(W) /\ WordsOf(r) \in Seq(W) /\ t[i] \in W /\ part(i) = Append(r, t[i])
  BY <1>1, <1>4, <1>6
<1>9. WordsOf(s \o r) = WordsOf(s) \o WordsOf(r)
  BY <1>7
<1>. HIDE DEF r
<1>10. s \o r \in Seq(W) /\ s \o part(i) = Append(s \o r, t[i])
  BY <1>8
<1>11. /\ WordsOf(s \o part(i)) = AddWord(WordsOf(s \o r), t[i])
       /\ WordsOf(part(i)) = AddWord(WordsOf(r), t[i])
  BY <1>8, <1>10, WordsAfterAppend
<1>12. AddWord(WordsOf(s) \o WordsOf(r), t[i]) = WordsOf(s) \o AddWord(WordsOf(r), t[i])
  <2>. DEFINE x == WordsOf(s)
              y == WordsOf(r)
              w == t[i]
              lhs == Append(x \o y, w)
              rhs == x \o Append(y, w)
  <2>1. x \in Seq(W) /\ y \in Seq(W) /\ w \in W
    BY <1>4, <1>8
  <2>. HIDE DEF x, y, w
  <2>2. /\ lhs \in Seq(W) /\ Len(lhs) = Len(x) + Len(y) + 1
        /\ rhs \in Seq(W) /\ Len(rhs) = Len(x) + Len(y) + 1
    BY <2>1
  <2>3. ASSUME NEW j \in 1..(Len(x) + Len(y) + 1) PROVE lhs[j] = rhs[j]
    BY <2>1
  <2>. HIDE DEF lhs, rhs
  <2>4. lhs = [j \in 1..Len(lhs) |-> lhs[j]] /\ rhs = [j \in 1..Len(rhs) |-> rhs[j]]
    BY <2>2
  <2>5. lhs = rhs
    BY <2>2, <2>3, <2>4
  <2>. QED
    BY <2>5 DEF AddWord, lhs, rhs, x, y, w
<1>13. Good(i)
  BY <1>9, <1>11, <1>12
<1>. QED
  BY <1>3, <1>13 DEF Bad

(* A single word. *)
LEMMA WordsOfOne ==
  ASSUME NEW w
  PROVE  WordsOf(<<w>>) = (IF w = Blank THEN <<>> ELSE <<w>>)
<1>1. <<>> \in Seq({w}) /\ Append(<<>>, w) = <<w>> /\ w \in {w}
  OBVIOUS
<1>2. WordsOf(<<w>>) = AddWord(<<>>, w)
  BY <1>1, WordsOfNothing, WordsAfterAppend
<1>. QED
  BY <1>1, <1>2 DEF AddWord

(* The least of some numbers. *)
LEMMA MinFacts ==
  ASSUME NEW T \in SUBSET Nat, T # {}
  PROVE  Min(T) \in T /\ \A y \in T : Min(T) <= y
BY LeastNumber DEF Min

-------------------------------------------------------------------------------
(* What is left of a line without the blanks around it. *)

(* Nothing of a text of blanks; of any other, what is from its first solid *)
(* word to its last, and the words are the same.                           *)
LEMMA TrimFacts ==
  ASSUME NEW W, NEW text \in Seq(W)
  PROVE  /\ WordsOf(Trim(text)) = WordsOf(text)
         /\ Trim(text) \in Seq(W)
         /\ Trim(text) # <<>> => /\ Trim(text)[1] # Blank
                                /\ Trim(text)[Len(Trim(text))] # Blank
<1>. DEFINE n == Len(text)
            solid == {i \in 1..n : text[i] # Blank}
<1>1. n \in Nat /\ solid \in SUBSET Nat /\ solid \in SUBSET (0..n)
      /\ solid = DOMAIN text \ Where(text, {Blank})
  BY DEF Where
<1>2. Trim(text) = IF solid = {} THEN <<>> ELSE SubSeq(text, Min(solid), Max(solid))
  BY <1>1 DEF Trim
<1>3. CASE solid = {}
  <2>1. \A i \in 1..Len(text) : text[i] = Blank
    BY <1>3
  <2>2. Trim(text) = <<>>
    BY <1>2, <1>3
  <2>3. <<>> \in Seq(W)
    OBVIOUS
  <2>. QED
    BY <2>1, <2>2, <2>3, NoWords, WordsOfNothing
<1>4. CASE solid # {}
  <2>. DEFINE lo == Min(solid)
              hi == Max(solid)
              pre == SubSeq(text, 1, lo - 1)
              mid == SubSeq(text, lo, hi)
              post == SubSeq(text, hi + 1, n)
  <2>1. /\ lo \in solid /\ \A i \in solid : lo <= i
        /\ hi \in solid /\ \A i \in solid : i <= hi
    BY <1>1, <1>4, MinFacts, MaxFacts
  <2>. HIDE DEF lo, hi
  <2>2. lo \in 1..n /\ hi \in 1..n /\ lo <= hi /\ text[lo] # Blank /\ text[hi] # Blank
    BY <2>1
  <2>3. /\ pre \in Seq(W) /\ mid \in Seq(W) /\ post \in Seq(W)
        /\ Len(pre) = lo - 1 /\ \A i \in 1..(lo - 1) : pre[i] = text[i]
        /\ Len(mid) = hi - lo + 1 /\ \A i \in 1..(hi - lo + 1) : mid[i] = text[lo + i - 1]
        /\ Len(post) = n - hi /\ \A i \in 1..(n - hi) : post[i] = text[hi + i]
    BY <2>2
  <2>4. text = (pre \o mid) \o post
    <3>. HIDE DEF pre, mid, post, n
    <3>. DEFINE u == pre \o mid
                all == u \o post
    <3>1. u \in Seq(W) /\ Len(u) = hi /\ \A i \in 1..hi : u[i] = text[i]
      <4>1. /\ u \in Seq(W) /\ Len(u) = Len(pre) + Len(mid)
            /\ \A i \in 1..Len(pre) : u[i] = pre[i]
            /\ \A i \in 1..Len(mid) : u[Len(pre) + i] = mid[i]
        <5>1. pre \in Seq(W) /\ mid \in Seq(W)
          BY <2>3
        <5>. QED
          BY <5>1, BothFacts
      <4>2. ASSUME NEW i \in 1..hi PROVE u[i] = text[i]
        <5>1. CASE i <= lo - 1
          BY <1>1, <2>2, <2>3, <4>1, <5>1
        <5>2. CASE ~(i <= lo - 1)
          <6>1. /\ i - (lo - 1) \in 1..(hi - lo + 1) /\ lo + (i - (lo - 1)) - 1 = i
                /\ (lo - 1) + (i - (lo - 1)) = i
            BY <1>1, <2>2, <5>2
          <6>2. u[i] = mid[i - (lo - 1)]
            BY <2>3, <4>1, <6>1
          <6>. QED
            BY <2>3, <6>1, <6>2
        <5>. QED
          BY <5>1, <5>2
      <4>. QED
        <5>1. (lo - 1) + (hi - lo + 1) = hi
          BY <1>1, <2>2
        <5>. QED
          BY <2>3, <4>1, <4>2, <5>1
    <3>. HIDE DEF u
    <3>2. /\ all \in Seq(W) /\ Len(all) = n
          /\ \A i \in 1..hi : all[i] = u[i]
          /\ \A i \in 1..(n - hi) : all[hi + i] = post[i]
      <4>1. hi + (n - hi) = n
        BY <1>1, <2>2
      <4>. QED
        <5>1. u \in Seq(W) /\ post \in Seq(W)
          BY <2>3, <3>1
        <5>2. /\ all \in Seq(W) /\ Len(all) = Len(u) + Len(post)
              /\ \A i \in 1..Len(u) : all[i] = u[i]
              /\ \A i \in 1..Len(post) : all[Len(u) + i] = post[i]
          BY <5>1, BothFacts
        <5>. HIDE DEF all
        <5>. QED
          BY <2>3, <3>1, <4>1, <5>2
    <3>3. ASSUME NEW i \in 1..n PROVE all[i] = text[i]
      <4>1. CASE i <= hi
        <5>1. i \in 1..hi
          BY <1>1, <2>2, <4>1
        <5>. QED
          BY <3>1, <3>2, <5>1
      <4>2. CASE ~(i <= hi)
        <5>1. i - hi \in 1..(n - hi) /\ hi + (i - hi) = i
          BY <1>1, <2>2, <4>2
        <5>2. all[i] = post[i - hi]
          BY <3>2, <5>1
        <5>. QED
          BY <2>3, <5>1, <5>2
      <4>. QED
        BY <4>1, <4>2
    <3>. HIDE DEF all
    <3>4. all = [i \in 1..n |-> all[i]] /\ text = [i \in 1..n |-> text[i]]
      BY <3>2 DEF n
    <3>. QED
      BY <3>3, <3>4 DEF all, u
  <2>. HIDE DEF pre, mid, post
  <2>5. \A i \in 1..Len(pre) : pre[i] = Blank
    <3>1. \A i \in 1..(lo - 1) : i \notin solid /\ i \in 1..n
      BY <1>1, <2>1, <2>2
    <3>. QED
      BY <2>3, <3>1
  <2>6. \A i \in 1..Len(post) : post[i] = Blank
    <3>1. \A i \in 1..(n - hi) : hi + i \notin solid /\ hi + i \in 1..n
      BY <1>1, <2>1, <2>2
    <3>. QED
      BY <2>3, <3>1
  <2>7. WordsOf(pre) = <<>> /\ WordsOf(post) = <<>>
    BY <2>3, <2>5, <2>6, NoWords
  <2>8. WordsOf(text) = WordsOf(mid)
    <3>1. pre \o mid \in Seq(W)
      BY <2>3
    <3>2. /\ WordsOf(text) = WordsOf(pre \o mid) \o WordsOf(post)
          /\ WordsOf(pre \o mid) = WordsOf(pre) \o WordsOf(mid)
      BY <2>3, <2>4, <3>1, WordsOfBoth
    <3>3. WordsOf(mid) \in Seq(W \ {Blank})
      BY <2>3, WordsAreWords
    <3>. QED
      BY <2>7, <3>2, <3>3
  <2>9. Trim(text) = mid
    BY <1>2, <1>4 DEF lo, hi, mid
  <2>10. mid[1] # Blank /\ mid[Len(mid)] # Blank
    <3>1. 1 \in 1..(hi - lo + 1) /\ hi - lo + 1 \in 1..(hi - lo + 1)
          /\ lo + 1 - 1 = lo /\ lo + (hi - lo + 1) - 1 = hi
      BY <1>1, <2>2
    <3>. QED
      BY <2>2, <2>3, <3>1
  <2>. QED
    BY <2>3, <2>8, <2>9, <2>10
<1>. QED
  BY <1>3, <1>4

(* So a line has words just if something of it is left, and its first word *)
(* is the first of what is left.                                           *)
LEMMA FirstWord ==
  ASSUME NEW W, NEW text \in Seq(W)
  PROVE  /\ Trim(text) = <<>> <=> WordsOf(text) = <<>>
         /\ Trim(text) # <<>> => WordsOf(text)[1] = Head(Trim(text))
<1>. DEFINE t == Trim(text)
<1>1. t \in Seq(W) /\ WordsOf(t) = WordsOf(text) /\ (t # <<>> => t[1] # Blank)
  BY TrimFacts
<1>. HIDE DEF t
<1>2. CASE t = <<>>
  BY <1>1, <1>2, WordsOfNothing DEF t
<1>3. CASE t # <<>>
  <2>. DEFINE rest == Tail(t)
  <2>1. t[1] \in W /\ rest \in Seq(W) /\ t = <<t[1]>> \o rest /\ Head(t) = t[1]
        /\ <<t[1]>> \in Seq(W)
    BY <1>1, <1>3
  <2>. HIDE DEF rest
  <2>2. WordsOf(t) = <<t[1]>> \o WordsOf(rest)
    <3>1. WordsOf(<<t[1]>>) = <<t[1]>>
      BY <1>1, <1>3, WordsOfOne
    <3>. QED
      BY <2>1, <3>1, WordsOfBoth
  <2>3. WordsOf(rest) \in Seq(W \ {Blank})
    BY <2>1, WordsAreWords
  <2>4. WordsOf(t) # <<>> /\ WordsOf(t)[1] = t[1]
    BY <2>2, <2>3
  <2>. QED
    BY <1>1, <1>3, <2>1, <2>4 DEF t
<1>. QED
  BY <1>2, <1>3

(* What is left is a single word just if there is no other.                *)
LEMMA SingleWord ==
  ASSUME NEW W, NEW text \in Seq(W), NEW p, p # Blank
  PROVE  Trim(text) = <<p>> <=> WordsOf(text) = <<p>>
<1>. DEFINE t == Trim(text)
<1>1. t \in Seq(W) /\ WordsOf(t) = WordsOf(text)
      /\ (t # <<>> => t[1] # Blank /\ t[Len(t)] # Blank)
  BY TrimFacts
<1>2. (t = <<>> <=> WordsOf(text) = <<>>) /\ (t # <<>> => WordsOf(text)[1] = Head(t))
  BY FirstWord
<1>. HIDE DEF t
<1>3. t = <<p>> => WordsOf(text) = <<p>>
  BY <1>1, WordsOfOne
<1>4. ASSUME WordsOf(text) = <<p>> PROVE t = <<p>>
  <2>1. t # <<>> /\ Len(t) \in Nat /\ Len(t) # 0 /\ t[1] = p
    BY <1>1, <1>2, <1>4
  <2>2. CASE Len(t) = 1
    BY <1>1, <2>1, <2>2
  <2>3. CASE Len(t) > 1
    <3>. DEFINE n == Len(t)
                mid == SubSeq(t, 2, n - 1)
                x == <<t[1]>>
                y == <<t[n]>>
    <3>1. x \in Seq(W) /\ y \in Seq(W) /\ mid \in Seq(W) /\ t = (x \o mid) \o y
      BY <1>1, <2>1, <2>3
    <3>2. WordsOf(x) = x /\ WordsOf(y) = y
      BY <1>1, <2>1, WordsOfOne
    <3>. HIDE DEF mid
    <3>3. x \o mid \in Seq(W)
      BY <3>1
    <3>. HIDE DEF x, y
    <3>4. WordsOf(t) = WordsOf(x \o mid) \o WordsOf(y) /\ WordsOf(x \o mid) = WordsOf(x) \o WordsOf(mid)
      BY <3>1, <3>3, WordsOfBoth
    <3>5. WordsOf(mid) \in Seq(W \ {Blank})
      BY <3>1, WordsAreWords
    <3>6. Len(WordsOf(t)) > 1
      <4>. DEFINE m == WordsOf(mid)
      <4>1. m \in Seq(W) /\ x \in Seq(W) /\ y \in Seq(W) /\ Len(x) = 1 /\ Len(y) = 1
        BY <3>1, <3>5 DEF x, y
      <4>2. WordsOf(t) = (x \o m) \o y
        BY <3>2, <3>4
      <4>. HIDE DEF m
      <4>3. x \o m \in Seq(W) /\ Len(x \o m) = 1 + Len(m) /\ Len(m) \in Nat
        <5>1. m \in Seq(W) /\ x \in Seq(W)
          BY <4>1
        <5>2. x \o m \in Seq(W) /\ Len(x \o m) = Len(x) + Len(m) /\ Len(m) \in Nat
          BY <5>1, BothFacts
        <5>. QED
          BY <4>1, <5>2
      <4>4. Len(WordsOf(t)) = 1 + Len(m) + 1
        BY <4>1, <4>2, <4>3, BothFacts
      <4>. QED
        BY <4>3, <4>4
    <3>. QED
      BY <1>1, <1>4, <3>6
  <2>. QED
    BY <2>1, <2>2, <2>3
<1>. QED
  BY <1>3, <1>4 DEF t

(* A line names an archive just if its words do, and the destination that  *)
(* it gives has the words from the third on (ua_queue_parse_line).         *)
LEMMA ParseFacts ==
  ASSUME NEW text \in Seq(Word), NEW p \in Path
  PROVE  /\ ParseLine(text).archive = <<p>> <=> Orders(WordsOf(text), p)
         /\ ParseLine(text).archive = <<p>> =>
              WordsOf(ParseLine(text).dest) = SubSeq(WordsOf(text), 3, Len(WordsOf(text)))
<1>. DEFINE w == WordsOf(text)
            line == ParseLine(text)
            arrows == Where(text, {Arrow})
<1>1. p # Blank /\ p # Arrow /\ p # Hash
  BY DriverAssumption
<1>2. w \in Seq(Word \ {Blank})
  BY WordsAreWords
<1>3. /\ Trim(text) = <<>> <=> w = <<>>
      /\ Trim(text) # <<>> => w[1] = Head(Trim(text))
      /\ Trim(text) = <<p>> <=> w = <<p>>
  BY <1>1, FirstWord, SingleWord
<1>. HIDE DEF w
<1>4. CASE NothingHere(text)
  <2>1. line = NoJobHere
    BY <1>4 DEF ParseLine
  <2>2. w = <<>> \/ w[1] = Hash
    BY <1>3, <1>4 DEF NothingHere
  <2>3. ~Orders(w, p)
    <3>1. w # <<p>>
      <4>1. <<p>> # <<>> /\ <<p>>[1] = p
        OBVIOUS
      <4>. QED
        BY <1>1, <2>2, <4>1
    <3>2. ~(Len(w) > 2 /\ w[1] = p)
      BY <1>1, <2>2
    <3>. QED
      BY <3>1, <3>2 DEF Orders
  <2>4. line.archive # <<p>>
    <3>1. NoJobHere.archive = <<>> /\ <<>> # <<p>>
      BY DEF NoJobHere
    <3>. QED
      BY <2>1, <3>1
  <2>. QED
    BY <2>3, <2>4 DEF w
<1>5. CASE ~NothingHere(text) /\ arrows = {}
  <2>1. line = [archive |-> Trim(text), dest |-> <<>>]
    BY <1>5 DEF ParseLine
  <2>2. text \in Seq(Word \ {Arrow})
    <3>1. Len(text) \in Nat /\ text = [i \in 1..Len(text) |-> text[i]]
          /\ \A i \in 1..Len(text) : text[i] \in Word \ {Arrow}
      BY <1>5 DEF Where
    <3>. QED
      BY <3>1
  <2>3. w \in Seq((Word \ {Arrow}) \ {Blank})
    BY <2>2, WordsAreWords DEF w
  <2>4. Orders(w, p) <=> w = <<p>>
    <3>1. Len(w) > 2 => w[2] # Arrow
      BY <2>3
    <3>. QED
      BY <3>1 DEF Orders
  <2>5. w = <<p>> => SubSeq(w, 3, Len(w)) = <<>>
    OBVIOUS
  <2>6. line.archive = Trim(text) /\ line.dest = <<>>
    BY <2>1
  <2>. HIDE DEF line
  <2>7. line.archive = <<p>> <=> Orders(w, p)
    BY <1>3, <2>4, <2>6
  <2>8. line.archive = <<p>> => WordsOf(line.dest) = SubSeq(w, 3, Len(w))
    BY <2>4, <2>5, <2>6, <2>7, WordsOfNothing
  <2>. QED
    BY <2>7, <2>8 DEF w, line
<1>6. CASE ~NothingHere(text) /\ arrows # {}
  <2>. DEFINE k == Min(arrows)
              pre == SubSeq(text, 1, k - 1)
              post == SubSeq(text, k + 1, Len(text))
              a == WordsOf(pre)
              b == WordsOf(post)
  <2>1. k \in 1..Len(text) /\ text[k] = Arrow /\ \A i \in 1..(k - 1) : text[i] # Arrow
    <3>1. arrows \in SUBSET Nat
      BY DEF Where
    <3>2. k \in arrows /\ \A i \in arrows : k <= i
      BY <1>6, <3>1, MinFacts
    <3>. HIDE DEF k
    <3>. QED
      BY <3>2 DEF Where
  <2>. HIDE DEF k
  <2>2. line = Both(Trim(pre), Trim(post))
    BY <1>6 DEF ParseLine, SplitAt, k
  <2>3. pre \in Seq(Word \ {Arrow}) /\ pre \in Seq(Word) /\ post \in Seq(Word)
        /\ <<Arrow>> \in Seq(Word)
    <3>1. Arrow \in Word
      BY WordAssumption
    <3>2. k - 1 \in Nat /\ pre = [i \in 1..(k - 1) |-> text[i]]
          /\ \A i \in 1..(k - 1) : text[i] \in Word \ {Arrow}
      BY <2>1
    <3>3. post \in Seq(Word)
      BY <2>1
    <3>. HIDE DEF pre, post
    <3>4. pre \in [1..(k - 1) -> Word \ {Arrow}] /\ pre \in [1..(k - 1) -> Word]
      BY <3>2
    <3>5. pre \in Seq(Word \ {Arrow})
      BY <3>2, <3>4
    <3>6. pre \in Seq(Word)
      BY <3>2, <3>4
    <3>7. <<Arrow>> \in Seq(Word)
      BY <3>1
    <3>. QED
      BY <3>3, <3>5, <3>6, <3>7
  <2>4. text = (pre \o <<Arrow>>) \o post
    <3>1. /\ Len(pre) = k - 1 /\ \A i \in 1..(k - 1) : pre[i] = text[i]
          /\ Len(post) = Len(text) - k /\ \A i \in 1..(Len(text) - k) : post[i] = text[k + i]
          /\ Len(text) \in Nat /\ Len(<<Arrow>>) = 1 /\ <<Arrow>>[1] = Arrow
      BY <2>1
    <3>. DEFINE mid == <<Arrow>>
                u == pre \o mid
                all == u \o post
    <3>2. mid \in Seq(Word) /\ Len(mid) = 1 /\ mid[1] = text[k]
      BY <2>1, <2>3, <3>1
    <3>. HIDE DEF pre, post, mid
    <3>3. /\ u \in Seq(Word) /\ Len(u) = Len(pre) + Len(mid)
          /\ \A i \in 1..Len(pre) : u[i] = pre[i]
          /\ \A i \in 1..Len(mid) : u[Len(pre) + i] = mid[i]
      <4>1. pre \in Seq(Word) /\ mid \in Seq(Word)
        BY <2>3, <3>2
      <4>. QED
        BY <4>1, BothFacts
    <3>4. Len(u) = k /\ \A i \in 1..k : u[i] = text[i]
      <4>1. Len(u) = k
        BY <2>1, <3>1, <3>2, <3>3
      <4>2. u[k] = text[k]
        <5>1. 1 \in 1..Len(mid) /\ Len(pre) + 1 = k
          BY <2>1, <3>1, <3>2
        <5>. QED
          BY <3>2, <3>3, <5>1
      <4>3. ASSUME NEW i \in 1..k, i # k PROVE u[i] = text[i]
        <5>1. i \in 1..(k - 1)
          BY <2>1, <4>3
        <5>. QED
          BY <3>1, <3>3, <5>1
      <4>. QED
        BY <4>1, <4>2, <4>3
    <3>. HIDE DEF u
    <3>5. /\ all \in Seq(Word) /\ Len(all) = Len(u) + Len(post)
          /\ \A i \in 1..Len(u) : all[i] = u[i]
          /\ \A i \in 1..Len(post) : all[Len(u) + i] = post[i]
      <4>1. u \in Seq(Word) /\ post \in Seq(Word)
        BY <2>3, <3>3
      <4>. QED
        BY <4>1, BothFacts
    <3>. HIDE DEF all
    <3>6. Len(all) = Len(text)
      BY <2>1, <3>1, <3>4, <3>5
    <3>7. ASSUME NEW i \in 1..Len(text) PROVE all[i] = text[i]
      <4>1. CASE i <= k
        <5>1. i \in 1..k
          BY <2>1, <3>1, <4>1
        <5>. QED
          BY <3>4, <3>5, <5>1
      <4>2. CASE ~(i <= k)
        <5>1. i - k \in 1..(Len(text) - k) /\ k + (i - k) = i
          BY <2>1, <3>1, <4>2
        <5>. QED
          BY <3>1, <3>4, <3>5, <5>1
      <4>. QED
        BY <4>1, <4>2
    <3>8. all = [i \in 1..Len(all) |-> all[i]] /\ text = [i \in 1..Len(text) |-> text[i]]
      BY <3>5
    <3>. QED
      BY <3>6, <3>7, <3>8 DEF all, u, mid
  <2>. HIDE DEF pre, post
  <2>5. w = (a \o <<Arrow>>) \o b
    <3>1. pre \o <<Arrow>> \in Seq(Word)
      BY <2>3
    <3>2. WordsOf(<<Arrow>>) = <<Arrow>>
      BY WordsOfOne, Zenon DEF Blank, Arrow
    <3>3. /\ WordsOf((pre \o <<Arrow>>) \o post) = WordsOf(pre \o <<Arrow>>) \o b
          /\ WordsOf(pre \o <<Arrow>>) = a \o WordsOf(<<Arrow>>)
      BY <2>3, <3>1, WordsOfBoth
    <3>. QED
      BY <2>4, <3>2, <3>3 DEF w
  <2>6. a \in Seq((Word \ {Arrow}) \ {Blank}) /\ b \in Seq(Word \ {Blank})
    BY <2>3, WordsAreWords
  <2>7. /\ Trim(pre) = <<p>> <=> a = <<p>>
        /\ Trim(pre) = <<>> <=> a = <<>>
        /\ Trim(post) = <<>> <=> b = <<>>
        /\ WordsOf(Trim(post)) = b
    BY <1>1, <2>3, FirstWord, SingleWord, TrimFacts
  <2>. HIDE DEF a, b
  <2>8. line.archive = <<p>> <=> a = <<p>> /\ b # <<>>
    <3>. DEFINE x == Trim(pre)
                y == Trim(post)
    <3>1. /\ x = <<p>> <=> a = <<p>>
          /\ x = <<>> <=> a = <<>>
          /\ y = <<>> <=> b = <<>>
          /\ line = Both(x, y)
      BY <2>2, <2>7
    <3>. HIDE DEF x, y, line
    <3>2. CASE x = <<>> \/ y = <<>>
      <4>1. line = NoJobHere
        BY <3>1, <3>2 DEF Both
      <4>2. line.archive = <<>> /\ <<>> # <<p>>
        BY <4>1 DEF NoJobHere
      <4>. QED
        BY <3>1, <3>2, <4>2
    <3>3. CASE x # <<>> /\ y # <<>>
      <4>1. line = [archive |-> x, dest |-> y]
        BY <3>1, <3>3 DEF Both
      <4>. QED
        BY <3>1, <3>3, <4>1
    <3>. QED
      BY <3>2, <3>3
  <2>9. /\ Len(a) \in Nat /\ Len(b) \in Nat /\ Len(w) = Len(a) + 1 + Len(b)
        /\ w[Len(a) + 1] = Arrow
        /\ \A i \in 1..Len(a) : w[i] = a[i] /\ a[i] # Arrow
    BY <2>5, <2>6
  <2>10. a = <<p>> /\ b # <<>> => Orders(w, p)
    <3>1. ASSUME a = <<p>>, b # <<>>
          PROVE  Len(w) > 2 /\ w[1] = p /\ w[2] = Arrow
      <4>1. Len(a) = 1 /\ a[1] = p /\ Len(b) # 0
        BY <2>6, <3>1
      <4>. QED
        BY <2>9, <4>1
    <3>. QED
      BY <3>1 DEF Orders
  <2>11. ASSUME Orders(w, p) PROVE a = <<p>> /\ b # <<>>
    <3>1. Len(w) # 0 /\ w[1] = p
      BY <2>11 DEF Orders
    <3>2. Len(a) # 0
      BY <1>1, <2>9, <3>1
    <3>3. Len(w) > 2 /\ w[2] = Arrow
      <4>1. w # <<p>>
        <5>1. Len(w) > 1
          BY <2>9, <3>2
        <5>2. Len(<<p>>) = 1
          OBVIOUS
        <5>. SUFFICES ASSUME w = <<p>> PROVE FALSE
          OBVIOUS
        <5>3. Len(w) = 1
          BY <5>2
        <5>. HIDE DEF w
        <5>. QED
          BY <5>1, <5>3
      <4>. QED
        BY <2>11, <4>1 DEF Orders
    <3>4. Len(a) = 1
      <4>1. Len(a) > 1 => 2 \in 1..Len(a) /\ w[2] = a[2] /\ a[2] # Arrow
        BY <2>9
      <4>. QED
        <5>1. \A n \in Nat : n # 0 /\ ~(n > 1) => n = 1
          OBVIOUS
        <5>. QED
          BY <2>9, <3>2, <3>3, <4>1, <5>1
    <3>5. a[1] = p
      BY <2>9, <3>1, <3>4
    <3>. QED
      BY <2>6, <2>9, <3>3, <3>4, <3>5
  <2>12. ASSUME a = <<p>>, b # <<>>
         PROVE  WordsOf(line.dest) = SubSeq(w, 3, Len(w))
    <3>1. line.dest = Trim(post)
      BY <2>2, <2>7, <2>12 DEF Both
    <3>2. b = SubSeq((<<p>> \o <<Arrow>>) \o b, 3, Len((<<p>> \o <<Arrow>>) \o b))
      BY <2>6
    <3>. QED
      BY <2>5, <2>7, <2>12, <3>1, <3>2
  <2>. QED
    BY <2>8, <2>10, <2>11, <2>12 DEF w
<1>. QED
  BY <1>4, <1>5, <1>6

-------------------------------------------------------------------------------
(* Where a job goes: what the tick knows of the lines it is past. *)

(* The file at p cannot become the job before it changes: it is no         *)
(* archive, or one that is recorded.                                       *)
Unready(p) == /\ cand[p] # NoCandidate
              /\ cand[p].is_archive \in {"no", "unread"} \/ Seen(KeyOf(p, cand[p].stamp))

(* Of the lines that this tick is past, each was not ready or overlooked or *)
(* names a file that cannot become the job where it is looked at again: a  *)
(* version that comes now has yet to settle.                               *)
ScanOK ==
  Wait > 0 =>
    /\ pc = "watch" => unread = {}
    /\ \A i \in Asked \ unread :
         pc = "queue" \/ (pc = "watch" /\ Ask(i) \in todo)
           => Ask(i) \in passed \/ Unready(Ask(i))

(* A look at a settled file: it is the version that the table has, and the *)
(* look finds out what it is or knows it already (observe).                *)
LEMMA SettledLook ==
  ASSUME DriverTyped, Wait > 0, NEW p \in Path, NEW v \in {"yes", "no", "unread"}, fs[p] # Absent
  PROVE  /\ Sniffed(p, v).stamp = fs[p]
         /\ Sniffed(p, v) # NoCandidate
         /\ Settled(Sniffed(p, v)) <=> Settled(Compared(p))
         /\ Settled(Compared(p)) =>
              /\ cand[p] # NoCandidate /\ cand[p].stamp = fs[p] /\ HasSlot(p)
              /\ Sniffed(p, v).is_archive \in {"yes", "no", "unread"}
              /\ cand[p].is_archive # "unsniffed" => Sniffed(p, v).is_archive = cand[p].is_archive
<1>. DEFINE c == Compared(p)
<1>1. /\ fs[p] \in Stamp /\ Wait \in Nat
      /\ cand[p] \in Candidate \/ cand[p] = NoCandidate
      /\ NoCandidate.stamp = Absent
  BY DriverConstants DEF DriverTyped, NoCandidate
<1>2. /\ c \in Candidate /\ c.stamp = fs[p]
      /\ \/ c.age = 0
         \/ cand[p] \in Candidate /\ cand[p].stamp = fs[p] /\ c.is_archive = cand[p].is_archive
  <2>1. CASE cand[p].stamp = fs[p]
    <3>1. cand[p] \in Candidate
      BY <1>1, <2>1
    <3>2. c = [cand[p] EXCEPT !.touched = TRUE]
      BY <2>1 DEF Compared
    <3>. HIDE DEF c
    <3>. QED
      BY <2>1, <3>1, <3>2, MarkedCandidate DEF SameButTouched
  <2>2. CASE cand[p].stamp # fs[p]
    BY <1>1, <2>2 DEF Compared, Candidate
  <2>. QED
    BY <2>1, <2>2
<1>. HIDE DEF c
<1>3. Settled(c) => /\ cand[p] \in Candidate /\ cand[p].stamp = fs[p]
                    /\ c.is_archive = cand[p].is_archive
  BY <1>1, <1>2 DEF Settled
<1>4. Settled(c) => HasSlot(p) /\ cand[p] # NoCandidate
  BY <1>3, CandidateFields DEF HasSlot
<1>5. c.is_archive \in {"unsniffed", "yes", "no", "unread"}
  BY <1>2, CandidateFields
<1>6. CASE SniffDue(p)
  <2>1. Sniffed(p, v) = [c EXCEPT !.is_archive = v]
    BY <1>6 DEF Sniffed, c
  <2>2. /\ Sniffed(p, v) \in Candidate /\ Sniffed(p, v).stamp = c.stamp
        /\ Sniffed(p, v).age = c.age /\ Sniffed(p, v).is_archive = v
    <3>1. c \in Candidate
      BY <1>2
    <3>2. /\ [c EXCEPT !.is_archive = v] \in Candidate
          /\ [c EXCEPT !.is_archive = v].stamp = c.stamp
          /\ [c EXCEPT !.is_archive = v].age = c.age
          /\ [c EXCEPT !.is_archive = v].is_archive = v
      BY <2>1, <3>1, JudgedCandidate
    <3>. QED
      BY <2>1, <3>2
  <2>3. c.is_archive = "unsniffed"
    BY <1>6 DEF SniffDue, c
  <2>. QED
    BY <1>2, <1>3, <1>4, <2>1, <2>2, <2>3, CandidateFields DEF Settled, c
<1>7. CASE ~SniffDue(p)
  <2>1. Sniffed(p, v) = c
    BY <1>7 DEF Sniffed, c
  <2>2. Settled(c) => c.is_archive # "unsniffed"
    BY <1>4, <1>7 DEF SniffDue, c
  <2>3. c # NoCandidate
    BY <1>2, CandidateFields
  <2>. QED
    BY <1>2, <1>3, <1>4, <1>5, <2>1, <2>2, <2>3 DEF c
<1>. QED
  BY <1>6, <1>7

(* So a file that cannot become the job is not ready when it is looked at  *)
(* again.                                                                  *)
LEMMA UnreadyIsNotReady ==
  ASSUME DriverTyped, Wait > 0, NEW p \in Path, NEW v \in {"yes", "no", "unread"}, Unready(p)
  PROVE  ~IsReady(p, v)
<1>. SUFFICES ASSUME IsReady(p, v) PROVE FALSE
  OBVIOUS
<1>1. /\ fs[p] # Absent /\ Settled(Sniffed(p, v)) /\ Sniffed(p, v).is_archive = "yes"
      /\ ~Seen(KeyOf(p, fs[p]))
  BY DEF IsReady
<1>2. /\ cand[p].stamp = fs[p]
      /\ cand[p].is_archive # "unsniffed" => Sniffed(p, v).is_archive = cand[p].is_archive
  BY <1>1, SettledLook
<1>. QED
  BY <1>1, <1>2 DEF Unready

(* And a settled one that is passed over is one that cannot.               *)
LEMMA PassedOver ==
  ASSUME DriverTyped, Wait > 0, NEW p \in Path, NEW v \in {"yes", "no", "unread"},
         ~IsReady(p, v), cand' = TableAfter(p, v), rec' = rec, ~NotReady(p)
  PROVE  Unready(p)'
<1>1. fs[p] # Absent /\ Settled(Compared(p))
  BY DEF NotReady
<1>2. /\ Sniffed(p, v).stamp = fs[p] /\ Sniffed(p, v) # NoCandidate
      /\ Settled(Sniffed(p, v)) /\ HasSlot(p)
      /\ Sniffed(p, v).is_archive \in {"yes", "no", "unread"}
  BY <1>1, SettledLook
<1>3. cand'[p] = Sniffed(p, v)
  BY <1>1, <1>2 DEF TableAfter, DriverTyped
<1>4. Sniffed(p, v).is_archive \in {"no", "unread"} \/ Seen(KeyOf(p, fs[p]))
  BY <1>1, <1>2 DEF IsReady
<1>. QED
  BY <1>2, <1>3, <1>4 DEF Unready, Seen, KeyOf

(* Looking at p leaves the rest of the table alone.                        *)
LEMMA OthersStayUnready ==
  ASSUME NEW p \in Path, NEW q \in Path, q # p, NEW v,
         cand' = TableAfter(p, v), rec' = rec, Unready(q)
  PROVE  Unready(q)'
<1>1. cand'[q] = cand[q]
  BY DEF TableAfter
<1>. QED
  BY <1>1 DEF Unready, Seen

(* A line passed over.                                                     *)
LEMMA LineKeepsScan ==
  ASSUME DriverTyped, ScanOK, ScanLine, LogScan, pc' = "queue"
  PROVE  ScanOK'
<1>. SUFFICES ASSUME Wait > 0 PROVE ScanOK'
  BY DEF ScanOK, Wait
<1>1. PICK i \in unread : \E v \in {"yes", "no", "unread"} :
        /\ PassOver(Ask(i), v) /\ unread' = unread \ {i}
  BY DEF ScanLine, Accept
<1>2. PICK v \in {"yes", "no", "unread"} : PassOver(Ask(i), v) /\ unread' = unread \ {i}
  BY <1>1
<1>. DEFINE p == Ask(i)
<1>3. /\ ~IsReady(p, v) /\ cand' = TableAfter(p, v) /\ rec' = rec
      /\ i \in Asked /\ p \in Path /\ pc = "queue"
  BY <1>2, DriverConstants DEF PassOver, ScanLine, statusVars, DriverTyped
<1>4. /\ passed \subseteq passed'
      /\ NotReady(p) => p \in passed'
  <2>1. passed' = passed \cup {q \in {Ask(j) : j \in unread \ unread'} :
                                  NotReady(q) \/ OverlookLines}
    BY DEF LogScan
  <2>2. i \in unread \ unread'
    BY <1>1, <1>2
  <2>. QED
    BY <2>1, <2>2
<1>. HIDE DEF p
<1>5. ASSUME NEW j \in Asked \ unread' PROVE Ask(j) \in passed' \/ Unready(Ask(j))'
  <2>1. Ask(j) \in Path
    BY DriverConstants
  <2>2. CASE Ask(j) = p
    BY <1>3, <1>4, <2>2, PassedOver
  <2>3. CASE Ask(j) # p
    <3>1. j \in Asked \ unread
      BY <1>2, <2>3 DEF p
    <3>2. Ask(j) \in passed \/ Unready(Ask(j))
      BY <1>3, <3>1 DEF ScanOK
    <3>. QED
      BY <1>3, <1>4, <2>1, <2>3, <3>2, OthersStayUnready
  <2>. QED
    BY <2>2, <2>3
<1>. QED
  BY <1>5 DEF ScanOK, Unready, Seen

(* A watched file passed over.                                             *)
LEMMA FileKeepsScan ==
  ASSUME DriverTyped, ScanOK, ScanFile, LogScan, pc' = "watch"
  PROVE  ScanOK'
<1>. SUFFICES ASSUME Wait > 0 PROVE ScanOK'
  BY DEF ScanOK, Wait
<1>1. PICK p \in todo : \E v \in {"yes", "no", "unread"} :
        PassOver(p, v) /\ todo' = todo \ {p} /\ UNCHANGED unread
  BY DEF ScanFile, Accept
<1>2. PICK v \in {"yes", "no", "unread"} : PassOver(p, v) /\ todo' = todo \ {p} /\ UNCHANGED unread
  BY <1>1
<1>3. /\ cand' = TableAfter(p, v) /\ rec' = rec /\ p \in Path /\ pc = "watch" /\ unread = {}
  BY <1>1, <1>2, DriverConstants DEF PassOver, ScanFile, statusVars, DriverTyped, ScanOK
<1>4. passed \subseteq passed'
  BY DEF LogScan
<1>5. ASSUME NEW j \in Asked \ unread', Ask(j) \in todo'
      PROVE  Ask(j) \in passed' \/ Unready(Ask(j))'
  <2>1. Ask(j) \in Path /\ Ask(j) # p /\ Ask(j) \in todo /\ j \in Asked \ unread
    BY <1>2, <1>5, DriverConstants
  <2>2. Ask(j) \in passed \/ Unready(Ask(j))
    BY <1>3, <2>1 DEF ScanOK
  <2>. QED
    BY <1>3, <1>4, <2>1, <2>2, OthersStayUnready
<1>. QED
  BY <1>2, <1>3, <1>5 DEF ScanOK, Unready, Seen

(* Lines overlooked.                                                       *)
LEMMA OverlookKeepsScan ==
  ASSUME DriverTyped, ScanOK, OverlookLines \/ OverlookFiles, LogScan
  PROVE  ScanOK'
<1>1. /\ cand' = cand /\ rec' = rec /\ pc' = pc /\ unread' \subseteq unread /\ todo' \subseteq todo
      /\ pc \in {"queue", "watch"}
  BY DEF OverlookLines, OverlookFiles, statusVars
<1>2. passed' = passed \cup {p \in {Ask(i) : i \in unread \ unread'} :
                               NotReady(p) \/ OverlookLines}
  BY <1>1 DEF LogScan
<1>3. ASSUME NEW i \in unread \ unread' PROVE Ask(i) \in passed'
  <2>1. OverlookLines
    BY <1>3 DEF OverlookFiles
  <2>. QED
    BY <1>2, <1>3, <2>1
<1>. QED
  BY <1>1, <1>2, <1>3 DEF ScanOK, Unready, Seen

(* The rest of a tick, and all else that happens.                          *)
LEMMA RestKeepsScan ==
  ASSUME DriverTyped, ScanOK, [LogNext]_logVars,
         ~(LogScan /\ ScanLine /\ pc' = "queue"),
         ~(LogScan /\ ScanFile /\ pc' = "watch"),
         ~(LogScan /\ (OverlookLines \/ OverlookFiles))
  PROVE  ScanOK'
<1>1. CASE pc' \notin {"queue", "watch"}
  BY <1>1 DEF ScanOK
<1>2. CASE unread' = Asked /\ pc' = "queue"
  BY <1>2 DEF ScanOK
<1>3. CASE OpenWatchPaths /\ LogScan
  <2>1. /\ pc = "queue" /\ pc' = "watch" /\ unread = {} /\ unread' = {}
        /\ cand' = cand /\ rec' = rec /\ passed \subseteq passed'
    BY <1>3 DEF OpenWatchPaths, LogScan, statusVars
  <2>. QED
    BY <2>1 DEF ScanOK, Unready, Seen
<1>4. CASE /\ pc' = pc /\ unread' = unread /\ todo' = todo /\ rec' = rec /\ passed' = passed
           /\ \A p \in Path : cand[p] # NoCandidate =>
                /\ cand'[p] # NoCandidate /\ cand'[p].stamp = cand[p].stamp
                /\ cand'[p].is_archive = cand[p].is_archive
  <2>1. ASSUME NEW p \in Path, Unready(p) PROVE Unready(p)'
    BY <1>4, <2>1 DEF Unready, Seen, KeyOf
  <2>2. \A i \in Asked : Ask(i) \in Path
    BY DriverConstants
  <2>. QED
    BY <1>4, <2>1, <2>2 DEF ScanOK
<1>5. CASE LogLaunch \/ WakeUp
  BY <1>2, <1>5 DEF LogLaunch, Launch, WakeUp, BeginTick
<1>6. CASE LogRecord \/ LogCrash \/ Unrecorded
  BY <1>1, <1>6
  DEF LogRecord, RecordJob, LogCrash, Crash, Unrecorded, OpenArchive, EndExtraction, Delete,
      KeepArchive
<1>7. CASE LogFlush
  BY <1>1, <1>2, <1>7 DEF LogFlush, FlushStep, BeginTick
<1>8. CASE LogScan
  <2>1. CASE ScanLine
    <3>1. pc' = "extract" \/ pc' = "queue"
      BY <2>1 DEF ScanLine, Accept, PassOver
    <3>. QED
      BY <1>1, <1>8, <2>1, <3>1
  <2>2. CASE ScanFile
    <3>1. pc' = "extract" \/ pc' = "watch"
      BY <2>2 DEF ScanFile, Accept, PassOver
    <3>. QED
      BY <1>1, <1>8, <2>2, <3>1
  <2>3. CASE OpenWatchPaths
    BY <1>3, <1>8, <2>3
  <2>4. CASE NothingReady
    BY <1>1, <2>4 DEF NothingReady
  <2>. QED
    BY <1>8, <2>1, <2>2, <2>3, <2>4 DEF LogScan, Scan
<1>9. CASE User /\ UNCHANGED <<log, stored, passed>>
  BY <1>4, <1>9 DEF User, Upload, RemoveFile, scanVars, statusVars
<1>10. CASE Second /\ UNCHANGED <<log, stored, passed>>
  <2>1. ASSUME NEW p \in Path, cand[p] # NoCandidate
        PROVE  /\ cand'[p] # NoCandidate /\ cand'[p].stamp = cand[p].stamp
               /\ cand'[p].is_archive = cand[p].is_archive
    <3>1. cand[p] \in Candidate /\ cand'[p] = [cand[p] EXCEPT !.age = Older(cand[p].age)]
      BY <1>10, <2>1 DEF Second, DriverTyped
    <3>2. Older(cand[p].age) \in 0..Wait
      BY <3>1, CandidateFields, OlderFacts
    <3>. QED
      BY <3>1, <3>2, AgedCandidate, CandidateFields
  <2>. QED
    BY <1>4, <1>10, <2>1 DEF Second, statusVars
<1>11. CASE UNCHANGED logVars
  BY <1>4, <1>11 DEF logVars, driverVars, scanVars, statusVars
<1>. QED
  BY <1>5, <1>6, <1>7, <1>8, <1>9, <1>10, <1>11 DEF LogNext

-------------------------------------------------------------------------------
(* A line of queue.txt orders the archive it names, and no other. *)
LEMMA OrderFacts ==
  ASSUME NEW p \in Path
  PROVE  /\ OrdersFor(p) = {i \in Asked : Ask(i) = p}
         /\ OrdersFor(p) \in SUBSET Nat
         /\ \A i \in OrdersFor(p) :
              WordsOf(Lines[i].dest)
                = SubSeq(WordsOf(QueueFile[i]), 3, Len(WordsOf(QueueFile[i])))
<1>1. /\ DOMAIN QueueFile \in SUBSET Nat /\ DOMAIN Lines = DOMAIN QueueFile
      /\ \A i \in DOMAIN QueueFile : QueueFile[i] \in Seq(Word) /\ Lines[i] = ParseLine(QueueFile[i])
  BY DriverAssumption DEF Lines
<1>2. ASSUME NEW i \in DOMAIN QueueFile
      PROVE  /\ Lines[i].archive = <<p>> <=> Orders(WordsOf(QueueFile[i]), p)
             /\ Lines[i].archive = <<p>> =>
                  WordsOf(Lines[i].dest)
                    = SubSeq(WordsOf(QueueFile[i]), 3, Len(WordsOf(QueueFile[i])))
  BY <1>1, ParseFacts
<1>3. ASSUME NEW i \in DOMAIN QueueFile
      PROVE  Lines[i].archive = <<p>> <=> i \in Asked /\ Ask(i) = p
  <2>1. i \in Asked <=> \E q \in Path : Lines[i].archive = <<q>>
    BY <1>1 DEF Asked
  <2>2. \A q : Lines[i].archive = <<q>> => Ask(i) = q
    BY DEF Ask
  <2>. QED
    BY <2>1, <2>2
<1>4. Asked \subseteq DOMAIN QueueFile
  BY <1>1 DEF Asked
<1>. HIDE DEF Lines
<1>5. OrdersFor(p) = {i \in DOMAIN QueueFile : Lines[i].archive = <<p>>}
  BY <1>2 DEF OrdersFor
<1>. QED
  BY <1>1, <1>2, <1>3, <1>4, <1>5

(* The step that accepts a job.                                            *)
LEMMA AcceptedGoesWhereAsked ==
  ASSUME DriverTyped, ControlOK, ScanOK, [LogNext]_logVars, Wait > 0,
         job = NoJob, job' # NoJob
  PROVE  job'.path \in passed \/ WordsOf(job_dest') = AskedFor(job'.path)
<1>1. ScanLine \/ ScanFile
  BY DEF LogNext, LogRecord, RecordJob, LogFlush, FlushStep, LogCrash, Crash, LogScan, Scan,
         OverlookLines, OverlookFiles, OpenWatchPaths, NothingReady, LogLaunch, Launch, WakeUp, Unrecorded, OpenArchive, EndExtraction,
         Delete, KeepArchive, User, Upload, RemoveFile, Second, jobVars, logVars, driverVars
<1>2. CASE ScanLine
  <2>1. PICK i \in unread :
          /\ \A j \in unread : i <= j
          /\ \E v \in {"yes", "no", "unread"} : Accept(Ask(i), Lines[i].dest, v)
    BY <1>2 DEF ScanLine, PassOver
  <2>2. PICK v \in {"yes", "no", "unread"} : Accept(Ask(i), Lines[i].dest, v)
    BY <2>1
  <2>. DEFINE p == Ask(i)
  <2>3. /\ i \in Asked /\ p \in Path /\ pc = "queue" /\ unread \subseteq Asked
        /\ IsReady(p, v) /\ job' = KeyOf(p, fs[p]) /\ job_dest' = Lines[i].dest
    BY <1>2, <2>1, <2>2, DriverConstants DEF ScanLine, Accept, DriverTyped
  <2>4. job'.path = p
    BY <2>3 DEF KeyOf
  <2>. HIDE DEF p
  <2>5. CASE p \in passed
    BY <2>4, <2>5
  <2>6. CASE p \notin passed
    <3>1. i \in OrdersFor(p) /\ OrdersFor(p) \in SUBSET Nat /\ OrdersFor(p) \subseteq Asked
      BY <2>3, OrderFacts DEF p
    <3>2. ASSUME NEW j \in OrdersFor(p) PROVE i <= j
      <4>1. j \in Asked /\ Ask(j) = p
        BY <2>3, OrderFacts
      <4>2. j \notin unread => Unready(p)
        BY <2>3, <2>6, <4>1 DEF ScanOK
      <4>3. ~Unready(p)
        BY <2>3, UnreadyIsNotReady
      <4>. QED
        BY <2>1, <4>2, <4>3
    <3>3. Min(OrdersFor(p)) = i
      <4>1. Min(OrdersFor(p)) \in OrdersFor(p) /\ \A y \in OrdersFor(p) : Min(OrdersFor(p)) <= y
        BY <3>1, MinFacts
      <4>2. i <= Min(OrdersFor(p)) /\ Min(OrdersFor(p)) <= i
        BY <3>1, <3>2, <4>1
      <4>3. i \in Nat /\ Min(OrdersFor(p)) \in Nat
        BY <3>1, <4>1
      <4>. HIDE DEF Min
      <4>. QED
        BY <4>2, <4>3
    <3>4. AskedFor(p) = SubSeq(WordsOf(QueueFile[i]), 3, Len(WordsOf(QueueFile[i])))
      BY <3>1, <3>3 DEF AskedFor
    <3>5. WordsOf(job_dest') = AskedFor(p)
      BY <2>3, <3>1, <3>4, OrderFacts
    <3>. QED
      BY <2>4, <3>5
  <2>. QED
    BY <2>5, <2>6
<1>3. CASE ScanFile
  <2>1. PICK p \in todo : \E v \in {"yes", "no", "unread"} : Accept(p, OwnDir, v)
    BY <1>3 DEF ScanFile, PassOver
  <2>2. PICK v \in {"yes", "no", "unread"} : Accept(p, OwnDir, v)
    BY <2>1
  <2>3. /\ p \in Path /\ pc = "watch" /\ unread = {}
        /\ IsReady(p, v) /\ job' = KeyOf(p, fs[p]) /\ job_dest' = <<>>
    BY <1>3, <2>1, <2>2, DriverConstants DEF ScanFile, Accept, DriverTyped, ScanOK, OwnDir
  <2>4. job'.path = p
    BY <2>3 DEF KeyOf
  <2>5. CASE p \in passed
    BY <2>4, <2>5
  <2>6. CASE p \notin passed
    <3>1. OrdersFor(p) = {}
      <4>. SUFFICES ASSUME NEW j \in OrdersFor(p) PROVE FALSE
        OBVIOUS
      <4>1. j \in Asked /\ Ask(j) = p
        BY <2>3, OrderFacts
      <4>2. Unready(p)
        BY <2>1, <2>3, <2>6, <4>1 DEF ScanOK
      <4>. QED
        BY <2>3, <4>2, UnreadyIsNotReady
    <3>2. AskedFor(p) = <<>>
      BY <3>1 DEF AskedFor, OwnDir
    <3>. QED
      BY <2>3, <2>4, <3>2, WordsOfNothing
  <2>. QED
    BY <2>5, <2>6
<1>. QED
  BY <1>1, <1>2, <1>3

(* Every step keeps what the tick knows of the lines.                      *)
LEMMA ScanNextInvariant == DriverTyped /\ ScanOK /\ [LogNext]_logVars => ScanOK'
<1>1. CASE LogScan /\ ScanLine /\ pc' = "queue"
  BY <1>1, LineKeepsScan
<1>2. CASE LogScan /\ ScanFile /\ pc' = "watch"
  BY <1>2, FileKeepsScan
<1>3. CASE LogScan /\ (OverlookLines \/ OverlookFiles)
  BY <1>3, OverlookKeepsScan
<1>4. CASE /\ ~(LogScan /\ ScanLine /\ pc' = "queue")
           /\ ~(LogScan /\ ScanFile /\ pc' = "watch")
           /\ ~(LogScan /\ (OverlookLines \/ OverlookFiles))
  BY <1>4, RestKeepsScan
<1>. QED
  BY <1>1, <1>2, <1>3, <1>4

(* README.md:123-130, "The manual queue takes precedence": whatever the    *)
(* lines of queue.txt, and however the scans, the uploads and the clock    *)
(* interleave, the job goes where the first line that names its archive    *)
(* says, unless the file was not ready when the tick came to that line, or *)
(* the tick could not read the line or the file (scan_queue_file,          *)
(* scan_dir, ua_queue_parse_line).                                         *)
THEOREM JobsGoWhereAsked == LogSpec => DestinationIsAsked
<1>1. LogInit => ScanOK
  BY DEF LogInit, DriverInit, ScanOK
<1>2. LogInv => DriverTyped /\ ControlOK
  BY DEF LogInv, DriverInv
<1>3. LogSpec => []ScanOK
  BY <1>1, <1>2, LogInvariant, ScanNextInvariant, PTL DEF LogSpec
<1>4. DriverTyped /\ ControlOK /\ ScanOK /\ [LogNext]_logVars
        => [job = NoJob /\ job' # NoJob /\ stability_wait_seconds > 0
              => \/ job'.path \in passed
                 \/ WordsOf(job_dest') = AskedFor(job'.path)]_logVars
  BY AcceptedGoesWhereAsked DEF Wait
<1>. QED
  BY <1>2, <1>3, <1>4, LogInvariant, PTL DEF LogSpec, DestinationIsAsked
===============================================================================
