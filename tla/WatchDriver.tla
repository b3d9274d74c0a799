----------------------------- MODULE WatchDriver ------------------------------
(***************************************************************************)
(* The watch driver (src/core/ua_driver.c): one thread that polls          *)
(* queue.txt and the watch paths, waits for a file to settle, extracts at  *)
(* most one archive per tick, deletes it if told to, records the outcome   *)
(* in queue.status, and starts over.                                       *)
(*                                                                         *)
(* Around it, between any two of its steps: the user uploads, overwrites   *)
(* and removes files, the clock runs, the console is switched off.  Any    *)
(* call that reads a file or a directory may fail; none of these failures  *)
(* is told from a file that is not there or is not an archive.             *)
(*                                                                         *)
(* A file on the disk is the stamp (size, mtime) of its current version.   *)
(* Absent stands for everything a scan skips: no file, an empty one, a     *)
(* directory that is not descended into, a symbolic link.  Times are kept  *)
(* as ages that saturate at the stability wait, which is all that          *)
(* now - stable_since < stability_wait_seconds can tell apart.             *)
(***************************************************************************)
EXTENDS StatusRing, QueueLine, FiniteSets

CONSTANTS
  QueueFile,               \* queue.txt, line by line
  Watched,                 \* the paths below the watch paths
  Archive,                 \* the keys whose content is a supported archive
  UA_MAX_CANDIDATES,
  stability_wait_seconds,
  delete_after_extract,
  ok, failed,              \* the outcomes of a job
  TouchesJobs,             \* may the user change the file of a running job?
  MaxCrashes,              \* bound: how often the console is switched off
  MaxFaults                \* bound: how often reading fails in a scan

ASSUME DriverAssumption ==
  /\ QueueFile \in Seq(Seq(Word)) /\ Path \subseteq Word \ {Blank, Arrow, Hash}
  /\ Watched \subseteq Path
  /\ Stamp \subseteq Nat \ {0}
  /\ Archive \subseteq Key
  /\ UA_MAX_CANDIDATES \in Nat
  /\ stability_wait_seconds \in Nat
  /\ {delete_after_extract, TouchesJobs} \subseteq BOOLEAN
  /\ failed \in Result /\ Result \subseteq {ok, failed} /\ ok # failed
  /\ MaxCrashes \in Nat /\ MaxFaults \in Nat

Wait   == stability_wait_seconds
Absent == 0

(* is_archive: the cached content sniff of the version last observed.      *)
(* "unread" is that of a file that could not be opened or read; the        *)
(* program keeps it, and treats it, as "no".                               *)
Candidate == [stamp : Stamp, age : 0..Wait,
              is_archive : {"unsniffed", "yes", "no", "unread"}, touched : BOOLEAN]
NoCandidate == [stamp |-> Absent]
NoJob       == [path |-> "none"]
OwnDir      == <<>>

(* What queue.txt asks for: its lines, by number, without those that name  *)
(* no archive, or one that is never there, which the loop passes over      *)
(* without a trace.                                                        *)
Lines  == [i \in DOMAIN QueueFile |-> ParseLine(QueueFile[i])]
Asked  == {i \in DOMAIN Lines : \E p \in Path : Lines[i].archive = <<p>>}
Ask(i) == Head(Lines[i].archive)

VARIABLES
  fs,       \* the stamp of the file at each path, or Absent
  newest,   \* the newest stamp each path has ever had
  quiet,    \* for how long the file at each path has been what it is
  cand,     \* the candidate table, by path
  pc,       \* where the driver is, see DriverTypeOK
  unread,   \* lines of queue.txt, of Asked, that this scan has yet to reach
  todo,     \* watched paths that it has yet to reach
  job,      \* the key of the accepted job
  job_dest, \* where it extracts to: words of queue.txt, or OwnDir
  opened,   \* the stamp of the file that the extractor opened
  outcome,  \* rep.result
  crashes,
  faults

userVars   == <<fs, newest, quiet>>
scanVars   == <<cand, unread, todo>>
jobVars    == <<job, job_dest, opened, outcome>>
counts     == <<crashes, faults>>
driverVars == <<userVars, scanVars, jobVars, pc, counts, statusVars>>

KeyOf(p, s) == [path |-> p, stamp |-> s]

DriverInit == /\ StatusInit
              /\ fs = [p \in Path |-> Absent]
              /\ newest = [p \in Path |-> Absent]
              /\ quiet = [p \in Path |-> 0]
              /\ cand = [p \in Path |-> NoCandidate]
              /\ pc = "down"
              /\ unread = {}
              /\ todo = {}
              /\ job = NoJob
              /\ job_dest = OwnDir
              /\ opened = Absent
              /\ outcome = failed
              /\ crashes = 0
              /\ faults = 0

-------------------------------------------------------------------------------
(* The user and the clock. *)

MayChange(p) == TouchesJobs \/ job = NoJob \/ job.path # p

(* A first upload, the next piece of one, or a new version of the file. *)
Upload(p) == /\ MayChange(p)
             /\ \E s \in Stamp : /\ s > newest[p]
                                 /\ fs' = [fs EXCEPT ![p] = s]
                                 /\ newest' = [newest EXCEPT ![p] = s]
             /\ quiet' = [quiet EXCEPT ![p] = 0]
             /\ UNCHANGED <<scanVars, jobVars, pc, counts, statusVars>>

RemoveFile(p) == /\ MayChange(p)
                 /\ fs[p] # Absent
                 /\ fs' = [fs EXCEPT ![p] = Absent]
                 /\ quiet' = [quiet EXCEPT ![p] = 0]
                 /\ UNCHANGED <<newest, scanVars, jobVars, pc, counts, statusVars>>

Older(age) == IF age < Wait THEN age + 1 ELSE age

Second == /\ quiet' = [p \in Path |-> Older(quiet[p])]
          /\ cand' = [p \in Path |->
                        IF cand[p] = NoCandidate THEN NoCandidate
                        ELSE [cand[p] EXCEPT !.age = Older(@)]]
          /\ UNCHANGED <<fs, newest, unread, todo, jobVars, pc, counts, statusVars>>

-------------------------------------------------------------------------------
(* The candidate table: cand_find, cand_add, cand_sweep, observe. *)

Tracked == {p \in Path : cand[p] # NoCandidate}

HasSlot(p) == cand[p] # NoCandidate \/ Cardinality(Tracked) < UA_MAX_CANDIDATES

(* Mutants of Compared: a changed file is noted, but its clock goes on, or *)
(* what was known of its content is kept.                                  *)
ComparedKeepingClock(p) ==
  IF cand[p] = NoCandidate
  THEN [stamp |-> fs[p], age |-> 0, is_archive |-> "unsniffed", touched |-> TRUE]
  ELSE [cand[p] EXCEPT !.stamp = fs[p], !.touched = TRUE]

ComparedKeepingVerdict(p) ==
  IF cand[p] = NoCandidate
  THEN [stamp |-> fs[p], age |-> 0, is_archive |-> "unsniffed", touched |-> TRUE]
  ELSE [cand[p] EXCEPT !.stamp = fs[p], !.touched = TRUE,
                       !.age = IF cand[p].stamp = fs[p] THEN @ ELSE 0]

(* A version not seen before, or not last time, starts the clock anew. *)
Compared(p) == IF cand[p].stamp = fs[p]
               THEN [cand[p] EXCEPT !.touched = TRUE]
               ELSE [stamp |-> fs[p], age |-> 0,
                     is_archive |-> "unsniffed", touched |-> TRUE]

Settled(c) == c.age >= Wait

SniffDue(p) == LET c == Compared(p)
               IN  fs[p] # Absent /\ HasSlot(p) /\ Settled(c) /\ c.is_archive = "unsniffed"

(* What the file at p may be when it is opened for the sniff, after lstat  *)
(* has told its size and mtime: itself, a newer version, or gone.  Only    *)
(* then does it matter that a look is not one moment.                      *)
ByThen(p) == IF SniffDue(p)
             THEN {fs[p], Absent} \cup {s \in Stamp : s > newest[p]}
             ELSE {fs[p]}

(* The user's part in a look during which the file becomes s. *)
Becomes(p, s) == /\ fs' = [fs EXCEPT ![p] = s]
                 /\ newest' = [newest EXCEPT ![p] = IF s > @ THEN s ELSE @]
                 /\ quiet' = [quiet EXCEPT ![p] = IF s = fs[p] THEN @ ELSE 0]

Fault == faults < MaxFaults /\ faults' = faults + 1

(* A look during which the file becomes s.  Its verdict v is the one on    *)
(* the content of s, or that s could not be read.                          *)
Verdict(p, s) == IF KeyOf(p, s) \in Archive THEN "yes" ELSE "no"

Look(p, s, v) == /\ Becomes(p, s)
                 /\ \/ v = Verdict(p, s) /\ UNCHANGED faults
                    \/ SniffDue(p) /\ v = "unread" /\ Fault

(* The verdict is kept under the stamp that lstat saw. *)
Sniffed(p, v) == IF SniffDue(p) THEN [Compared(p) EXCEPT !.is_archive = v] ELSE Compared(p)

IsReady(p, v) == LET c == Sniffed(p, v)
                 IN  /\ fs[p] # Absent /\ HasSlot(p)
                     /\ Settled(c)
                     /\ c.is_archive = "yes"
                     /\ ~Seen(KeyOf(p, fs[p]))

TableAfter(p, v) == IF fs[p] # Absent /\ HasSlot(p)
                    THEN [cand EXCEPT ![p] = Sniffed(p, v)]
                    ELSE cand

(* Whatever this scan has not touched goes, also when a job was found and  *)
(* the scan stopped before it reached the rest.                            *)
Swept(table) == [p \in Path |->
                   IF table[p] = NoCandidate THEN NoCandidate
                   ELSE IF table[p].touched THEN [table[p] EXCEPT !.touched = FALSE]
                   ELSE NoCandidate]

-------------------------------------------------------------------------------
(* ua_driver_tick and ua_driver_run. *)

BeginTick == pc' = "queue" /\ unread' = Asked /\ todo' = {}

(* ua_driver_create, then the first tick. *)
Launch == /\ pc = "down"
          /\ Open
          /\ BeginTick
          /\ UNCHANGED <<userVars, cand, jobVars, counts>>

(* The file at p is looked at: it becomes the job and ends the scan, or is *)
(* passed over.                                                            *)
Accept(p, to, v) == /\ IsReady(p, v)
                    /\ job' = KeyOf(p, fs[p])
                    /\ job_dest' = to
                    /\ cand' = Swept(TableAfter(p, v))
                    /\ pc' = "extract"
                    /\ UNCHANGED <<unread, todo>>

PassOver(p, v) == /\ ~IsReady(p, v)
                  /\ cand' = TableAfter(p, v)
                  /\ UNCHANGED <<job, job_dest, pc>>

ScanLine == /\ pc = "queue"
            /\ \E i \in unread :
                 /\ \A j \in unread : i <= j
                 /\ \E s \in ByThen(Ask(i)), v \in {"yes", "no", "unread"} :
                      /\ Look(Ask(i), s, v)
                      /\ \/ Accept(Ask(i), Lines[i].dest, v)
                         \/ PassOver(Ask(i), v) /\ unread' = unread \ {i} /\ UNCHANGED todo
            /\ UNCHANGED <<opened, outcome, crashes, statusVars>>

(* queue.txt cannot be opened or read on, so the rest of it is left out,   *)
(* or lstat fails for the archive of one line.  The tick goes on with what *)
(* is left, and then with the watch paths.                                 *)
OverlookLines == /\ pc = "queue"
                 /\ Fault
                 /\ \E i \in unread : /\ \A j \in unread : i <= j
                                      /\ unread' \in {{}, unread \ {i}}
                 /\ UNCHANGED <<userVars, cand, todo, jobVars, pc, crashes, statusVars>>

(* readdir returns the files in an order of its own. *)
OpenWatchPaths == /\ pc = "queue"
                  /\ unread = {}
                  /\ todo' = Watched
                  /\ pc' = "watch"
                  /\ UNCHANGED <<userVars, cand, unread, jobVars, counts, statusVars>>

ScanFile == /\ pc = "watch"
            /\ \E p \in todo : \E s \in ByThen(p), v \in {"yes", "no", "unread"} :
                 /\ Look(p, s, v)
                 /\ \/ Accept(p, OwnDir, v)
                    \/ PassOver(p, v) /\ todo' = todo \ {p} /\ UNCHANGED unread
            /\ UNCHANGED <<opened, outcome, crashes, statusVars>>

(* A directory cannot be opened or read on, or lstat fails for a file. *)
OverlookFiles == /\ pc = "watch"
                 /\ Fault
                 /\ \E lost \in SUBSET todo : lost # {} /\ todo' = todo \ lost
                 /\ UNCHANGED <<userVars, cand, unread, jobVars, pc, crashes, statusVars>>

NothingReady == /\ pc = "watch"
                /\ todo = {}
                /\ cand' = Swept(cand)
                /\ pc' = "sleep"
                /\ UNCHANGED <<userVars, unread, todo, jobVars, counts, statusVars>>

WakeUp == /\ pc = "sleep"
          /\ BeginTick
          /\ UNCHANGED <<userVars, cand, jobVars, counts, statusVars>>

(* ua_extract_run opens whatever is at the path by now. *)
OpenArchive == /\ pc = "extract"
               /\ IF fs[job.path] = Absent
                  THEN /\ outcome' = failed
                       /\ pc' = "finished"
                       /\ UNCHANGED opened
                  ELSE /\ opened' = fs[job.path]
                       /\ pc' = "running"
                       /\ UNCHANGED outcome
               /\ UNCHANGED <<userVars, scanVars, job, job_dest, counts, statusVars>>

(* Nothing but an archive extracts; an archive may fail to for many        *)
(* reasons.  UA_OK comes with the complete counts that                     *)
(* extraction_is_verified asks for.                                        *)
EndExtraction == /\ pc = "running"
                 /\ outcome' \in Result
                 /\ outcome' = ok => KeyOf(job.path, opened) \in Archive
                 /\ pc' = "finished"
                 /\ UNCHANGED <<userVars, scanVars, job, job_dest, opened, counts, statusVars>>

(* Mutant of Deletes: the outcome is not looked at. *)
DeletesAnyway == delete_after_extract

(* maybe_delete unlinks by path. *)
Deletes == delete_after_extract /\ outcome = ok

Delete == /\ pc = "finished"
          /\ Deletes
          /\ fs[job.path] # Absent
          /\ fs' = [fs EXCEPT ![job.path] = Absent]
          /\ quiet' = [quiet EXCEPT ![job.path] = 0]
          /\ pc' = "record"
          /\ UNCHANGED <<newest, scanVars, jobVars, counts, statusVars>>

(* Not asked to, not allowed to, or unlink fails. *)
KeepArchive == /\ pc = "finished"
               /\ pc' = "record"
               /\ UNCHANGED <<userVars, scanVars, jobVars, counts, statusVars>>

(* Mutant of RecordJob: only a success is recorded. *)
RecordSuccess == /\ pc = "record"
                 /\ IF outcome = ok THEN Record(job, outcome)
                    ELSE phase' = "write" /\ UNCHANGED <<rec, file, tmp, saved>>
                 /\ pc' = "flush"
                 /\ UNCHANGED <<userVars, scanVars, jobVars, counts>>

RecordJob == /\ pc = "record"
             /\ Record(job, outcome)
             /\ pc' = "flush"
             /\ UNCHANGED <<userVars, scanVars, jobVars, counts>>

(* A job ran, so the next tick follows at once, saved or not. *)
FlushStep == /\ pc = "flush"
             /\ Flush
             /\ IF phase' = "idle"
                THEN /\ BeginTick
                     /\ job' = NoJob /\ job_dest' = OwnDir
                     /\ opened' = Absent /\ outcome' = failed
                     /\ UNCHANGED cand
                ELSE UNCHANGED <<scanVars, jobVars, pc>>
             /\ UNCHANGED <<userVars, counts>>

(* The table, the job and the ring are memory. *)
Crash == /\ pc # "down"
         /\ crashes < MaxCrashes
         /\ crashes' = crashes + 1
         /\ UNCHANGED faults
         /\ Down
         /\ pc' = "down"
         /\ cand' = [p \in Path |-> NoCandidate]
         /\ unread' = {} /\ todo' = {}
         /\ job' = NoJob /\ job_dest' = OwnDir /\ opened' = Absent /\ outcome' = failed
         /\ UNCHANGED userVars

Scan    == ScanLine \/ OverlookLines \/ OpenWatchPaths
             \/ ScanFile \/ OverlookFiles \/ NothingReady
RunJob  == OpenArchive \/ Delete \/ KeepArchive \/ RecordJob \/ FlushStep
Running == WakeUp \/ Scan \/ RunJob
User    == \E p \in Path : Upload(p) \/ RemoveFile(p)

DriverNext == Launch \/ Running \/ EndExtraction \/ User \/ Second \/ Crash

DriverSpec == DriverInit /\ [][DriverNext]_driverVars

(* The driver's thread is always scheduled again and time goes on; nobody  *)
(* need ever launch the program, and an extraction need never return.      *)
FairDriverSpec == DriverSpec /\ WF_driverVars(Running) /\ WF_driverVars(Second)

-------------------------------------------------------------------------------
DriverTypeOK ==
  /\ StatusTypeOK
  /\ fs \in [Path -> Stamp \cup {Absent}]
  /\ newest \in [Path -> Stamp \cup {Absent}]
  /\ quiet \in [Path -> 0..Wait]
  /\ cand \in [Path -> Candidate \cup {NoCandidate}]
  /\ pc \in {"down", "queue", "watch", "sleep", "extract", "running",
             "finished", "record", "flush"}
  /\ unread \subseteq Asked
  /\ todo \subseteq Watched
  /\ job \in Key \cup {NoJob}
  /\ job_dest \in {OwnDir} \cup {Lines[i].dest : i \in Asked}
  /\ opened \in Stamp \cup {Absent}
  /\ outcome \in Result
  /\ crashes \in 0..MaxCrashes
  /\ faults \in 0..MaxFaults

(* README: "An archive is ignored until its size and timestamp have        *)
(* stopped changing."  However the polls, the clock and the uploads        *)
(* interleave, a file that becomes a job has in fact not changed for the   *)
(* whole stability wait, and the job names the version on the disk         *)
(* (observe, cand_sweep, scan_dir).                                        *)
AcceptedWhenQuiet ==
  [][job = NoJob /\ job' # NoJob
       => fs[job'.path] = job'.stamp /\ quiet[job'.path] >= Wait]_driverVars

(* ua_driver.c:222-223: the sniff is "cached against (size, mtime)".  A     *)
(* cached verdict under the stamp that the file has now is the verdict on  *)
(* the file as it is now, although the content is read later than the      *)
(* stamp, and although uploads come in between and go on afterwards; only  *)
(* of a file that could not be read does it say nothing (observe).         *)
VerdictIsCurrent ==
  \A p \in Path : cand[p] # NoCandidate =>
    \/ cand[p].stamp # fs[p]
    \/ cand[p].is_archive \in {"unsniffed", "unread"}
    \/ cand[p].is_archive = "yes" <=> KeyOf(p, fs[p]) \in Archive

(* What the driver unlinks is at the path of the job, after the job has    *)
(* extracted an archive from there with UA_OK, whatever the user did in    *)
(* the meantime: it is the version that was extracted, or a newer one that *)
(* the user has put in its place since (ua_extract_run, maybe_delete).     *)
UnlinkedAfterSuccess ==
  [][pc = "finished" /\ pc' = "record"
       => \A p \in Path : fs'[p] # fs[p] =>
            /\ p = job.path /\ outcome = ok /\ fs'[p] = Absent
            /\ KeyOf(p, opened) \in Archive
            /\ opened = fs[p] \/ (TouchesJobs /\ opened < fs[p])]_driverVars

(* README: the archive is removed only after what came out of it has been  *)
(* verified.  Whatever the driver unlinks is the very version that this    *)
(* job opened and extracted with UA_OK (maybe_delete).                     *)
OnlyExtractedIsDeleted ==
  [][pc = "finished" /\ pc' = "record"
       => \A p \in Path : fs'[p] # fs[p] => /\ p = job.path
                                            /\ outcome = ok
                                            /\ opened = fs[p]]_driverVars

(* README.md:52-55: dropping an archive into a watch path and waiting "is   *)
(* the whole workflow", it "is detected, checked, and unpacked".           *)
(* DroppedIsProcessed fails (README.md, disagreement 7).                   *)
Scanned == Watched \cup {Ask(i) : i \in Asked}
LeftAlone(k) == pc # "down" /\ fs[k.path] = k.stamp
JobsReturn == []<>(pc # "running")
DroppedIsProcessed ==
  \A k \in Archive : k.path \in Scanned /\ <>[]LeftAlone(k) /\ JobsReturn => []<>Seen(k)

(* What the code does of that: an archive that stays as it is while the    *)
(* driver runs is processed and stays known, unless its content could not  *)
(* be read once; it is observed, settles, becomes the job and is recorded, *)
(* whatever other files come, go, fail or are not archives, and whatever   *)
(* scans were cut short by errors before, if extractions return            *)
(* (ua_driver.h:18-19, ua_driver_run).                                     *)
Misjudged(k) == /\ cand[k.path] # NoCandidate
                /\ cand[k.path].stamp = k.stamp /\ cand[k.path].is_archive = "unread"
StableIsProcessed ==
  \A k \in Archive :
    k.path \in Scanned /\ <>[]LeftAlone(k) /\ JobsReturn => []<>(Seen(k) \/ Misjudged(k))
===============================================================================
