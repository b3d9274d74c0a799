-------------------------------- MODULE JobLog --------------------------------
(***************************************************************************)
(* The watch driver with its history: the keys of the jobs recorded so     *)
(* far, oldest first.  History variables, they change nothing of what the  *)
(* driver does.                                                            *)
(*                                                                         *)
(* There are two of these histories, as there are two copies of the ring:  *)
(* the jobs the running program can remember and those a restart could     *)
(* learn of.  A crash takes with it the records that never reached         *)
(* queue.status, and a launch that cannot read queue.status to its end     *)
(* begins with the records it did read.                                    *)
(***************************************************************************)
EXTENDS WatchDriver

CONSTANT MaxJobs   \* bound: how many jobs the program remembers

VARIABLES log,      \* the keys of the recorded jobs
          stored,   \* those that the last completed rewrite covered
          passed    \* paths that were absent, not settled or overlooked when
                    \* this tick came to their line of queue.txt

logVars == <<driverVars, log, stored, passed>>

LogInit == DriverInit /\ log = <<>> /\ stored = <<>> /\ passed = {}

LogLaunch == /\ Launch
             /\ log' = IF rec' = Loaded(file) THEN stored
                       ELSE [i \in DOMAIN rec' |-> rec'[i].key]
             /\ UNCHANGED <<stored, passed>>

LogRecord == /\ Len(log) < MaxJobs
             /\ RecordJob
             /\ log' = Append(log, job)
             /\ UNCHANGED <<stored, passed>>

Rewritten == phase = "rename" /\ phase' = "idle" /\ saved'

LogFlush == /\ FlushStep
            /\ stored' = IF Rewritten THEN log ELSE stored
            /\ UNCHANGED <<log, passed>>

LogCrash == /\ Crash
            /\ log' = <<>>
            /\ passed' = {}
            /\ UNCHANGED stored

NotReady(p) == fs[p] = Absent \/ ~Settled(Compared(p))

(* A scan that ends, with a job or without, ends what the tick remembers. *)
LogScan == /\ Scan
           /\ passed' = IF pc' \in {"queue", "watch"}
                        THEN passed \cup {p \in {Ask(i) : i \in unread \ unread'} :
                                            NotReady(p) \/ OverlookLines}
                        ELSE {}
           /\ UNCHANGED <<log, stored>>

Unrecorded == OpenArchive \/ EndExtraction \/ Delete \/ KeepArchive

LogNext == \/ LogRecord
           \/ LogFlush
           \/ LogCrash
           \/ LogScan
           \/ LogLaunch
           \/ /\ WakeUp \/ Unrecorded \/ User \/ Second
              /\ UNCHANGED <<log, stored, passed>>

LogSpec == LogInit /\ [][LogNext]_logVars

-------------------------------------------------------------------------------
(* A path with a newline may collide with another one when it is read back. *)
PlainPaths == \A p \in Path : ReadBack[p] = p

(* What a line of queue.txt means, read without regard to blanks: the      *)
(* archive alone, or the archive, an arrow and a destination.              *)
AddWord(words, w) == IF w = Blank THEN words ELSE Append(words, w)
WordsOf(text)     == FoldLeft(AddWord, <<>>, text)
Orders(words, p)  == words = <<p>> \/ (Len(words) > 2 /\ words[1] = p /\ words[2] = Arrow)
OrdersFor(p)      == {i \in DOMAIN QueueFile : Orders(WordsOf(QueueFile[i]), p)}
AskedFor(p)       == IF OrdersFor(p) = {} THEN OwnDir
                     ELSE LET words == WordsOf(QueueFile[Min(OrdersFor(p))])
                          IN  SubSeq(words, 3, Len(words))

(* README.md:123-130 and ua_driver.c:289-290, "The manual queue takes       *)
(* precedence": an archive that queue.txt names goes where its first line  *)
(* there says, whichever scan comes upon it and whatever the other lines   *)
(* say, and every other archive goes into its own directory.  Excepted are *)
(* those that were not ready when the tick came to their line, or that it  *)
(* did not come to because queue.txt, or the archive, could not be read,   *)
(* and that were ready when it came to the watch path; with no stability   *)
(* wait at all, that may be any file (scan_queue_file, scan_dir,           *)
(* ua_queue_parse_line).                                                   *)
DestinationIsAsked ==
  [][job = NoJob /\ job' # NoJob /\ stability_wait_seconds > 0
       => \/ job'.path \in passed
          \/ WordsOf(job_dest') = AskedFor(job'.path)]_logVars

FarApart(jobs) == \A i, j \in DOMAIN jobs :
                    i < j /\ jobs[i] = jobs[j] => j - i > UA_STATUS_MAX

(* ua_status.h: records are kept "so a job is not redone on every poll or  *)
(* after a restart", and one that ages out does so only after as many      *)
(* newer ones as the ring holds.  Of the jobs that the program can         *)
(* remember, two for the same key are more than UA_STATUS_MAX jobs apart,  *)
(* across failed rewrites and crashes, and across restarts that read       *)
(* queue.status; one that does not remembers only what it did read         *)
(* (ua_status_seen in observe, ua_status_record, flush, ua_status_open).   *)
RerunOnlyAfterAgeing == PlainPaths => FarApart(log)

(* The ring is the window of the most recent jobs, in memory and on the    *)
(* disk, each of its own history; memory falls behind by nothing.          *)
IsWindow(s, jobs) == /\ Len(s) = Capped(Len(jobs))
                     /\ \A i \in DOMAIN s : s[i].key = jobs[Len(jobs) - Len(s) + i]
RingIsRecentJobs == PlainPaths => IsWindow(rec, log) /\ IsWindow(file, stored)

(* ua_status.h:4-5, "One record per processed archive, so a job is not     *)
(* redone on every poll or after a restart": no job is accepted for an     *)
(* archive that queue.status has a record of.                              *)
(* It fails (README.md, disagreement 6).                                   *)
NotRedone == [][job = NoJob /\ job' # NoJob => job' \notin KeysOf(file)]_logVars
===============================================================================
