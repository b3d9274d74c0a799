---------------------------- MODULE ParallelDecode ----------------------------
(***************************************************************************)
(* Extracting one file entry of a 7z archive with several threads          *)
(* (src/backend/ua_be_7z.c, sevenz_extract_parallel and sevenz_worker, and *)
(* extract_one_file in src/core/ua_extract.c that calls it).               *)
(*                                                                         *)
(* The stream is cut at dictionary resets into one contiguous run per      *)
(* worker.  Workers write at absolute offsets of one shared descriptor,    *)
(* and add to two counters under a mutex; the coordinator polls the        *)
(* counters, joins the workers, and judges.  A decline or any failure      *)
(* makes the caller truncate the file and decode it all over sequentially. *)
(*                                                                         *)
(* The folder is Size units of data; what a decoder yields for a unit is   *)
(* right or the decoder fails.  The headers of a damaged stream may tell   *)
(* of more: of Surplus units past the end of the folder.                   *)
(***************************************************************************)
EXTENDS Naturals, Sequences, FiniteSets

CONSTANTS
  Size,               \* folder_size, which is also the entry's declared size
  Surplus,            \* bound: units a damaged stream may have beyond it
  MaxThreads          \* most workers: decode_threads, or the cpu count up to 8

ASSUME DecodeAssumption == Size \in Nat \ {0} /\ Surplus \in Nat /\ MaxThreads \in Nat

StreamEnd == Size + Surplus
Unit == 0..(Size - 1)
Stray == Size..(StreamEnd - 1)   \* what is not of the folder
Worker == 0..(MaxThreads - 1)

VARIABLES
  splits,     \* output offsets of the dictionary resets, in stream order
  pc,         \* the coordinator, that is extract_one_file and what it calls
  threads,    \* workers planned for
  next,       \* the next one to be started
  used,       \* workers started
  wpc,        \* "none" | "open" | "decode" | "count" | "leave" | "return" | "exited"
  produced,   \* units each worker has written
  failed,     \* workers whose task result is an error
  written,    \* shared.written
  finished,   \* shared.finished
  disk,       \* units in the output file
  bytes_done, \* rep->bytes_done, from where this entry began
  outcome,    \* "none" | "ok" | "failed"
  faults      \* history: "job" when the output file or the sequential decoder
              \* failed, "archive" when a worker could not open the archive

workVars   == <<wpc, produced, failed, written, finished>>
planVars   == <<splits, threads, next, used>>
endVars    == <<outcome, faults>>
decodeVars == <<workVars, planVars, disk, pc, bytes_done, endVars>>

(* scan_splits yields resets in stream order; a damaged stream may have    *)
(* none at its start, or some where or after the folder should end.        *)
SplitLists == UNION {{s \in [1..n -> 0..StreamEnd] : \A i, j \in 1..n : i < j => s[i] < s[j]}
                       : n \in 0..(StreamEnd + 1)}

DecodeInit == /\ splits \in SplitLists
              /\ pc = "begin"
              /\ threads = 0 /\ next = 0 /\ used = 0
              /\ wpc = [i \in Worker |-> "none"]
              /\ produced = [i \in Worker |-> 0]
              /\ failed = {}
              /\ written = 0 /\ finished = 0
              /\ disk = {}
              /\ bytes_done = 0
              /\ outcome = "none" /\ faults = {}

-------------------------------------------------------------------------------
(* The work of worker i: from the first reset of its run to the first one  *)
(* of the next run, or to the end of the folder.  A last run that begins   *)
(* past the end gets a length that wraps, and an end it never reaches.     *)
RunStart(i) == (Len(splits) * i) \div threads
From(i) == splits[RunStart(i) + 1]
Never   == StreamEnd + 1
To(i)   == IF RunStart(i + 1) < Len(splits) THEN splits[RunStart(i + 1) + 1]
           ELSE IF From(i) <= Size THEN Size ELSE Never

(* How extract_one_file ends. *)
JobOk     == pc' = "done" /\ outcome' = "ok" /\ UNCHANGED faults
JobFailed == pc' = "done" /\ outcome' = "failed" /\ faults' = faults \cup {"job"}

(* mkdirs and the first open; module ExtractJob has what may be there. *)
OpenOutput == /\ pc = "begin"
              /\ pc' = "decide"
              /\ UNCHANGED <<disk, workVars, planVars, bytes_done, endVars>>

CannotOpenOutput == /\ pc = "begin"
                    /\ JobFailed
                    /\ UNCHANGED <<disk, workVars, planVars, bytes_done>>

(* decode_threads = 1, or a backend without a parallel decoder. *)
Sequential == /\ pc = "decide"
              /\ pc' = "sequential"
              /\ UNCHANGED <<disk, workVars, planVars, bytes_done, endVars>>

(* Not one LZMA2 file, too few resets, no budget for two dictionaries, no   *)
(* memory for the tasks and threads, no mutex.                             *)
Decline == /\ pc = "decide"
           /\ pc' = "fallback"
           /\ UNCHANGED <<disk, workVars, planVars, bytes_done, endVars>>

Plan == /\ pc = "decide"
        /\ Len(splits) >= 2
        /\ threads' \in 2..MaxThreads
        /\ threads' <= Len(splits)
        /\ pc' = "start"
        /\ UNCHANGED <<splits, next, used, disk, workVars, bytes_done, endVars>>

StartWorker == /\ pc = "start"
               /\ next < threads
               /\ From(next) < To(next)
               /\ next' = next + 1
               /\ used' = used + 1
               /\ wpc' = [wpc EXCEPT ![next] = "open"]
               /\ UNCHANGED <<splits, threads, produced, failed, written, finished,
                              disk, pc, bytes_done, endVars>>

(* A run without data gets no worker. *)
SkipWorker == /\ pc = "start"
              /\ next < threads
              /\ From(next) = To(next)
              /\ next' = next + 1
              /\ UNCHANGED <<splits, threads, used, disk, workVars, pc,
                             bytes_done, endVars>>

(* All are started, or one could not be and the rest is not tried. *)
StartedAll == /\ pc = "start"
              /\ pc' = IF used = 0 THEN "fallback" ELSE "poll"
              /\ UNCHANGED <<disk, workVars, planVars, bytes_done, endVars>>

Poll == /\ pc = "poll"
        /\ bytes_done' = written
        /\ pc' = IF finished >= used THEN "join" ELSE "poll"
        /\ UNCHANGED <<disk, workVars, planVars, endVars>>

Started == {i \in Worker : wpc[i] # "none"}

(* Mutants of Join: it does not wait, it does not look at the byte count,  *)
(* it fails the entry instead of falling back.                             *)
JoinWithoutWaiting ==
  /\ pc = "join"
  /\ pc' = IF failed = {} /\ written = Size THEN "close" ELSE "fallback"
  /\ UNCHANGED <<disk, workVars, planVars, bytes_done, endVars>>

JoinTrustingWorkers ==
  /\ pc = "join"
  /\ \A i \in Started : wpc[i] = "exited"
  /\ pc' = IF failed = {} THEN "close" ELSE "fallback"
  /\ UNCHANGED <<disk, workVars, planVars, bytes_done, endVars>>

JoinWithoutFallback ==
  /\ pc = "join"
  /\ \A i \in Started : wpc[i] = "exited"
  /\ IF failed = {} /\ written = Size
     THEN pc' = "close" /\ UNCHANGED outcome
     ELSE pc' = "done" /\ outcome' = "failed"
  /\ UNCHANGED <<disk, workVars, planVars, bytes_done, faults>>

(* pthread_join: returns once the thread has. *)
Join == /\ pc = "join"
        /\ \A i \in Started : wpc[i] = "exited"
        /\ pc' = IF failed = {} /\ written = Size THEN "close" ELSE "fallback"
        /\ UNCHANGED <<disk, workVars, planVars, bytes_done, endVars>>

(* Success of the parallel path; closing the file may still fail. *)
CloseParallel == /\ pc = "close"
                 /\ bytes_done' = written
                 /\ JobOk \/ JobFailed
                 /\ UNCHANGED <<disk, workVars, planVars>>

(* Mutants of Fallback: the count is not taken back, the file is continued *)
(* where the workers' count stands.                                        *)
FallbackKeepingCount ==
  /\ pc = "fallback"
  /\ disk' = {}
  /\ pc' = "sequential"
  /\ UNCHANGED <<workVars, planVars, bytes_done, endVars>>

FallbackContinuing ==
  /\ pc = "fallback"
  /\ pc' = "sequential"
  /\ UNCHANGED <<disk, workVars, planVars, bytes_done, endVars>>

(* The file is reopened truncating, the byte count taken back. *)
Fallback == /\ pc = "fallback"
            /\ disk' = {}
            /\ bytes_done' = 0
            /\ pc' = "sequential"
            /\ UNCHANGED <<workVars, planVars, endVars>>

CannotReopen == /\ pc = "fallback"
                /\ JobFailed
                /\ UNCHANGED <<disk, workVars, planVars, bytes_done>>

(* extract_current through file_sink_write: units in order from the first. *)
SequentialWrite == /\ pc = "sequential"
                   /\ bytes_done < Size
                   /\ disk' = disk \cup {bytes_done}
                   /\ bytes_done' = bytes_done + 1
                   /\ UNCHANGED <<workVars, planVars, pc, endVars>>

SequentialEnd == /\ pc = "sequential"
                 /\ \/ bytes_done = Size /\ JobOk
                    \/ JobFailed
                 /\ UNCHANGED <<disk, workVars, planVars, bytes_done>>

-------------------------------------------------------------------------------
(* sevenz_worker *)

WorkerGo(i, from, to) == wpc[i] = from /\ wpc' = [wpc EXCEPT ![i] = to]

WorkerFails(i) == failed' = failed \cup {i}

OpenArchive(i) == /\ WorkerGo(i, "open", "decode")
                  /\ UNCHANGED <<produced, failed, written, finished, disk>>

(* fopen fails: the thread returns at once. *)
NoArchive(i) == /\ WorkerGo(i, "open", "exited")
                /\ WorkerFails(i)
                /\ faults' = faults \cup {"archive"}
                /\ UNCHANGED <<produced, written, finished, disk>>

(* Mutant of GiveUp: finished counts here and again when it leaves. *)
GiveUpCounting(i) ==
  /\ WorkerGo(i, "open", "leave") \/ WorkerGo(i, "decode", "leave")
  /\ WorkerFails(i)
  /\ finished' = finished + 1
  /\ UNCHANGED <<produced, written, disk>>

(* Out of memory, a seek or read error, a corrupt or stalled stream, a     *)
(* failed write.                                                           *)
GiveUp(i) == /\ WorkerGo(i, "open", "leave") \/ WorkerGo(i, "decode", "leave")
             /\ WorkerFails(i)
             /\ UNCHANGED <<produced, written, finished, disk>>

(* Decode and write at the absolute offset, then count under the mutex. *)
WriteAt(i) == /\ WorkerGo(i, "decode", "count")
              /\ From(i) + produced[i] < To(i)
              /\ From(i) + produced[i] < StreamEnd
              /\ disk' = disk \cup {From(i) + produced[i]}
              /\ produced' = [produced EXCEPT ![i] = @ + 1]
              /\ UNCHANGED <<failed, written, finished>>

Count(i) == /\ WorkerGo(i, "count", "decode")
            /\ written' = written + 1
            /\ UNCHANGED <<produced, failed, finished, disk>>

RangeDone(i) == /\ WorkerGo(i, "decode", "leave")
                /\ From(i) + produced[i] = To(i)
                /\ UNCHANGED <<produced, failed, written, finished, disk>>

(* Handles released, the last use of the shared state, the return. *)
Leave(i) == /\ WorkerGo(i, "leave", "return")
            /\ finished' = finished + 1
            /\ UNCHANGED <<produced, failed, written, disk>>

Return(i) == /\ WorkerGo(i, "return", "exited")
             /\ UNCHANGED <<produced, failed, written, finished, disk>>

WorkerStep(i) ==
  /\ \/ NoArchive(i)
     \/ /\ \/ OpenArchive(i) \/ GiveUp(i) \/ WriteAt(i) \/ Count(i)
           \/ RangeDone(i) \/ Leave(i) \/ Return(i)
        /\ UNCHANGED faults
  /\ UNCHANGED <<planVars, pc, bytes_done, outcome>>

CallerStep ==
  \/ OpenOutput \/ CannotOpenOutput \/ Sequential \/ Decline \/ Plan
  \/ StartWorker \/ SkipWorker \/ StartedAll \/ Poll \/ Join \/ CloseParallel
  \/ Fallback \/ CannotReopen \/ SequentialWrite \/ SequentialEnd

DecodeNext == CallerStep \/ \E i \in Worker : WorkerStep(i)

DecodeSpec == DecodeInit /\ [][DecodeNext]_decodeVars

(* Every thread is scheduled again and again. *)
FairDecodeSpec == /\ DecodeSpec
                  /\ WF_decodeVars(CallerStep)
                  /\ \A i \in Worker : WF_decodeVars(WorkerStep(i))
-------------------------------------------------------------------------------
DecodeTypeOK ==
  /\ splits \in SplitLists
  /\ pc \in {"begin", "decide", "start", "poll", "join", "close", "fallback",
             "sequential", "done"}
  /\ {threads, next} \subseteq 0..MaxThreads /\ used \in 0..next
  /\ wpc \in [Worker -> {"none", "open", "decode", "count", "leave", "return", "exited"}]
  /\ produced \in [Worker -> 0..StreamEnd]
  /\ failed \subseteq Worker
  /\ {written, bytes_done} \subseteq 0..StreamEnd
  /\ finished \in 0..used
  /\ disk \subseteq Unit \cup Stray
  /\ outcome \in {"none", "ok", "failed"} /\ faults \subseteq {"job", "archive"}

(* The one case in which the verdict is wrong.  The workers that ran were  *)
(* led past the end of the folder, and the one that would have begun there *)
(* could not be started; then what they wrote too much can make up, in the *)
(* byte count, for what the stream has before its first reset.             *)
Overrun == next < threads /\ From(next) > Size /\ failed = {} /\ written = Size

(* An entry counts as extracted only if every unit of it and nothing else  *)
(* is in the file, whichever workers were started, failed or overtook one  *)
(* another, whatever resets a damaged stream had, and whether or not the   *)
(* job fell back (sevenz_extract_parallel's verdict, extract_one_file);    *)
(* except for Overrun.                                                     *)
OkMeansComplete == outcome = "ok" /\ ~Overrun => disk = Unit /\ bytes_done = Size

(* ua_be_7z.c:965-966.  The descriptor is closed, the file truncated and   *)
(* the mutex destroyed only when no worker is left that could use them.    *)
WorkersGoneFirst ==
  pc \notin {"start", "poll", "join"} => \A i \in Worker : wpc[i] \in {"none", "exited"}

(* Progress is never ahead of the file: what is reported has been written, *)
(* while workers race and after a fallback takes the count back            *)
(* (sevenz_worker, on_parallel_bytes, extract_one_file).                   *)
ProgressIsWritten == bytes_done <= Cardinality(disk)

(* Entry extraction as the rest of the job sees it.  An Overrun is shown   *)
(* as a failure: nothing is promised of its file.                          *)
Shown == IF outcome = "ok" /\ Overrun THEN "failed" ELSE outcome
Entry == INSTANCE EntryExtract WITH Entry <- Unit, Others <- Stray, content <- disk, verdict <- Shown
ImplementsEntry == Entry!EntrySpec

(* ua_extract.c:471-474: falling back "means a platform quirk in the       *)
(* parallel path costs speed, never the extraction".  When the output can  *)
(* be written and the stream can be decoded sequentially, the entry is     *)
(* extracted, whatever becomes of the workers.                             *)
CostsSpeedNotExtraction == []("job" \notin faults) => <>(outcome = "ok")

(* The same for every failure of a worker but one: unless a worker cannot  *)
(* open the archive, the coordinator always comes out of its poll loop,    *)
(* joins, and falls back if it has to (sevenz_extract_parallel,            *)
(* extract_one_file).                                                      *)
OtherFailuresCostSpeed == [](faults = {}) => <>(outcome = "ok")
===============================================================================
