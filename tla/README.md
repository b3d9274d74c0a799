# FGG Unpack: specifications

TLA+ models of FGG Unpack, the program that watches directories on a console,
extracts the 7z and zip archives it finds there, and keeps a record of what it
has processed. The models are written from the C code under `src/src/`; paths
below are relative to that directory. `PROJECT.json` maps every definition to
the lines it stands for.

Contents: [the system](#the-system), [the modules](#the-modules),
[the runs](#the-runs), [fairness](#fairness), [the proofs](#the-proofs),
[known disagreements](#known-disagreements), [limits](#limits), [plan](#plan).

## The system

One process, one thread, plus worker threads while a 7z entry is decoded in
parallel. It has a state directory (`queue.txt`, `queue.status`, the lock, the
log) and any number of watch paths that a user uploads to, over FTP, at any
moment. The console is switched off without warning.

| Component | State | Operations | Hard because |
|---|---|---|---|
| Watch driver, `core/ua_driver.c` | candidate table (path, size, mtime, `stable_since`, cached sniff, `touched`), the job in flight | `ua_driver_tick` (two scans, sweep, job, delete, record), `ua_driver_run` | the files change between any two calls; the table is finite; a crash comes anywhere |
| Single-instance lock, `core/ua_driver.c` | a file whose mtime is a heartbeat | check, touch (create, tick, progress), unlink | no atomic acquire; a lease that expires; clocks |
| Job record, `core/ua_status.c` | ring of records in memory, `queue.status`, `queue.status.tmp` | open, seen, record, forget, close; each change rewrites the file | every call of the rewrite can fail or be the last; a finite ring; what is read back is not always what was written |
| Extraction job, `core/ua_extract.c` | the report's counters, the walk, `last_pct`, the destination | preflight (scan, ratio, space), extract, fall back, report | all or nothing at first, then partial failure by design; counters that decide over a delete |
| Parallel 7z decoding, `backend/ua_be_7z.c` | tasks, `shared.written`, `shared.finished`, one descriptor | split, start, poll, join, judge | threads, failures in any of them, a fallback over what they wrote |
| Sequential 7z decoding, `backend/ua_be_7z.c` | cursor, open folder, decode buffer | `reset`, `next`, `extract_current` | solid folders: one stream, many files, no way back |
| Zip backend, `backend/ua_be_zip.c` | a cursor over miniz | the same three | length and checksum are judged only at the end, after the data has been handed out |
| Format detection and dispatch, `backend/ua_detect.c`, `ua_backend.c` | the table in use | magic numbers, open, close | a file that looks like two formats; a decoder's state after it is opened again |
| Path checks, `core/ua_path.c` | none | sanitise, join, check a symlink target | string rules with many corners |
| Configuration, `core/ua_config.c` | `config.ini` | load, set, write a template | bad lines, limits, order; a template that was cut off |
| Log, `core/ua_log.c` | the open file and its size, two names on disk | open, write, rotate, close | a rotation is three calls; a second launch has the same files |
| Entry point, `main_ps5.c` | none | open the log, load, open the log again, create the driver, run | all of it comes before the lock is looked at |
| `queue.txt`, `core/ua_queue.c` | none | parse a line | blanks and arrows within names; another scan may come upon the same file |
| Platform layer, `platform/` | none | wrappers of system calls | exclusive open, atomic replace |

How they interact: everything is a call. `ua_driver_run` ticks; a tick asks the
lock file's mtime to be renewed, observes files, asks `ua_status_seen`, calls
`ua_extract_run`, which calls back (`on_progress`, and that renews the lock),
unlinks, and calls `ua_status_record`. `ua_extract_run` walks a backend twice;
a 7z backend may decode with threads that share the output descriptor and two
counters. What is not a call is shared through the file system: the lock
between processes, `queue.status` between one run of the program and the next,
`debug.log` and `config.ini` between launches, the watch paths between the
driver and the user.

What makes each component correct:

* **Job record.** A rewrite is all or nothing, whatever fails; a save that
  returned `UA_OK` is in the file in full; records give way oldest first, one at a
  time and only when the ring is full. A restart that cannot read the file
  forgets (disagreement 6).
* **Driver.** A file becomes a job only after it has really been left alone; no
  archive is processed twice while it is remembered; only what was extracted is
  deleted; every archive that is left alone and could be read is processed in the
  end.
* **Lock.** Two running copies only after a launch was let in at one of the two
  moments at which the lock does not see (disagreement 5); a lock nobody holds
  expires.
* **Extraction job.** Nothing is written before every entry has been checked;
  `UA_OK` means every file is there in full and the counters say so; the free
  space margin is kept by what lies within the declared sizes; files of others are
  not lost without `overwrite`; no write goes through a link, and no link it makes
  leads out of the destination by itself.
* **Parallel decoding.** `UA_OK` means a complete file; nothing is closed or
  freed while a worker uses it; failures cost time only.
* **Sequential decoding.** Every file gets its own bytes; no folder is decoded
  twice in a walk; extraction ends.
* **Backends.** Zip and 7z cannot be told apart by the extractor: a walk in
  order, the entry's own data from the first unit on, success only with all of
  it.
* **Configuration.** Every key has the value of its last good line or its
  default; only the user's own file turns dangerous options on.
* **Log.** The last lines are on the disk, whatever else fails, unless their own
  write did; the files do not grow past twice the cap.

## The modules

| Module | Models | Builds on |
|---|---|---|
| `KeyLedger` | what a job record promises: two sets of keys and an indivisible save | -- |
| `StatusRing` | `ua_status.c` | implements `KeyLedger` |
| `QueueLine` | `ua_queue.c`, as operators | -- |
| `WatchDriver` | `ua_driver.c`: tick and run, with the user, the clock and crashes | EXTENDS `StatusRing`, `QueueLine` |
| `JobLog` | `WatchDriver` with the history of its jobs and of its scan of `queue.txt` | EXTENDS `WatchDriver` |
| `WatchClaims` | `WatchDriver` with what a tick has had in view | EXTENDS `WatchDriver` |
| `InstanceLock` | the lock, for any number of launches | -- |
| `PathRules` | the checks of `ua_path.c` over components, and one step of the reference for where a path leads | -- |
| `ExtractJob` | `ua_extract.c` | EXTENDS `PathRules` |
| `EntryExtract` | what extracting one file promises | -- |
| `ParallelDecode` | `sevenz_extract_parallel`, its workers and the fallback in `extract_one_file` | implements `EntryExtract` |
| `EntrySource` | what the extractor wants of an archive, whatever its format | -- |
| `ZipStream` | `ua_be_zip.c` | -- |
| `FolderStream` | the sequential 7z decoder | -- |
| `Backends` | `ua_detect.c`, `ua_backend.c`, and one of the two decoders behind the table | EXTENDS `FolderStream`, INSTANCE `ZipStream`, implements `EntrySource` |
| `Config` | `ua_config.c`, as operators | -- |
| `Log` | `ua_log.c`, as steps of a launch | -- |
| `Startup` | `main_ps5.c`: launches that share the log and `config.ini` | EXTENDS `Log`, `Config` |
| `StatusRingProofs`, `InstanceLockProofs`, `ParallelDecodeProofs` | theorems about the module of that name | EXTENDS that module, TLAPS |
| `ExtractJobProofs`, `BackendsProofs`, `StartupProofs` | the same; `StartupProofs` also about `Log` and `Config` | EXTENDS that module and `Induction` |
| `WatchDriverProofs` | theorems about `WatchDriver`, `JobLog` and `QueueLine` | EXTENDS `JobLog`, `StatusRingProofs`, `Induction` |
| `Induction` | nothing of the program: induction over numbers, finite sets and folds, for the proofs | TLAPS |

`MC*` modules and cfg files hold the instances that TLC checks. Operators named
as *mutants* in a comment are slips of the pen that the code could contain, one
for every property; no specification uses them, and putting one in the place of
the definition that follows it must break its property. They are how we know
that a property says something about the code.

**StatusRing.** `rec` is `s->rec[0 .. n-1]`, `file` the records in
`queue.status`, `tmp` those in the temporary file while the rename is pending.
`Record` and `Forget` change memory and set `phase = "write"`; then `flush` is
two steps, `WriteTemp` (open, write, close) and `Rename`, each of which may fail
instead, and `Down` (close, or a crash) may come before, between and after. `Open`
reads all of the file, a part or nothing, and says `UA_OK` in each case; `saved` is
false as long as the ring is not all of the file, and in `KeyLedger` a start knows
a part of what was stored unless it is `intact`. A
key is a path and a stamp; the stamp (size, mtime) is only ever compared. What
`parse_line` does to a path is the constant `ReadBack`: a path with a newline
comes back shorter.

**WatchDriver.** Each file looked at is a step (`ScanLine`, `ScanFile`), because
between two of them a user may upload; the sweep is part of the step that ends
the scan, as in `ua_driver_tick`. A job is `OpenArchive`, `EndExtraction`,
`Delete` or `KeepArchive`, `RecordJob`, and the two steps of `Flush`. Ages
replace times: `now - stable_since` saturates at the stability wait, since
nothing distinguishes larger ones. `is_archive` is the cached verdict of the
content sniff; it is `"unread"` when the file could not be opened or read, which
the program keeps and treats as "no". The calls of a scan that fail are counted:
a sniff (`Look`), `queue.txt` or the `lstat` of one of its lines
(`OverlookLines`), a directory or the `lstat` of a file in it (`OverlookFiles`).
A look at a file reads its size and time, and later, when a verdict is due, its
content: `ByThen` is what the user may have made of the file by then, and the
verdict on that is kept under the stamp read before. `Lines` is what `QueueLine`
makes of `queue.txt`, `Asked` the numbers of the lines that name an archive, and
`unread` those of them that the scan has still to reach: the next one is the
least. `job_dest` is the destination a line gives, or the archive's own
directory. `quiet` and `newest` record what the user did; the driver never reads
them.

**JobLog** adds two histories of recorded jobs, as there are two copies of the
ring: `log`, the jobs that the running program can remember, and `stored`, those
that the last completed rewrite covered. A crash ends the first; a launch begins
with `stored`, or with the records that it could read. `passed` holds the files
that were absent, not settled or overlooked when the tick came to their line of
`queue.txt`. **WatchClaims** adds for how long
the driver has had each file in view and what a tick passed over.

**QueueLine.** A line is the sequence of its words, blanks and arrows included.
The reference that `DestinationIsAsked` compares it with drops the blanks and
looks for an archive, or for an archive, an arrow and the rest.

**InstanceLock.** The lock is its age, up to `UA_LOCK_STALE_SECONDS`. Check and
touch are two steps, and launches overlap in between as they like. Any time may
pass between two ticks and between two progress callbacks, because the code
bounds neither: `waited` is how long each launch has been silent. The history
`lapsed` says that a launch was let in where the lock could not see another one:
between the other's check and write, or after the other had been silent for the
limit. An `lstat`, a touch or an unlink that fails, and a clock that is set back,
are faults and are counted.

**PathRules.** A path is its components, empty ones included, and whether it is
anchored (it begins with a separator or a drive, or holds a NUL; one rule in the
code each, one verdict). `Follow` is one step of the reference: where a component
leads from a place at which there is no link.

**ExtractJob.** An entry is its path, kind, link target, declared size, and the
size its stream really has. The destination is a small tree of places with
files, directories and links of others in it. Each unit written, each progress
report, each directory, each link is a step; a failure is possible at all of
them. The parallel path appears as units that arrive without being reported
(`WorkersWrite`), reports that trail (`PollWorkers`) and the fallback
(`StartOver`). Workers also write past the declared size, as far as the stream
goes (`beyond`); the fallback truncates that, and a job that fails there leaves
it. Where a link leads is asked twice: `LeadsTo` follows its target up to the
next link, whatever there is by then, and `ResolvesTo` goes on through the links
of the job. `TargetsAreRead` tells the zip backend from the 7z backend, which
reports every link with an empty target.

**ParallelDecode.** The coordinator is `pc`, each worker `wpc[i]`. A worker's
write to the file and its update of the counter are separate steps, and so are
the update of `shared.finished` and the return of the thread. `splits` is any
ascending list of reset offsets, because it is read from an archive that may be
damaged: the first run may not begin at 0, runs may be empty, and resets may lie
past the end of the folder. A last run that begins there gets a length that
wraps around, and ends only with its stream (`Never`).

**FolderStream.** A unit of data is the pair (folder, offset), so that a file
with a byte of another is visible. `Fill` yields any number of units a decode
round can, `Skip` and `Copy` are the two loops that consume them. `in_place` says
whether the archive's file handle is where the open folder left it: looking for
the seams of another folder moves it (`TryParallel`), and `Decoded` shows the
harm when the folder is then read on.

**Backends.** `Format` is `ua_detect_buffer` with its order of precedence; `v` is
the table in use, and each call goes to the decoder behind it. Both decoders
share the variables of the walk, so that one refinement mapping onto
`EntrySource` serves both: `taken` counts the units that the sink has, as long as
they are the entry's own ones, in order.

**Config** is the parser as operators on sequences of lines. A line is what
`trim` and `strchr` make of it: a key and a value that is a number, a word, or
bad; a path is a number as well. `CutTemplates` are the files that a template
can be when writing it fails or is cut off. **Log** keeps the files apart from
their names: a rotation by one launch leaves the open file of another where its
bytes went. A line is the number it was written under, or `Lost` when `fprintf` or
`fflush` failed, which nothing looks at; it counts towards the cap all the same.
A log whose size cannot be had is opened with a count of zero (`excess` adds a
cap for it). The cap is in lines.
**Startup** puts both in the order of `main_ps5.c`, in which a launch has opened,
written and possibly rotated the log before `ua_driver_create` refuses it; what
the lock answers is left open. `LoadConfig` reads all lines of `config.ini` or stops
at one that cannot be read; a file that cannot be opened for reading is written
over with the template (`BeginTemplate`).

## The runs

| Run | Instance | Shows |
|---|---|---|
| `status_ring` | 3 paths, one with a newline, 2 stamps, ring of 2 | `SavedIsDurable`, and refinement of `KeyLedger` |
| `watch_driver` | 2 files, both watched and in `queue.txt` (in two of five lines), 2 versions each, 3 of the 4 archives, ring of 2, one crash, reading back a part of the record, one failing call in the scans, 4 jobs, nothing deleted | that jobs are not repeated, that the ring is their window, and that they go where they were asked to |
| `eventually_processed` | a watched file and one in `queue.txt`, 2 versions each, 2 of the 4 archives, ring of 1, one failing call in the scans, one crash, deleting, jobs disturbed | what is looked at, accepted, cached and unlinked, and `StableIsProcessed` |
| `lock` | 3 launches that overlap, stale after 3, any time between ticks, 2 faults | exclusion and freshness as far as they go, expiry |
| `parallel` | 3 units and 2 past the end, up to 3 workers, all 64 lists of resets | verdict, teardown order, progress, refinement of `EntryExtract`, and that the parallel path ends |
| `extract` | archives of up to 3 of 12 entries (3 of them links), 4 places, all destinations, 2 amounts of free space, overwrite on and off, links made or skipped | nine properties of a job |
| `backends` | 7 entries in 3 folders (a solid one with an empty entry in it, one of one file, one of two), rounds of up to 3 units, two walks, opened twice, every beginning of a file | four properties of the decoders, and refinement of `EntrySource` |
| `startup` | 2 launches, cap of 2 lines, 5 lines, one failing call (of any kind), one crash, two files of the user's with good and bad lines, a template cut in three places | log and configuration together |
| `parallel_hangs`, `surprise_delete`, `backlog`, `sevenz_links` | small | a disagreement each, see below |

The last four are expected to end in a counterexample.

Why the bounds suffice:

* *Ring of 2, three archives* (`watch_driver`): a ring of two fills, ages out a
  record and takes the aged-out archive again; three archives are needed for a
  rerun, and it is the fourth job at the earliest. Nothing in the code depends
  on the ring's size; the theorems about `StatusRing` hold for every size.
* *Two files, two versions*: a file changes under the scan, before and after it
  is opened, and while another one is the job. `stability_wait_seconds = 1`
  separates "seen before" from "seen and waited".
* *Nothing deleted* (`watch_driver`): the outcome of a job then decides nothing
  and is only written, so all jobs fail there. `eventually_processed` has both
  outcomes.
* *Ring of 1* (`eventually_processed`): the smallest ring forgets the archive of
  one path as soon as that of the other is recorded, so each of them has to be
  processed again and again without starving the other.
* *One crash*: a crash between any two steps, then a full life of the
  program on what it left and on what it can read of it. A second crash starts
  from a file that is again what some rewrite left, a state which the first one
  already reaches.
* *One failing call* (`watch_driver`, `eventually_processed`): a sniff, a line or a
  whole `queue.txt`, a file or a directory, at any point of any scan. What one
  failure leaves behind is a cached verdict or a scan cut short; the theorems have
  any number of them.
* *Lock*: three launches are an owner, a crashed one and a newcomer. A limit of
  three seconds leaves room for a lock that is fresh, one that is about to expire,
  and every order of check, write, tick and second; the theorems hold for all.
* *Parallel*: three workers give a first, a middle and a last run; three units
  and two more give runs of different lengths, empty runs, a missing start, and
  one or two runs that begin past the end.
* *Extract*: three entries give a file after a directory, two entries for one
  path, a link, and a file below it or in its place, a skipped entry between
  files, and every order of these. Two components are the least for which a link
  has a directory of its own and a target can climb out of it and back.
  `UINT64_MAX = 5` lets the sum of three sizes overflow.
* *Backends*: rounds of three units over files of two, none, one and two units
  end before, at and after every boundary between files. The folder of one file
  is the only one that may be tried in parallel, and folders follow it. The
  archive is opened a second time so that state left behind would show.
* *Startup*: with a cap of two, five lines rotate twice, and one launch can
  rotate while the other is at any of its steps. One failing call and one crash
  put a fault at every call, and a crash into a rotation of which a call failed.
  The template is cut at the number that is cut into another legal one, in the
  watch path, and in the line that would turn deleting on.

Deadlock checking is off where the system really stops: a job that has ended
(`extract`, `parallel`, `sevenz_links`), a caller that has walked and opened the
archive as often as it may (`backends`), and launches whose lines are used up
(`startup`).

## Fairness

* `FairDriverSpec`: weak fairness of the clock and of the driver's own steps, but
  for the end of an extraction. There is one thread, and its other steps are
  system calls that return, with a result or an error. An extraction need not
  return (`parallel_hangs`): `StableIsProcessed` has that it does as a hypothesis,
  `JobsReturn`. Nothing is assumed of the user, of crashes, or of the program being
  launched.
* `FairLockSpec`: the clock goes on. Nobody need run.
* `FairDecodeSpec`: weak fairness of the coordinator and of each worker
  separately: the operating system schedules every thread. It does not assume
  that a worker succeeds.
* `FairBackendsSpec`: an extraction that has begun goes on, in either backend; the
  caller need not call again. `Fill` stands for the whole loop of rounds and yields
  at least one unit, because `folder_fill` gives up when a round neither takes nor
  gives anything (`ua_be_7z.c:461-468`); that check is assumed and not checked.

## The proofs

TLAPS checks these for every value of the constants that satisfies the named
assumptions of the modules (`StatusMaxAssumption`, `ReadBackAssumption`,
`DriverAssumption`, `LockAssumption`, `DecodeAssumption`, `ExtractAssumption`,
`LimitAssumption`, `PathAssumption`, `FolderAssumption`, `BackendsAssumption`,
`WordAssumption`, `ConfigAssumption`, `LogAssumption`, `StartupAssumption`). Two
are about the code and not about types: `ConfigAssumption` has a table of two
watch paths at least (16 in the code), and `DriverAssumption` has no path that is
just a blank, an arrow or a hash, which no line could name. Each inductive
invariant was checked by TLC, on the instance of its run or a smaller one, before
it was proved.

**StatusRingProofs.** The inductive invariant is

    RingInv == {rec, file, tmp} \subseteq Ring /\ ... /\ TempIsMemory /\ SavedIsDurable

`SavedIsDurable` alone is not inductive: a rename makes the file equal to
`tmp`, and that this is what memory holds is `TempIsMemory`, which holds because
`Record` and `Forget` need `phase = "idle"`, that is because the program has one
thread. Reopening needs `ReloadIsStable`: reading back a file whose keys have
been read back before changes nothing more; and what is read of a ring, all of it
or a part, is a ring. From it follow `StatusTypes`,
`SavedRecordsSurvive` and, with one lemma for each kind of step,
`RingImplementsLedger`: initial states map to initial states and each step of
the rewrite to a step of the ledger or a stutter. `RecordedProperties` and
`RoomProperties` are what the ring arithmetic comes down to.

**InstanceLockProofs.** There is no assumption on the timing. The inductive
invariant is

    LockInv == LockTypeOK /\ (faults = 0 /\ ~lapsed => OneLaunch /\ Heartbeat)

`MutualExclusion` speaks of running loops only, and is not inductive: a launch
that has passed the check is a danger although it does not run yet, so
`OneLaunch` counts it from the check on; and what keeps the next one out is
`Heartbeat`: the lock is no older than the seconds its owner has waited. A check
that passes although there is another launch finds it before its write, or
silent for the limit, and that is what `lapsed` says. `LockExcludes` and
`LockStaysFresh` follow.

**WatchDriverProofs.** `DriverInv` is `RingInv` with the types, `ControlOK`
(which control points have a job, and which phase of the rewrite goes with them)
and

    RowOK(p) == fs[p] <= newest[p] /\ (cand[p] # NoCandidate => cand[p].stamp <= newest[p])
                /\ (cand[p].stamp = fs[p] => Tells(p, cand[p]))

What a candidate tells must be true only while its stamp is the file's: that the
file has been left alone for at least the age counted, and what its content is,
unless it is `"unsniffed"` or `"unread"`. The two bounds by `newest` carry the
induction, because an upload makes a stamp that no candidate can hold; without
them a candidate of an old version could come true of a new one by accident.
`VerdictsAreCurrent` and `JobsWereQuiet` follow. `DeletedWereExtracted`
(`UnlinkedAfterSuccess`) is about any user: what is unlinked lies at the job's
path, after `UA_OK` for an archive that was opened there, and it is that
version, or a newer one that was put there during the job, which is the case
that `surprise_delete` shows. It needs `OpenedOK`: the file at the job's path is
the one that was opened, or gone, or newer.

The history: the ring is the window of the last jobs (`RingIsRecentJobs`) only
if no record is updated where it stands, so `LogInv` needs `JobIsNew`: from its
acceptance to its record, the job is not in the ring. A rewrite that fails and a
crash are the other half: the file is the window of `stored` as memory is that
of `log`, and both are `FarApart`. A launch that reads a part of the file begins
with a window onto what it read. `RerunsAreFarApart` follows: a job that is
accepted is not among the last `UA_STATUS_MAX` that the program can remember.
Both are about paths without a newline (`PlainPaths`): any other comes back as
another key. `LogIsDriver` carries the theorems about `WatchDriver` over.

`JobsGoWhereAsked` has two halves. One is about a line: `ParseFacts` compares
what `ParseLine` makes of it, by trimming and splitting at the first arrow, with
its words read one by one (`WordsOf`), by way of what the words of two texts put
together are (`WordsOfBoth`). The other is about a tick, `ScanOK`: each line
that it is past named a file that was not ready, or was overlooked, or one that
cannot become the job where the tick comes upon it again, because it is no
archive, could not be read, or is recorded (`Unready`); a version that is
uploaded meanwhile would have to settle first. That is where a wait of more than
zero seconds is needed.

**ParallelDecodeProofs.** `IInv` relates the two shared counters to the file:
`written` is the number of units that workers have added (`AllTallied`, all but
the unit each is about to count), the file is what they have written
(`AllDone`), and `finished` counts threads that are through. A worker that did
not fail and has left its loop has written all of its run (`RunsOK`), and the
runs follow each other, so that a plan in which nobody failed and the count is
right leaves no gap: `OkIsComplete`. The exception in it, `Overrun`, is
disagreement 12 below; the theorem shows that it is the only one.
`WorkersAreGone` rests on `used` being the number of threads that were started.
`DecodeImplementsEntry` maps every step of coordinator and workers to a step of
`EntryExtract` or a stutter.

**ExtractJobProofs.** `ExtractInv` says, of every point of the walk, what has
been checked (`WalkOK`), what lies at the destination (`TreeOK`), what the file
in hand holds (`FileInHand`), that the files before it are in place (`FilesOK`)
and what the counters count (`CountersOK`). `OkIsVerified` compares counters
that one walk made with counters that another made, so the invariant needs what
both stand for, a sum over the archive. Instead of defining it by recursion it
says that there is a tally (`IsTally`), the list of the partial sums: the scan
extends it by one entry, the extraction reads it. `OkMeansExtracted` alone is not
inductive either: a later entry may take a place over, and `InPlace` says that
it then finishes what it began. `WritesStayBelow` needs that directories are
never replaced, which is part of `NothingLost`.

`MarginStaysFree` and `LinksStayInside` have invariants of their own. `SpaceInv`:
up to the declared ends, what the job has put at the destination (`Used`, a sum
over the places, that changes with one place at a time) is at most what it counts
as done plus the file in hand, so never more than the total that the preflight
found room for; and `BeyondInv`: there is something past a declared end only while
the workers are at that file, or in a job that failed there. `LinkInv`: every link
of the job's was made with a target that passed the check for its place; and that
check, `ua_path_check_symlink`, a fold over the target's components that counts
the depth, goes in step with the fold of `LeadsTo` until that comes to a link:
neither comes above the destination. Beyond that link there is nothing to prove,
as disagreement 9 shows.

**BackendsProofs.** `BackendsInv` is the types, `BegunOnce`, and for 7z
`SevenZipInv == WalkOK /\ BufferOK /\ PositionOK /\ AheadOK /\ BegunOK /\ OwnBytes`.
That an entry gets its own bytes (`OwnBytes`) needs to know where in its folder
the decoder stands (`PositionOK`) and that the buffer holds the units just before
that (`BufferOK`). `AheadOK` is the heart: between two extractions no file that
is still to come lies behind the decoder, since it cannot go back, and once the
archive's file handle was used for something else, no file of the open folder is
to come. `BegunOnce` follows from the order of the folders (`BegunOK`).
`UnpackPositions`, the offsets of the folders, is a recursive function; what it
yields is proved by induction. `BackendsImplementSource` maps both decoders onto
`EntrySource`, with `Len(got)` for what the sink has.

**StartupProofs.** For the log, `LogInv == LogTyped /\ FilesOK /\ LinesOK /\ AloneOK`:
while nobody has rotated under another launch, every open file is the current
one (`FilesOK`), so the lines on the disk are the last ones, each in the place of
its number, its own text or `Lost` (`LinesOK`: `LastLinesAreKept`); and while one
launch at a time has the log, there is room under the bound for both files and for
what is yet to be written before the next rotation (`Fits` in `AloneOK`:
`DiskStaysBounded`). For the configuration, `ConfigInv` says that a
launch has what was made of the lines it read, the beginning of some file
(`Starts`). What that is, is a fold over
the lines; `LoadSteps` unrolls it line by line, and `LoadIsSaid` (each key has its
last good value), `LoadHasPaths` (the watch paths are those listed, up to the
table's size), `LoadTemplate` and `LoadCutTemplate` (what a whole template and a
cut one come to) are inductions over the lines. `ConfigSaysWhatIsWritten` and
`DangerNeedsTheUser` follow.

**Induction.** The induction theorems of the prover's library take an operator as
a parameter, which the installed provers cannot instantiate. Here properties are
sets: a set of counterexamples that is not empty has a smallest member
(`SmallestSet`, `LeastNumber`), by the well-foundedness of finite sets. A fold of
the community modules is a recursion over the subsets of a sequence's positions;
`SolutionExists` and `SolutionsAgree` say that it has one solution, and
`LastFirst` and `Unrolled` that it may be read from left to right.

Every safety property and action property of a passing run is proved. Only
model-checked are the liveness properties, which need fairness and ENABLED:
`StableIsProcessed`, `AbandonedLockExpires`, `OtherFailuresCostSpeed` and
`ExtractionEnds`; and the runs that end in a counterexample.

## Known disagreements

Each of the first four has a run that ends in a counterexample.

1. `parallel_hangs`. A worker that cannot open the archive returns without
   counting itself in `shared.finished` (`ua_be_7z.c:880-885`); the coordinator
   polls until all workers are counted, for ever. `OtherFailuresCostSpeed`
   shows that no other failure does this.
2. `surprise_delete`. `maybe_delete` unlinks by name. A version uploaded over
   the archive while its job runs is deleted unextracted. `UnlinkedAfterSuccess`
   says that this takes a user who puts a newer version there during the job.
3. `backlog`. `cand_sweep` runs also after a scan that a job cut short, and drops
   the candidates the scan had not reached: they wait for stability again, and
   the driver sleeps although `ua_driver.h:43-45` says a batch drains at full
   speed.
4. `sevenz_links`. The 7z backend marks an entry as a link and leaves its target
   empty (`ua_be_7z.c:631-638`); the preflight refuses an empty target
   (`ua_path.c:111`). So a 7z archive with any link in it fails as one whose link
   leads out, also with `allow_symlinks=0`, where `docs/spec-gaps.md:118` has
   links "skipped and counted".

The next six are properties that are stated in the modules and that no run
checks, because they fail. Each has a counterexample in the instance that is
named, when it is given as the one property to check.

5. `OnlyOneCopyRuns` (`MCLock.cfg`, with `MaxFaults = 0`). `README.md:98` says
   "Only one copy runs at a time". A launch that checks the lock between the
   check and the write of another one (`ua_driver.c:425-431`) is let in, and
   both run. The same comes, without that race, of a driver that does not write
   the lock for 600 seconds: a sleep does not (`ua_driver.c:552`), and
   `poll_interval_seconds` may be 3600, where `ua_driver.c:57` has the mtime
   "refreshed while the driver is alive"; a job does only when it reports
   progress, and never with `progress_percent_step = 0`. `MutualExclusion` shows
   that these are all the ways there are without a fault.
6. `NotRedone` (`MCJobLog.cfg`). `ua_status_open` returns `UA_OK` with an empty
   or a partial ring when `queue.status` cannot be opened or read
   (`ua_status.c:88-106`). The archives of the missing records are processed
   again, and the next record rewrites the file without them. `ua_status.h:4-5`:
   "so a job is not redone on every poll or after a restart".
7. `DroppedIsProcessed` (`MCEventually.cfg`). A sniff that cannot open or read
   the file (`ua_detect.c:71-80`) is kept like the verdict "not an archive"
   (`ua_driver.c:224`), as long as the candidate stays in the table with its
   size and mtime. An archive that is left alone is then never processed, where
   `README.md:52-55` has it detected, checked and unpacked. `StableIsProcessed`
   shows that, with a slot for every file and extractions that return, nothing
   else does this.
8. `NeverFillsDisk` (`MCExtract.cfg`). A worker is bounded by its run only, and
   runs come from reset points in the stream and may lead past the declared size
   (`ua_be_7z.c:912-947`, `1068`). Until the workers are done nothing checks
   that, and what they write too much goes into the space that is to stay free,
   where `ua_be_7z.c:1119-1120` has overproduction "structurally impossible" and
   `README.md:82` "It cannot fill your disk". `MarginKept` says how far it goes.
9. `LinksResolveInside` (`MCExtract.cfg`, with `Entry <- MCChainEntry`).
   `ua_path_check_symlink` counts a target's levels as if each component were a
   directory. Beside a link to `.`, one that goes through it and up again
   passes, and resolves to a place outside, against `ua_path.h:31-33`. No write
   goes through either of them (`NothingThroughLinks`).
10. `UsersFileStays` (`MCStartup.cfg`). Every failure to open `config.ini` for
    reading is taken to mean that there is none (`ua_config.c:168-179`), and the
    template is written over the file of the user, where `README.md:105` has it
    written "on first run".

This can be had from the same modules by changing a constant:

11. A settled file that needs no job keeps its slot in the candidate table as
    long as it exists. With the table full of them another archive is never
    looked at, where `ua_driver.c:199` has it picked up on a later poll
    (`UA_MAX_CANDIDATES = 1` in `MCEventually.cfg`, `StableIsProcessed`).

These by taking an exception out of a property:

12. The overproduction of 8 is caught by the byte count in the end
    (`ua_be_7z.c:1121`), with one exception. The run that begins past the end of the
    folder reads on to the end of its stream. When the thread for it cannot be
    started and the stream has data before its first reset, what the run before it
    writes too much can make up for what is missing, and `UA_OK` is returned for an
    incomplete file (`~Overrun` in `OkMeansComplete`).
13. A watch path that is the default, listed first with another one after it, is
    dropped, because the default is told by its name, where `README.md:111` has
    "Repeat for more than one" (`DefaultDropped` in `ConfigIsAsWritten`).
14. A second launch that rotates the log while the first one has it open leaves
    the first one writing into `debug.log.1`, and later rotations lose lines that
    are newer than those they keep (`shared` in `RecentLinesKept`).
15. `ua_log.c:130`: "a payload crash must not lose the line that explains it". A
    write that fails (`ua_log.c:129-130`) loses its line without a word and counts
    towards the cap, so that on a full disk a log of good lines is rotated away for
    one without any (`Lost` in `RecentLinesKept`). A log whose size cannot be had
    (`ua_log.c:39`) grows by another cap (`excess` in `DiskBounded`).
16. `ua_driver.c:289-290`: "The manual queue takes precedence". Within one tick
    `queue.txt` is read before the watch paths are scanned. A file in both that
    settles in between, or whose line was overlooked because `queue.txt` or the
    file could not be read (`ua_driver.c:298-299`), is extracted into its own
    directory, not to where its line says (`passed` in `DestinationIsAsked`). With
    `stability_wait_seconds = 0`, which `ua_config.c:122` accepts, a version uploaded
    in between is ready at once, and the same happens to any file
    (`stability_wait_seconds > 0` there).

And by reading: nothing calls `ua_status_forget`, so the record of a deleted
archive stays, against `ua_status.h:48-49`; the 7z path never compares a CRC; and
`README.md:121` gives 5 as the default of `progress_percent_step`, which is 10 in
`ua_config.c:33`.

## Limits

* A completed rename is durable. The code does not sync the temporary file, and
  what a power cut does to unsynced data is not modelled.
* The driver's clock does not jump (the lock's does). A user does not put an
  old version back under its old size and mtime, nor move a file away and back:
  stamps only grow.
* A graceful stop leaves the same state as a crash in `WatchDriver` (memory gone,
  file as it was), and is not a separate action there.
* Two drivers on one state directory are not composed: `InstanceLock` shows when
  there is only one, `WatchDriver` is that one, and `Startup` leaves open what the
  lock answers.
* The false `UA_OK` of disagreement 12 is a result of `ParallelDecode`; `ExtractJob`
  takes the decoder at its word.
* `ParallelDecode` and `FolderStream` assume that a unit is decoded right or the
  decoder fails. For zip miniz compares a checksum; for 7z nothing does.
* Links, in an archive or at the destination, lie directly below the
  destination, and the destination does not change under a job.
* Of the log, a line is one unit: that a line of more than 1024 bytes is cut
  when it is written and counted in full is left out (it makes a rotation come
  sooner), and so is a line that stays in the buffer when its flush fails and
  comes through with a later one. Of the configuration, no number reaches 2^31;
  `Huge` stands for those above every limit.
* `queue.txt` does not change while the driver runs; a line or a path too long for
  its buffer is left out.
* The user edits `config.ini` only while no launch is on its way to its run loop.

Not modelled:

* `ua_path_dirname` and `ua_path_archive_stem`: they derive a default destination
  and nothing more.
* The command line of `main_host.c`: a tool for developers; its second opening of
  an archive is in `backends`.
* The Windows layer, notifications, rates and remaining times, vendored decoders,
  tests and tools.

## Plan

What is left, in the order of what matters most:

1. Proofs of what a step may do: which records a rewrite may drop from the
   history, what a tick may do to the candidate table, in which order a job
   deletes and records.
2. `TwoDrivers`: two `WatchDriver`s and their lock on one state directory, to see
   what a broken lock costs: double extraction, lost records.
3. Links below directories, and a destination that others change during a job.
