---------------------------------- MODULE Log ----------------------------------
(***************************************************************************)
(* The log of the payload (src/core/ua_log.c): a file that is opened for   *)
(* append, is flushed after every line, and is renamed to <path>.1 and     *)
(* begun again when it has reached a cap.                                  *)
(*                                                                         *)
(* Every launch opens the same two names, before it knows whether another  *)
(* one is running.  A name and an open FILE are two ways to reach an       *)
(* inode, so a rotation by one launch leaves the FILE of another where the *)
(* bytes went.  A line is the number it was written under, or Lost when    *)
(* not all of it reached the file; the operators below are steps of a      *)
(* launch, and module Startup says when they happen.                       *)
(***************************************************************************)
EXTENDS Naturals, Sequences, FiniteSets

CONSTANTS
  Launch,
  UA_LOG_CAP,     \* in lines
  MaxLines,       \* bound on the lines written
  MaxFaults,      \* bound on failed calls
  MaxCrashes      \* bound on crashes

ASSUME LogAssumption == /\ IsFiniteSet(Launch)
                        /\ UA_LOG_CAP \in Nat \ {0} /\ {MaxLines, MaxFaults, MaxCrashes} \subseteq Nat

VARIABLES
  disk,      \* the inodes under the two names, and what each inode holds
  log,       \* of each launch: g_fp, g_written, g_level, and how far a rotation is
  said,      \* history: lines launches have had to write
  faults,    \* how many calls have failed
  crashes,   \* how often a launch has crashed
  excess,    \* history: lines by which what failed may have let the files outgrow
  shared     \* history: what launches did to the log while another had it open

logVars == <<disk, log, said, faults, crashes, excess, shared>>

None  == 0
Lost  == 0
Inode == 1..(Cardinality(Launch) + 2)
ERROR == 0
INFO  == 2
DEBUG == 3

Closed == [fp |-> None, written |-> 0, level |-> INFO, rotating |-> "no"]

LogInit == /\ disk = [cur |-> None, old |-> None, data |-> [n \in Inode |-> <<>>]]
           /\ log = [i \in Launch |-> Closed]
           /\ said = 0 /\ faults = 0 /\ crashes = 0 /\ excess = 0
           /\ shared = "no"

Fault == faults < MaxFaults /\ faults' = faults + 1

(* The file system forgets an inode that has no name and is not open.  *)
Live(d, l) == ({d.cur, d.old} \cup {l[i].fp : i \in Launch}) \ {None}
FreeInode  == CHOOSE n \in Inode : n \notin Live(disk, log)
Reclaimed(d, l) ==
  [d EXCEPT !.data = [n \in Inode |-> IF n \in Live(d, l) THEN @[n] ELSE <<>>]]

Becomes(d, i, entry) == /\ log' = [log EXCEPT ![i] = entry]
                        /\ disk' = Reclaimed(d, log')

InUseByOthers(i) == \E j \in Launch \ {i} : log[j] # Closed
Sharing(i, how) == shared' = IF InUseByOthers(i) /\ shared # "rotated" THEN how ELSE shared

-------------------------------------------------------------------------------
(* log_open_current.  The bytes that are there count, unless they cannot   *)
(* be told.  Failing to open the file leaves no FILE, and then nothing is  *)
(* written from there on.                                                  *)

OpenFile == IF disk.cur # None THEN disk.cur ELSE FreeInode

Held(lines) == Cardinality({n \in DOMAIN lines : lines[n] # Lost})

OpenedAt(i, lvl, written) ==
  Becomes([disk EXCEPT !.cur = OpenFile], i,
          [fp |-> OpenFile, written |-> written, level |-> lvl, rotating |-> "no"])

(* Mutant of OpenCurrent: the bytes that are there do not count. *)
OpenCurrentFromZero(i, lvl) ==
  /\ \/ OpenedAt(i, lvl, 0) /\ UNCHANGED <<faults, excess>>
     \/ Fault /\ Becomes(disk, i, [Closed EXCEPT !.level = lvl]) /\ UNCHANGED excess
  /\ UNCHANGED <<said, crashes>>

OpenCurrent(i, lvl) ==
  /\ \/ OpenedAt(i, lvl, Held(disk.data[OpenFile])) /\ UNCHANGED <<faults, excess>>
     \/ Fault /\ OpenedAt(i, lvl, 0) /\ excess' = excess + UA_LOG_CAP
     \/ Fault /\ Becomes(disk, i, [Closed EXCEPT !.level = lvl]) /\ UNCHANGED excess
  /\ UNCHANGED <<said, crashes>>

LogOpen(i, lvl) == OpenCurrent(i, lvl) /\ Sharing(i, "open")

LogClose(i) == /\ Becomes(disk, i, Closed)
               /\ UNCHANGED <<said, faults, crashes, excess, shared>>

-------------------------------------------------------------------------------
(* ua_log_write.  Whether fprintf and fflush have worked is not asked: a   *)
(* line that did not get into the file counts towards the cap all the same *)
(* and may have it rotated.  (A line of more than 1024 bytes is cut when   *)
(* it is written and counted in full, with the same effect; not modelled.) *)
LogWrite(i, lvl) ==
  /\ log[i].rotating = "no"
  /\ IF lvl > log[i].level \/ log[i].fp = None THEN UNCHANGED logVars
     ELSE /\ said < MaxLines /\ said' = said + 1
          /\ LET written == log[i].written + 1
             IN  log' = [log EXCEPT ![i].written = written,
                           ![i].rotating = IF written >= UA_LOG_CAP THEN "remove" ELSE "no"]
          /\ \/ /\ disk' = [disk EXCEPT !.data[log[i].fp] = Append(@, said')]
                /\ UNCHANGED faults
             \/ Fault /\ disk' = [disk EXCEPT !.data[log[i].fp] = Append(@, Lost)]
          /\ UNCHANGED <<crashes, excess, shared>>

(* log_rotate: close and remove, rename, open again. *)

RotateRemove(i) ==
  /\ log[i].rotating = "remove"
  /\ LET closed == [log[i] EXCEPT !.fp = None, !.rotating = "rename"]
     IN  \/ Becomes([disk EXCEPT !.old = None], i, closed) /\ UNCHANGED faults
         \/ Becomes(disk, i, closed) /\ Fault
  /\ Sharing(i, "rotated")
  /\ UNCHANGED <<said, crashes, excess>>

(* Mutant of RotateRename: an old log that is still there is kept. *)
RotateRenameOnto(i) ==
  /\ log[i].rotating = "rename"
  /\ LET renamed == [log[i] EXCEPT !.rotating = "open"]
     IN  IF disk.old = None
         THEN Becomes([disk EXCEPT !.cur = None, !.old = disk.cur], i, renamed)
         ELSE Becomes([disk EXCEPT !.cur = None], i, renamed)
  /\ Sharing(i, "rotated")
  /\ UNCHANGED <<said, crashes, excess, faults>>

(* rename() replaces an old log that could not be removed, and fails when  *)
(* there is no current one any more.                                       *)
RotateRename(i) ==
  /\ log[i].rotating = "rename"
  /\ LET renamed == [log[i] EXCEPT !.rotating = "open"]
     IN  \/ /\ disk.cur # None
            /\ Becomes([disk EXCEPT !.cur = None, !.old = disk.cur], i, renamed)
            /\ UNCHANGED <<faults, excess>>
         \/ /\ disk.cur = None
            /\ Becomes(disk, i, renamed)
            /\ UNCHANGED <<faults, excess>>
         \/ /\ Fault /\ excess' = excess + 1
            /\ Becomes(disk, i, renamed)
  /\ Sharing(i, "rotated")
  /\ UNCHANGED <<said, crashes>>

RotateReopen(i) == /\ log[i].rotating = "open"
                   /\ OpenCurrent(i, log[i].level)
                   /\ UNCHANGED shared

Rotate(i) == RotateRemove(i) \/ RotateRename(i) \/ RotateReopen(i)

(* The payload dies: its FILE is closed and a rotation stays as it is. *)
LogCrash(i) == /\ crashes < MaxCrashes /\ crashes' = crashes + 1
               /\ Becomes(disk, i, Closed)
               /\ excess' = IF log[i].rotating \in {"remove", "rename"} THEN excess + 1
                           ELSE excess
               /\ UNCHANGED <<said, faults, shared>>

-------------------------------------------------------------------------------
LogTypeOK ==
  /\ disk \in [cur : Inode \cup {None}, old : Inode \cup {None},
               data : [Inode -> Seq({Lost} \cup (1..MaxLines))]]
  /\ log \in [Launch -> [fp : Inode \cup {None}, written : Nat, level : {INFO, DEBUG},
                         rotating : {"no", "remove", "rename", "open"}]]
  /\ said \in 0..MaxLines /\ faults \in 0..MaxFaults
  /\ crashes \in 0..MaxCrashes /\ excess \in Nat
  /\ shared \in {"no", "open", "rotated"}

Under(name) == IF disk[name] = None THEN <<>> ELSE disk.data[disk[name]]

(* ua_log.c:130: "a payload crash must not lose the line that explains     *)
(* it".  What the two files hold, the old one first, is the last lines     *)
(* that there were to write, in their order and at least a cap of them:    *)
(* across crashes at any point of a rotation, restarts, a second launch    *)
(* and calls that fail.  A line is missing between them only when its own  *)
(* fprintf or fflush failed, which nothing retries.  Only a rotation while *)
(* another launch has the log open can break that.                         *)
RecentLinesKept ==
  shared # "rotated" =>
    LET lines == Under("old") \o Under("cur")
        first == said - Len(lines)
    IN  /\ \A n \in DOMAIN lines : lines[n] \in {first + n, Lost}
        /\ Len(lines) >= UA_LOG_CAP \/ first = 0

(* ua_log.h:6-8, 23-25: "disk use is bounded at roughly twice the cap".    *)
(* As long as launches do not share the log, the two files hold no more    *)
(* than that, a line for each rotation that failed or that a crash cut     *)
(* short, and a cap for each time the log was opened and its size could    *)
(* not be had (ua_log.c:39), however often the payload is started.         *)
DiskBounded ==
  shared = "no" => Held(Under("old")) + Held(Under("cur")) <= 2 * UA_LOG_CAP + excess
===============================================================================
