----------------------------- MODULE StartupProofs -----------------------------
(***************************************************************************)
(* Proofs about what launches share before the lock is looked at: the log, *)
(* for any size of it and any number of launches, and config.ini, for any  *)
(* file that a user may write and any cut of the template.                 *)
(***************************************************************************)
EXTENDS Startup, Induction

-------------------------------------------------------------------------------
(* The log. *)

Mark  == {Lost} \cup (1..MaxLines)
Entry == [fp : Inode \cup {None}, written : Nat, level : {INFO, DEBUG},
          rotating : {"no", "remove", "rename", "open"}]
Disk  == [cur : Inode \cup {None}, old : Inode \cup {None},
          data : [Inode -> Seq(Mark)]]

(* What the two names lead to. *)
CurLines == Under("cur")
OldLines == Under("old")
CurHeld  == Held(CurLines)
OldHeld  == Held(OldLines)

(* The part of a rotation in which the current file is still the one that  *)
(* is full.                                                                *)
Rotating(i) == log[i].rotating \in {"remove", "rename"}

LogTyped ==
  /\ LogTypeOK
  /\ \A n \in Inode \ Live(disk, log) : disk.data[n] = <<>>
  /\ \A i \in Launch : /\ log[i].rotating \in {"rename", "open"} => log[i].fp = None
                       /\ log[i].rotating = "remove" => log[i].fp # None

(* As long as nobody has rotated the log under another launch, every FILE  *)
(* is the current one, and a rotation is of one that is full.              *)
FilesOK ==
  shared # "rotated" =>
    /\ disk.cur # None => disk.cur # disk.old
    /\ \A i \in Launch : log[i].fp # None =>
         log[i].fp = disk.cur /\ log[i].written <= Len(CurLines)
    /\ \A i \in Launch : Rotating(i) => disk.cur # None /\ Len(CurLines) >= UA_LOG_CAP

Numbered(s, first) == \A n \in DOMAIN s : s[n] \in {first + n, Lost}

LinesOK ==
  shared # "rotated" =>
    /\ Len(OldLines) + Len(CurLines) <= said
    /\ Numbered(CurLines, said - Len(CurLines))
    /\ Numbered(OldLines, said - Len(CurLines) - Len(OldLines))
    /\ Len(OldLines) + Len(CurLines) >= UA_LOG_CAP \/ Len(OldLines) + Len(CurLines) = said

(* With m lines in the old log there is room for the current one, as it    *)
(* is, and for what is written to it before it is rotated.                 *)
Room == 2 * UA_LOG_CAP + excess

Fits(m) ==
  /\ m + UA_LOG_CAP <= Room /\ m + CurHeld <= Room
  /\ (\A i \in Launch : ~Rotating(i)) => CurHeld < UA_LOG_CAP \/ m + (CurHeld + 1) <= Room
  /\ \A i \in Launch : log[i].fp # None /\ ~Rotating(i) =>
       m + (CurHeld + (UA_LOG_CAP - log[i].written)) <= Room

(* A rotation leaves what is current as the old one. *)
AloneOK ==
  shared = "no" =>
    /\ \A i, j \in Launch : log[i] # Closed /\ log[j] # Closed => i = j
    /\ \A i \in Launch : log[i].fp # None /\ ~Rotating(i) /\ log[i].written >= UA_LOG_CAP =>
         CurHeld >= UA_LOG_CAP
    /\ Fits(UA_LOG_CAP) /\ Fits(OldHeld)

LogInv == LogTyped /\ FilesOK /\ LinesOK /\ AloneOK

-------------------------------------------------------------------------------
(* A file that has been opened for the first time. *)
LEMMA EmptyFile == <<>> \in Seq(Mark)
OBVIOUS

(* What a file holds is a part of the lines that were meant for it.  *)
LEMMA HeldFacts ==
  ASSUME NEW S, NEW s \in Seq(S)
  PROVE  Held(s) \in Nat /\ Held(s) <= Len(s)
<1>. DEFINE there == {n \in DOMAIN s : s[n] # Lost}
<1>1. DOMAIN s = 1..Len(s) /\ Len(s) \in Nat
  OBVIOUS
<1>2. IsFiniteSet(1..Len(s)) /\ Cardinality(1..Len(s)) = Len(s)
  BY <1>1, FS_Interval
<1>3. there \in SUBSET (1..Len(s))
  BY <1>1
<1>. HIDE DEF there
<1>4. IsFiniteSet(there) /\ Cardinality(there) <= Len(s)
  BY <1>2, <1>3, FS_Subset
<1>5. Cardinality(there) \in Nat
  BY <1>4, FS_CardinalityType
<1>. QED
  BY <1>4, <1>5 DEF Held, there

(* Nothing is in an empty one.  *)
LEMMA HeldNothing == Held(<<>>) = 0
<1>1. {n \in DOMAIN <<>> : <<>>[n] # Lost} = {}
  OBVIOUS
<1>. QED
  BY <1>1, FS_EmptySet DEF Held

(* A line that gets there is one more, one that is lost is none.  *)
LEMMA HeldAppend ==
  ASSUME NEW s \in Seq(Mark), NEW x \in Mark
  PROVE  Held(Append(s, x)) = IF x = Lost THEN Held(s) ELSE Held(s) + 1
<1>. DEFINE there == {n \in DOMAIN s : s[n] # Lost}
            t     == Append(s, x)
            after == {n \in DOMAIN t : t[n] # Lost}
            last  == Len(s) + 1
<1>1. /\ DOMAIN s = 1..Len(s) /\ Len(s) \in Nat
      /\ DOMAIN t = 1..last /\ t[last] = x
      /\ \A n \in 1..Len(s) : t[n] = s[n]
  OBVIOUS
<1>. HIDE DEF t
<1>2. last \notin there
  BY <1>1
<1>3. after = IF x = Lost THEN there ELSE there \cup {last}
  <2>1. \A n \in 1..last : n \in 1..Len(s) \/ n = last
    BY <1>1
  <2>2. \A n : n \in after <=> n \in there \/ (n = last /\ x # Lost)
    BY <1>1, <2>1
  <2>. HIDE DEF after, there, last
  <2>. QED
    BY <2>2
<1>4. IsFiniteSet(there)
  <2>1. IsFiniteSet(1..Len(s)) /\ there \in SUBSET (1..Len(s))
    BY <1>1, FS_Interval
  <2>. HIDE DEF there
  <2>. QED
    BY <2>1, FS_Subset
<1>. HIDE DEF there, after, last
<1>5. Cardinality(after) = IF x = Lost THEN Cardinality(there) ELSE Cardinality(there) + 1
  BY <1>2, <1>3, <1>4, FS_AddElement
<1>. QED
  BY <1>5 DEF Held, t, there, after

(* The parts of an entry that a line changes. *)
LEMMA EntryAfterLine ==
  ASSUME NEW e \in Entry, NEW w, NEW r
  PROVE  [e EXCEPT !.written = w, !.rotating = r] =
           [fp |-> e.fp, written |-> w, level |-> e.level, rotating |-> r]
<1>1. DOMAIN e = {"fp", "written", "level", "rotating"}
  BY DEF Entry
<1>. DEFINE new == [e EXCEPT !.written = w, !.rotating = r]
<1>2. /\ DOMAIN new = {"fp", "written", "level", "rotating"}
      /\ new.fp = e.fp /\ new.written = w /\ new.level = e.level /\ new.rotating = r
      /\ new = [n \in DOMAIN new |-> new[n]]
  BY <1>1
<1>. HIDE DEF new
<1>3. new = [fp |-> e.fp, written |-> w, level |-> e.level, rotating |-> r]
  BY <1>2
<1>. QED
  BY <1>3 DEF new

(* And the two names, when a rename changes both. *)
LEMMA NamesAfterRename ==
  ASSUME NEW e \in Disk, NEW c, NEW o
  PROVE  [e EXCEPT !.cur = c, !.old = o] = [cur |-> c, old |-> o, data |-> e.data]
<1>1. DOMAIN e = {"cur", "old", "data"}
  BY DEF Disk
<1>. DEFINE new == [e EXCEPT !.cur = c, !.old = o]
<1>2. /\ DOMAIN new = {"cur", "old", "data"}
      /\ new.cur = c /\ new.old = o /\ new.data = e.data
      /\ new = [n \in DOMAIN new |-> new[n]]
  BY <1>1
<1>. HIDE DEF new
<1>3. new = [cur |-> c, old |-> o, data |-> e.data]
  BY <1>2
<1>. QED
  BY <1>3 DEF new

(* What the constants are. *)
LEMMA LogConstants ==
  /\ UA_LOG_CAP \in Nat \ {0} /\ MaxLines \in Nat /\ MaxFaults \in Nat /\ MaxCrashes \in Nat
  /\ None \notin Inode /\ None = 0 /\ Inode \subseteq Nat /\ Closed \in Entry /\ Closed.fp = None
  /\ Closed.rotating = "no" /\ Closed.level = INFO /\ Closed.written = 0
<1>1. Cardinality(Launch) \in Nat
  BY FS_CardinalityType, LogAssumption
<1>. QED
  BY <1>1, LogAssumption DEF Inode, None, Closed, Entry, INFO, DEBUG

(* The parts of the two records. *)
LEMMA LogTypes ==
  ASSUME LogTypeOK
  PROVE  /\ disk \in Disk /\ log \in [Launch -> Entry]
         /\ disk.cur \in Inode \cup {None} /\ disk.old \in Inode \cup {None}
         /\ disk.data \in [Inode -> Seq(Mark)]
         /\ \A i \in Launch : /\ log[i].fp \in Inode \cup {None} /\ log[i].written \in Nat
                              /\ log[i].level \in {INFO, DEBUG}
                              /\ log[i].rotating \in {"no", "remove", "rename", "open"}
         /\ CurLines = IF disk.cur = None THEN <<>> ELSE disk.data[disk.cur]
         /\ OldLines = IF disk.old = None THEN <<>> ELSE disk.data[disk.old]
         /\ CurLines \in Seq(Mark) /\ OldLines \in Seq(Mark)
         /\ Len(CurLines) \in Nat /\ Len(OldLines) \in Nat
         /\ CurHeld \in Nat /\ OldHeld \in Nat /\ CurHeld <= Len(CurLines)
         /\ said \in Nat /\ faults \in Nat /\ crashes \in Nat /\ excess \in Nat
<1>1. disk \in Disk /\ log \in [Launch -> Entry]
  BY DEF LogTypeOK, Disk, Entry, Mark
<1>2. /\ disk.cur \in Inode \cup {None} /\ disk.old \in Inode \cup {None}
      /\ disk.data \in [Inode -> Seq(Mark)]
  BY <1>1 DEF Disk
<1>3. \A i \in Launch : /\ log[i].fp \in Inode \cup {None} /\ log[i].written \in Nat
                        /\ log[i].level \in {INFO, DEBUG}
                        /\ log[i].rotating \in {"no", "remove", "rename", "open"}
  <2>. TAKE i \in Launch
  <2>1. log[i] \in Entry
    BY <1>1
  <2>. QED
    BY <2>1 DEF Entry
<1>4. /\ CurLines = IF disk.cur = None THEN <<>> ELSE disk.data[disk.cur]
      /\ OldLines = IF disk.old = None THEN <<>> ELSE disk.data[disk.old]
  BY DEF CurLines, OldLines, Under
<1>5. CurLines \in Seq(Mark) /\ OldLines \in Seq(Mark)
  BY <1>2, <1>4, EmptyFile, Zenon
<1>6. CurHeld \in Nat /\ OldHeld \in Nat /\ CurHeld <= Len(CurLines)
  BY <1>5, HeldFacts DEF CurHeld, OldHeld
<1>. QED
  BY <1>1, <1>2, <1>3, <1>4, <1>5, <1>6, LogConstants DEF LogTypeOK

(* One launch's FILE changes, and the disk with it: what is under a name   *)
(* or open stays, and the rest is forgotten.                               *)
LEMMA BecomesFacts ==
  ASSUME log \in [Launch -> Entry], NEW d \in Disk, NEW i \in Launch, NEW entry \in Entry,
         Becomes(d, i, entry)
  PROVE  /\ disk' \in Disk /\ log' \in [Launch -> Entry]
         /\ log'[i] = entry /\ \A j \in Launch \ {i} : log'[j] = log[j]
         /\ disk'.cur = d.cur /\ disk'.old = d.old
         /\ CurLines' = IF d.cur = None THEN <<>> ELSE d.data[d.cur]
         /\ OldLines' = IF d.old = None THEN <<>> ELSE d.data[d.old]
         /\ \A n \in Inode \ Live(disk', log') : disk'.data[n] = <<>>
<1>1. /\ log' \in [Launch -> Entry]
      /\ log'[i] = entry /\ \A j \in Launch \ {i} : log'[j] = log[j]
  BY DEF Becomes
<1>2. d.data \in [Inode -> Seq(Mark)] /\ d.cur \in Inode \cup {None}
      /\ d.old \in Inode \cup {None}
  BY DEF Disk
<1>3. disk' = [d EXCEPT !.data = [n \in Inode |-> IF n \in Live(d, log') THEN @[n] ELSE <<>>]]
  BY DEF Becomes, Reclaimed
<1>. DEFINE kept == [n \in Inode |-> IF n \in Live(d, log') THEN d.data[n] ELSE <<>>]
<1>4. kept \in [Inode -> Seq(Mark)]
  BY <1>2, EmptyFile, Zenon
<1>5. disk' = [cur |-> d.cur, old |-> d.old, data |-> kept]
  BY <1>3 DEF Disk
<1>. HIDE DEF kept
<1>6. disk' \in Disk /\ disk'.cur = d.cur /\ disk'.old = d.old /\ disk'.data = kept
  BY <1>2, <1>4, <1>5 DEF Disk
<1>7. Live(disk', log') = Live(d, log')
  BY <1>6 DEF Live
<1>8. \A n \in {d.cur, d.old} : n # None => n \in Inode /\ kept[n] = d.data[n]
  BY <1>2 DEF Live, kept
<1>9. \A n \in Inode \ Live(disk', log') : disk'.data[n] = <<>>
  BY <1>6, <1>7 DEF kept
<1>. QED
  BY <1>1, <1>6, <1>8, <1>9 DEF CurLines, OldLines, Under

(* While there is no current file there is an inode for the next one, and  *)
(* it is empty.                                                            *)
LEMMA FreeInodeFacts ==
  ASSUME LogTyped, disk.cur = None
  PROVE  /\ FreeInode \in Inode /\ FreeInode # None /\ disk.data[FreeInode] = <<>>
         /\ FreeInode # disk.old /\ \A i \in Launch : log[i].fp # FreeInode
<1>. DEFINE fps == {log[i].fp : i \in Launch}
            c   == Cardinality(Launch)
            all == fps \cup {disk.old}
<1>1. IsFiniteSet(Launch) /\ c \in Nat
  BY LogAssumption, FS_CardinalityType
<1>2. IsFiniteSet(fps) /\ Cardinality(fps) <= c
  <2>. DEFINE f == [i \in Launch |-> log[i].fp]
  <2>1. f \in Surjection(Launch, fps)
    BY DEF Surjection
  <2>. HIDE DEF f, fps
  <2>. QED
    BY <1>1, <2>1, FS_Surjection
<1>. HIDE DEF fps
<1>3. IsFiniteSet(all) /\ Cardinality(all) <= c + 1 /\ Cardinality(all) \in Nat
  <2>1. Cardinality(fps) \in Nat
    BY <1>2, FS_CardinalityType
  <2>2. IsFiniteSet(all) /\ Cardinality(all) <= Cardinality(fps) + 1
    BY <1>2, <2>1, FS_AddElement
  <2>3. Cardinality(all) \in Nat
    BY <2>2, FS_CardinalityType
  <2>. HIDE DEF all
  <2>. QED
    BY <1>1, <1>2, <2>1, <2>2, <2>3
<1>4. ~(Inode \subseteq Live(disk, log))
  <2>. SUFFICES ASSUME Inode \subseteq Live(disk, log) PROVE FALSE
    OBVIOUS
  <2>1. Cardinality(Inode) = c + 2
    BY <1>1, FS_Interval DEF Inode
  <2>2. Inode \in SUBSET all
    BY DEF Live, fps
  <2>. HIDE DEF all
  <2>3. Cardinality(Inode) <= Cardinality(all)
    BY <1>3, <2>2, FS_Subset
  <2>. QED
    BY <1>1, <1>3, <2>1, <2>3
<1>5. FreeInode \in Inode /\ FreeInode \notin Live(disk, log)
  BY <1>4 DEF FreeInode
<1>. QED
  BY <1>5, LogConstants DEF LogTyped, Live

-------------------------------------------------------------------------------
(* What a step of launch i leaves known about who shares the log. *)
Shares(i) ==
  /\ shared' \in {"no", "open", "rotated"}
  /\ shared' # "rotated" => shared # "rotated"
  /\ shared' = "no" => shared = "no" /\ \A j \in Launch \ {i} : log[j] = Closed

(* A launch that opens the log, or rotates it, while others have it open,  *)
(* says so.                                                                *)
LEMMA SharingFacts ==
  ASSUME LogInv, NEW i \in Launch, NEW how \in {"open", "rotated"}, Sharing(i, how)
  PROVE  /\ Shares(i)
         /\ how = "rotated" /\ shared' # "rotated" => \A j \in Launch \ {i} : log[j] = Closed
<1>1. shared \in {"no", "open", "rotated"}
  BY DEF LogInv, LogTyped, LogTypeOK
<1>. QED
  BY <1>1 DEF Sharing, InUseByOthers, Shares

(* And one that has it open alone stays alone. *)
LEMMA AloneShares ==
  ASSUME LogInv, NEW i \in Launch, log[i] # Closed, UNCHANGED shared
  PROVE  Shares(i)
<1>1. shared \in {"no", "open", "rotated"}
  BY DEF LogInv, LogTyped, LogTypeOK
<1>. QED
  BY <1>1 DEF LogInv, AloneOK, Shares

(* What an attempt to open the log may come to. *)
Opened(i, lvl) ==
  /\ disk'.cur # None
  /\ IF disk.cur # None THEN disk'.cur = disk.cur ELSE disk'.cur # disk.old
  /\ \E w \in Nat :
       /\ log'[i] = [fp |-> disk'.cur, written |-> w, level |-> lvl, rotating |-> "no"]
       /\ \/ w = CurHeld /\ excess' = excess
          \/ w = 0 /\ excess' = excess + UA_LOG_CAP

NotOpened(i, lvl) ==
  /\ disk'.cur = disk.cur /\ excess' = excess
  /\ log'[i] = [fp |-> None, written |-> 0, level |-> lvl, rotating |-> "no"]

(* log_open_current leaves what the names hold as it is. *)
LEMMA OpenFacts ==
  ASSUME LogInv, NEW i \in Launch, NEW lvl \in {INFO, DEBUG}, OpenCurrent(i, lvl)
  PROVE  /\ disk' \in Disk /\ log' \in [Launch -> Entry]
         /\ \A j \in Launch \ {i} : log'[j] = log[j]
         /\ \A n \in Inode \ Live(disk', log') : disk'.data[n] = <<>>
         /\ CurLines' = CurLines /\ OldLines' = OldLines /\ disk'.old = disk.old
         /\ faults' \in 0..MaxFaults
         /\ Opened(i, lvl) \/ NotOpened(i, lvl)
         /\ UNCHANGED <<said, crashes>>
<1>. USE LogConstants
<1>1. LogTypeOK /\ LogTyped
  BY DEF LogInv, LogTyped
<1>2. UNCHANGED <<said, crashes>> /\ faults' \in 0..MaxFaults
  <2>1. faults \in 0..MaxFaults /\ MaxFaults \in Nat
    BY <1>1 DEF LogTypeOK
  <2>. QED
    BY <2>1 DEF OpenCurrent, Fault
<1>3. CASE Becomes(disk, i, [Closed EXCEPT !.level = lvl]) /\ UNCHANGED excess
  <2>. DEFINE entry == [fp |-> None, written |-> 0, level |-> lvl, rotating |-> "no"]
  <2>1. [Closed EXCEPT !.level = lvl] = entry /\ entry \in Entry
    BY DEF Closed, Entry
  <2>. HIDE DEF entry
  <2>3. Becomes(disk, i, entry)
    BY <1>3, <2>1
  <2>4. /\ disk' \in Disk /\ log' \in [Launch -> Entry]
        /\ log'[i] = entry /\ \A j \in Launch \ {i} : log'[j] = log[j]
        /\ disk'.cur = disk.cur /\ disk'.old = disk.old
        /\ CurLines' = CurLines /\ OldLines' = OldLines
        /\ \A n \in Inode \ Live(disk', log') : disk'.data[n] = <<>>
    BY <1>1, <2>1, <2>3, BecomesFacts, LogTypes
  <2>. QED
    BY <1>2, <1>3, <2>4 DEF entry, NotOpened
<1>4. ASSUME NEW w \in Nat, OpenedAt(i, lvl, w),
             \/ w = Held(disk.data[OpenFile]) /\ excess' = excess
             \/ w = 0 /\ excess' = excess + UA_LOG_CAP
      PROVE  /\ disk' \in Disk /\ log' \in [Launch -> Entry]
             /\ \A j \in Launch \ {i} : log'[j] = log[j]
             /\ \A n \in Inode \ Live(disk', log') : disk'.data[n] = <<>>
             /\ CurLines' = CurLines /\ OldLines' = OldLines /\ disk'.old = disk.old
             /\ Opened(i, lvl)
  <2>1. /\ OpenFile \in Inode /\ OpenFile # None /\ disk.data[OpenFile] = CurLines
        /\ IF disk.cur # None THEN OpenFile = disk.cur ELSE OpenFile # disk.old
    BY <1>1, FreeInodeFacts, LogTypes DEF OpenFile
  <2>. DEFINE d     == [cur |-> OpenFile, old |-> disk.old, data |-> disk.data]
              entry == [fp |-> OpenFile, written |-> w, level |-> lvl, rotating |-> "no"]
  <2>2. [disk EXCEPT !.cur = OpenFile] = d /\ d \in Disk
    BY <1>1, <2>1, LogTypes DEF Disk
  <2>3. entry \in Entry
    BY <1>1, <2>1, LogTypes DEF Entry
  <2>4. Becomes(d, i, entry)
    BY <1>4, <2>1, <2>2 DEF OpenedAt
  <2>5. d.cur = OpenFile /\ d.old = disk.old /\ d.data = disk.data
    OBVIOUS
  <2>. HIDE DEF d, entry
  <2>6. /\ disk' \in Disk /\ log' \in [Launch -> Entry]
        /\ log'[i] = entry /\ \A j \in Launch \ {i} : log'[j] = log[j]
        /\ disk'.cur = OpenFile /\ disk'.old = disk.old
        /\ CurLines' = disk.data[OpenFile]
        /\ OldLines' = IF disk.old = None THEN <<>> ELSE disk.data[disk.old]
        /\ \A n \in Inode \ Live(disk', log') : disk'.data[n] = <<>>
    BY <1>1, <2>1, <2>2, <2>3, <2>4, <2>5, BecomesFacts, LogTypes
  <2>7. CurLines' = CurLines /\ OldLines' = OldLines
    BY <1>1, <2>1, <2>6, LogTypes
  <2>8. log'[i] = [fp |-> disk'.cur, written |-> w, level |-> lvl, rotating |-> "no"]
    BY <2>6 DEF entry
  <2>9. Opened(i, lvl)
    <3>1. \/ w = CurHeld /\ excess' = excess
          \/ w = 0 /\ excess' = excess + UA_LOG_CAP
      BY <1>4, <2>1 DEF CurHeld
    <3>2. /\ disk'.cur # None
          /\ IF disk.cur # None THEN disk'.cur = disk.cur ELSE disk'.cur # disk.old
      BY <2>1, <2>6
    <3>. QED
      BY <2>8, <3>1, <3>2, Zenon DEF Opened
  <2>. QED
    BY <2>6, <2>7, <2>9
<1>5. CASE OpenedAt(i, lvl, Held(disk.data[OpenFile])) /\ UNCHANGED excess
  <2>1. Held(disk.data[OpenFile]) \in Nat
    <3>1. OpenFile \in Inode
      BY <1>1, FreeInodeFacts, LogTypes DEF OpenFile
    <3>. QED
      BY <1>1, <3>1, LogTypes, HeldFacts
  <2>. QED
    BY <1>2, <1>4, <1>5, <2>1
<1>6. CASE OpenedAt(i, lvl, 0) /\ excess' = excess + UA_LOG_CAP
  BY <1>2, <1>4, <1>6
<1>. QED
  BY <1>3, <1>5, <1>6 DEF OpenCurrent

(* A launch opens the log, first or after a rotation (log_open_current). *)
LEMMA OpenKeepsInv ==
  ASSUME LogInv, NEW i \in Launch, NEW lvl \in {INFO, DEBUG}, OpenCurrent(i, lvl),
         log[i].rotating \in {"no", "open"}, Shares(i)
  PROVE  LogInv'
<1>. USE LogConstants
<1>1. LogTypeOK /\ LogTyped
  BY DEF LogInv, LogTyped
<1>2. /\ log'[i].rotating = "no"
      /\ \/ /\ log'[i].fp = disk'.cur /\ disk'.cur # None /\ log'[i].written \in Nat
            /\ \/ log'[i].written = CurHeld /\ excess' = excess
               \/ log'[i].written = 0 /\ excess' = excess + UA_LOG_CAP
            /\ IF disk.cur # None THEN disk'.cur = disk.cur ELSE disk'.cur # disk.old
         \/ log'[i].fp = None /\ disk'.cur = disk.cur /\ excess' = excess
  <2>1. CASE Opened(i, lvl)
    BY <2>1 DEF Opened
  <2>2. CASE NotOpened(i, lvl)
    BY <2>2 DEF NotOpened
  <2>. QED
    BY <2>1, <2>2, OpenFacts
<1>3. /\ \A j \in Launch \ {i} : log'[j] = log[j]
      /\ CurLines' = CurLines /\ OldLines' = OldLines /\ disk'.old = disk.old
      /\ UNCHANGED <<said, crashes>>
  BY OpenFacts
<1>4. LogTyped'
  <2>1. faults' \in 0..MaxFaults /\ excess' \in Nat
    BY <1>1, <1>2, OpenFacts, LogTypes DEF LogTypeOK
  <2>2. disk' \in Disk /\ log' \in [Launch -> Entry]
    BY OpenFacts
  <2>3. LogTypeOK'
    BY <1>1, <1>3, <2>1, <2>2 DEF LogTypeOK, Disk, Entry, Mark, Shares
  <2>4. (\A n \in Inode \ Live(disk, log) : disk.data[n] = <<>>)'
    BY OpenFacts
  <2>. QED
    BY <1>1, <1>2, <1>3, <2>3, <2>4 DEF LogTyped
<1>5. \A j \in Launch : Rotating(j)' <=> Rotating(j)
  BY <1>2, <1>3 DEF Rotating
<1>6. FilesOK'
  <2>. SUFFICES ASSUME shared' # "rotated" PROVE FilesOK'
    BY DEF FilesOK
  <2>1. /\ disk.cur # None => disk.cur # disk.old
        /\ \A j \in Launch : log[j].fp # None =>
             log[j].fp = disk.cur /\ log[j].written <= Len(CurLines)
        /\ \A j \in Launch : Rotating(j) => disk.cur # None /\ Len(CurLines) >= UA_LOG_CAP
    BY DEF LogInv, FilesOK, Shares
  <2>2. disk'.cur # None => disk'.cur # disk'.old
    BY <1>2, <1>3, <2>1
  <2>3. disk.cur # None => disk'.cur = disk.cur
    BY <1>2
  <2>4. ASSUME NEW j \in Launch, log'[j].fp # None
        PROVE  log'[j].fp = disk'.cur /\ log'[j].written <= Len(CurLines)
    <3>1. CASE j = i
      BY <1>1, <1>2, <2>4, <3>1, LogTypes
    <3>2. CASE j # i
      BY <1>3, <2>1, <2>3, <2>4, <3>2
    <3>. QED
      BY <3>1, <3>2
  <2>5. ASSUME NEW j \in Launch, Rotating(j)'
        PROVE  disk'.cur # None /\ Len(CurLines) >= UA_LOG_CAP
    BY <1>5, <2>1, <2>3, <2>5
  <2>. QED
    BY <1>3, <2>2, <2>4, <2>5 DEF FilesOK
<1>7. LinesOK'
  BY <1>3 DEF LogInv, LinesOK, Shares, Numbered
<1>8. AloneOK'
  <2>. SUFFICES ASSUME shared' = "no" PROVE AloneOK'
    BY DEF AloneOK
  <2>1. \A j \in Launch \ {i} : log[j] = Closed /\ log'[j] = Closed
    BY <1>3 DEF Shares
  <2>2. /\ \A j, k \in Launch : log'[j] # Closed /\ log'[k] # Closed => j = k
        /\ \A j \in Launch : ~Rotating(j) /\ ~Rotating(j)'
        /\ \A j \in Launch : log'[j].fp # None => j = i
    BY <1>2, <2>1 DEF Rotating
  <2>3. CurHeld' = CurHeld /\ OldHeld' = OldHeld
    BY <1>3 DEF CurHeld, OldHeld
  <2>4. CurHeld \in Nat /\ OldHeld \in Nat /\ excess \in Nat
    BY <1>1, LogTypes
  <2>5. Fits(UA_LOG_CAP) /\ Fits(OldHeld)
    BY DEF LogInv, AloneOK, Shares
  <2>6. log'[i].fp # None => \/ log'[i].written = CurHeld /\ excess' = excess
                             \/ log'[i].written = 0 /\ excess' = excess + UA_LOG_CAP
    BY <1>2
  <2>7. excess' = excess \/ excess' = excess + UA_LOG_CAP
    BY <1>2
  <2>8. ASSUME NEW m \in Nat, Fits(m) PROVE Fits(m)'
    <3>1. /\ m + UA_LOG_CAP <= 2 * UA_LOG_CAP + excess
          /\ m + CurHeld <= 2 * UA_LOG_CAP + excess
          /\ CurHeld < UA_LOG_CAP \/ m + (CurHeld + 1) <= 2 * UA_LOG_CAP + excess
      BY <2>2, <2>8 DEF Fits, Room
    <3>2. /\ m + UA_LOG_CAP <= 2 * UA_LOG_CAP + excess'
          /\ m + CurHeld <= 2 * UA_LOG_CAP + excess'
          /\ CurHeld < UA_LOG_CAP \/ m + (CurHeld + 1) <= 2 * UA_LOG_CAP + excess'
          /\ log'[i].fp # None =>
               m + (CurHeld + (UA_LOG_CAP - log'[i].written)) <= 2 * UA_LOG_CAP + excess'
      BY <2>4, <2>6, <2>7, <3>1
    <3>. QED
      BY <2>2, <2>3, <3>2 DEF Fits, Room
  <2>9. log'[i].fp # None /\ log'[i].written >= UA_LOG_CAP => CurHeld' >= UA_LOG_CAP
    BY <2>3, <2>4, <2>6
  <2>. QED
    BY <2>2, <2>3, <2>4, <2>5, <2>8, <2>9 DEF AloneOK
<1>. QED
  BY <1>4, <1>6, <1>7, <1>8 DEF LogInv

(* A launch closes the log, or dies with a rotation where it was (log_close *)
(* and a crash).                                                           *)
LEMMA CloseKeepsInv ==
  ASSUME LogInv, NEW i \in Launch, Becomes(disk, i, Closed), UNCHANGED <<said, faults, shared>>,
         crashes' \in 0..MaxCrashes,
         IF Rotating(i) THEN crashes' = crashes + 1 /\ excess' = excess + 1
         ELSE crashes' >= crashes /\ excess' = excess
  PROVE  LogInv'
<1>. USE LogConstants
<1>1. LogTypeOK /\ LogTyped
  BY DEF LogInv, LogTyped
<1>2. /\ disk' \in Disk /\ log' \in [Launch -> Entry]
      /\ log'[i] = Closed /\ \A j \in Launch \ {i} : log'[j] = log[j]
      /\ disk'.cur = disk.cur /\ disk'.old = disk.old
      /\ CurLines' = CurLines /\ OldLines' = OldLines
      /\ \A n \in Inode \ Live(disk', log') : disk'.data[n] = <<>>
  BY <1>1, BecomesFacts, LogTypes
<1>3. \A j \in Launch : /\ log'[j].fp # None => j # i
                        /\ Rotating(j)' => j # i /\ Rotating(j)
  BY <1>2 DEF Rotating
<1>4. LogTyped'
  <2>1. excess' \in Nat
    BY <1>1, LogTypes
  <2>2. LogTypeOK'
    BY <1>1, <1>2, <2>1 DEF LogTypeOK, Disk, Entry, Mark
  <2>. QED
    BY <1>1, <1>2, <2>2 DEF LogTyped
<1>5. FilesOK'
  BY <1>2, <1>3 DEF LogInv, FilesOK
<1>6. LinesOK'
  BY <1>2 DEF LogInv, LinesOK, Numbered
<1>7. AloneOK'
  <2>. SUFFICES ASSUME shared' = "no" PROVE AloneOK'
    BY DEF AloneOK
  <2>1. /\ \A j, k \in Launch : log[j] # Closed /\ log[k] # Closed => j = k
        /\ \A j \in Launch : log[j].fp # None /\ ~Rotating(j) /\ log[j].written >= UA_LOG_CAP =>
             CurHeld >= UA_LOG_CAP
        /\ Fits(UA_LOG_CAP) /\ Fits(OldHeld)
    BY DEF LogInv, AloneOK
  <2>2. /\ \A j, k \in Launch : log'[j] # Closed /\ log'[k] # Closed => j = k
        /\ \A j \in Launch : log'[j].fp # None => log'[j] = log[j]
        /\ \A j \in Launch : ~Rotating(j)' /\ j # i => ~Rotating(j)
    BY <1>2, <1>3, <2>1 DEF Rotating
  <2>3. CurHeld' = CurHeld /\ OldHeld' = OldHeld
    BY <1>2 DEF CurHeld, OldHeld
  <2>4. CurHeld \in Nat /\ OldHeld \in Nat /\ excess \in Nat
    BY <1>1, LogTypes
  <2>5. IF Rotating(i) THEN excess' = excess + 1 ELSE excess' = excess
    OBVIOUS
  <2>6. ASSUME NEW j \in Launch, log'[j].fp # None, ~Rotating(j)'
        PROVE  ~Rotating(j) /\ log[j].fp # None /\ log'[j].written = log[j].written
               /\ log[j].written \in Nat
    <3>1. log'[j] = log[j]
      BY <2>2, <2>6
    <3>. QED
      BY <1>1, <2>6, <3>1, LogTypes DEF Rotating
  <2>7. ASSUME NEW m \in Nat, Fits(m) PROVE Fits(m)'
    <3>1. m + UA_LOG_CAP <= 2 * UA_LOG_CAP + excess /\ m + CurHeld <= 2 * UA_LOG_CAP + excess
      BY <2>7 DEF Fits, Room
    <3>2. m + UA_LOG_CAP <= 2 * UA_LOG_CAP + excess' /\ m + CurHeld <= 2 * UA_LOG_CAP + excess'
      BY <2>4, <2>5, <3>1
    <3>3. ASSUME \A j \in Launch : ~Rotating(j)'
          PROVE  CurHeld < UA_LOG_CAP \/ m + (CurHeld + 1) <= 2 * UA_LOG_CAP + excess'
      <4>1. CASE Rotating(i)
        BY <2>4, <2>5, <3>1, <4>1
      <4>2. CASE ~Rotating(i)
        <5>1. \A j \in Launch : ~Rotating(j)
          BY <2>2, <3>3, <4>2
        <5>. QED
          BY <2>5, <2>7, <4>2, <5>1 DEF Fits, Room
      <4>. QED
        BY <4>1, <4>2
    <3>4. ASSUME NEW j \in Launch, log'[j].fp # None, ~Rotating(j)'
          PROVE  m + (CurHeld + (UA_LOG_CAP - log'[j].written)) <= 2 * UA_LOG_CAP + excess'
      <4>1. m + (CurHeld + (UA_LOG_CAP - log[j].written)) <= 2 * UA_LOG_CAP + excess
        BY <2>6, <2>7, <3>4 DEF Fits, Room
      <4>2. log'[j].written = log[j].written /\ log[j].written \in Nat
        BY <2>6, <3>4
      <4>. QED
        BY <2>4, <2>5, <4>1, <4>2
    <3>. QED
      BY <2>3, <3>2, <3>3, <3>4 DEF Fits, Room
  <2>8. \A j \in Launch : log'[j].fp # None /\ ~Rotating(j)' /\ log'[j].written >= UA_LOG_CAP =>
           CurHeld >= UA_LOG_CAP
    BY <2>1, <2>6
  <2>. QED
    BY <2>1, <2>2, <2>3, <2>4, <2>7, <2>8 DEF AloneOK
<1>. QED
  BY <1>4, <1>5, <1>6, <1>7 DEF LogInv

(* A step that leaves the log alone. *)
LEMMA LogStutters ==
  ASSUME LogInv, UNCHANGED logVars
  PROVE  LogInv'
<1>. USE DEF logVars
<1>1. LogTyped'
  BY DEF LogInv, LogTyped, LogTypeOK, Live
<1>2. CurLines' = CurLines /\ OldLines' = OldLines
  BY DEF CurLines, OldLines, Under
<1>3. FilesOK'
  BY <1>2 DEF LogInv, FilesOK, Rotating
<1>4. LinesOK'
  BY <1>2 DEF LogInv, LinesOK, Numbered
<1>5. AloneOK'
  BY <1>2 DEF LogInv, AloneOK, Fits, Room, CurHeld, OldHeld, Rotating
<1>. QED
  BY <1>1, <1>3, <1>4, <1>5 DEF LogInv

(* A call that fails outside of the log. *)
LEMMA FaultStutters ==
  ASSUME LogInv, UNCHANGED <<disk, log, said, crashes, excess, shared>>,
         UNCHANGED faults \/ Fault
  PROVE  LogInv'
<1>1. LogTyped'
  <2>1. faults' \in 0..MaxFaults
    BY LogAssumption DEF LogInv, LogTyped, LogTypeOK, Fault
  <2>. QED
    BY <2>1 DEF LogInv, LogTyped, LogTypeOK, Live
<1>2. CurLines' = CurLines /\ OldLines' = OldLines
  BY DEF CurLines, OldLines, Under
<1>3. FilesOK'
  BY <1>2 DEF LogInv, FilesOK, Rotating
<1>4. LinesOK'
  BY <1>2 DEF LogInv, LinesOK, Numbered
<1>5. AloneOK'
  BY <1>2 DEF LogInv, AloneOK, Fits, Room, CurHeld, OldHeld, Rotating
<1>. QED
  BY <1>1, <1>3, <1>4, <1>5 DEF LogInv

(* A line is written (ua_log_write): the last one, in the current file. *)
LEMMA WriteKeepsInv ==
  ASSUME LogInv, NEW i \in Launch, NEW lvl, LogWrite(i, lvl)
  PROVE  LogInv'
<1>. USE LogConstants
<1>1. LogTypeOK /\ LogTyped
  BY DEF LogInv, LogTyped
<1>2. CASE UNCHANGED logVars
  BY <1>2, LogStutters
<1>3. CASE ~UNCHANGED logVars
  <2>. DEFINE f       == log[i].fp
              written == log[i].written + 1
              rot     == IF written >= UA_LOG_CAP THEN "remove" ELSE "no"
  <2>1. /\ log[i].rotating = "no" /\ f # None /\ said < MaxLines /\ said' = said + 1
        /\ log' = [log EXCEPT ![i].written = written, ![i].rotating = rot]
        /\ \/ disk' = [disk EXCEPT !.data[f] = Append(@, said')] /\ UNCHANGED faults
           \/ disk' = [disk EXCEPT !.data[f] = Append(@, Lost)] /\ Fault
        /\ UNCHANGED <<crashes, excess, shared>>
    BY <1>3 DEF LogWrite
  <2>0. faults' \in 0..MaxFaults
    <3>1. faults \in 0..MaxFaults /\ MaxFaults \in Nat
      BY <1>1 DEF LogTypeOK
    <3>2. UNCHANGED faults \/ Fault
      BY <2>1
    <3>. QED
      BY <3>1, <3>2 DEF Fault
  <2>14. PICK left \in {said', Lost} : disk' = [disk EXCEPT !.data[f] = Append(@, left)]
    BY <2>1, Zenon
  <2>2. f \in Inode /\ log[i].written \in Nat /\ written \in Nat
    <3>1. log[i].fp \in Inode \cup {None} /\ log[i].written \in Nat
      BY <1>1, LogTypes
    <3>. QED
      BY <2>1, <3>1
  <2>3. /\ log' \in [Launch -> Entry]
        /\ log'[i] = [fp |-> f, written |-> written, level |-> log[i].level, rotating |-> rot]
        /\ \A j \in Launch \ {i} : log'[j] = log[j]
    <3>1. log[i] \in Entry /\ log \in [Launch -> Entry]
      BY <1>1, LogTypes
    <3>2. rot \in {"no", "remove"}
      OBVIOUS
    <3>. HIDE DEF written, rot
    <3>. DEFINE entry == [fp |-> f, written |-> written, level |-> log[i].level,
                          rotating |-> rot]
    <3>4. entry \in Entry
      BY <2>2, <3>1, <3>2 DEF Entry
    <3>5. [log[i] EXCEPT !.written = written, !.rotating = rot] = entry
      BY <3>1, EntryAfterLine
    <3>3. log' = [log EXCEPT ![i] = entry]
      BY <2>1, <3>1, <3>5
    <3>. QED
      BY <3>1, <3>3, <3>4
  <2>4. /\ disk'.cur = disk.cur /\ disk'.old = disk.old /\ disk' \in Disk
        /\ disk'.data[f] = Append(disk.data[f], left)
        /\ \A n \in Inode \ {f} : disk'.data[n] = disk.data[n]
    <3>1. left \in Mark
      BY <1>1, <2>1, LogTypes DEF Mark
    <3>2. disk.data[f] \in Seq(Mark) /\ disk \in Disk
      BY <1>1, <2>2, LogTypes
    <3>3. Append(disk.data[f], left) \in Seq(Mark)
      BY <3>1, <3>2
    <3>. DEFINE new == [disk.data EXCEPT ![f] = Append(disk.data[f], left)]
    <3>4. new \in [Inode -> Seq(Mark)] /\ new[f] = Append(disk.data[f], left)
          /\ \A n \in Inode \ {f} : new[n] = disk.data[n]
      BY <2>2, <3>2, <3>3, LogTypes, <1>1
    <3>5. disk' = [cur |-> disk.cur, old |-> disk.old, data |-> new]
      BY <2>14, <3>2 DEF Disk
    <3>. HIDE DEF new
    <3>6. disk'.cur = disk.cur /\ disk'.old = disk.old /\ disk'.data = new /\ disk' \in Disk
      BY <1>1, <3>4, <3>5, LogTypes DEF Disk
    <3>. QED
      BY <3>4, <3>6
  <2>. HIDE DEF f, written, rot
  <2>5. LogTyped'
    <3>1. LogTypeOK'
      <4>1. said' \in 0..MaxLines
        BY <1>1, <2>1, LogTypes
      <4>. QED
        BY <1>1, <2>0, <2>1, <2>3, <2>4, <4>1 DEF LogTypeOK, Disk, Entry, Mark
    <3>2. Live(disk', log') = Live(disk, log)
      BY <2>3, <2>4 DEF Live, f
    <3>3. f \in Live(disk, log)
      BY <2>1 DEF Live, f
    <3>4. \A n \in Inode \ Live(disk', log') : disk'.data[n] = <<>>
      BY <1>1, <2>4, <3>2, <3>3 DEF LogTyped
    <3>. QED
      <4>1. log'[i].fp # None /\ log'[i].rotating \in {"no", "remove"}
        BY <2>1, <2>3 DEF f, rot
      <4>2. \A j \in Launch : /\ log'[j].rotating \in {"rename", "open"} => log'[j].fp = None
                              /\ log'[j].rotating = "remove" => log'[j].fp # None
        BY <1>1, <2>3, <4>1 DEF LogTyped
      <4>. QED
        BY <1>1, <2>1, <3>1, <3>4, <4>2 DEF LogTyped
  <2>. SUFFICES ASSUME shared # "rotated" PROVE LogInv'
    BY <1>1, <2>1, <2>5 DEF LogInv, FilesOK, LinesOK, AloneOK, LogTypeOK
  <2>6. f = disk.cur /\ disk.cur # disk.old /\ log[i].written <= Len(CurLines)
    BY <2>1 DEF LogInv, FilesOK, f
  <2>7. /\ CurLines' = Append(CurLines, left) /\ OldLines' = OldLines
        /\ Len(CurLines') = Len(CurLines) + 1
    <3>1. CurLines' = Append(CurLines, left)
      BY <1>1, <2>1, <2>4, <2>6, LogTypes DEF CurLines, Under
    <3>2. OldLines' = OldLines
      BY <1>1, <2>4, <2>6, LogTypes DEF OldLines, Under
    <3>. QED
      BY <1>1, <3>1, <3>2, LogTypes
  <2>8. \A j \in Launch : Rotating(j) => j # i /\ Rotating(j)'
    BY <2>1, <2>3 DEF Rotating
  <2>9. \A j \in Launch \ {i} : Rotating(j)' => Rotating(j)
    BY <2>3 DEF Rotating
  <2>10. Rotating(i)' => Len(CurLines') >= UA_LOG_CAP
    BY <1>1, <2>2, <2>3, <2>6, <2>7, LogTypes DEF Rotating, rot, written
  <2>11. FilesOK'
    <3>1. ASSUME NEW j \in Launch, log'[j].fp # None
          PROVE  log'[j].fp = disk'.cur /\ log'[j].written <= Len(CurLines')
      <4>. Len(CurLines) \in Nat /\ log[j].written \in Nat
        BY <1>1, LogTypes
      <4>1. CASE j = i
        BY <2>2, <2>3, <2>4, <2>6, <2>7, <4>1 DEF written
      <4>2. CASE j # i
        <5>1. log[j].fp = disk.cur /\ log[j].written <= Len(CurLines)
          BY <2>3, <3>1, <4>2 DEF LogInv, FilesOK
        <5>. QED
          BY <2>3, <2>4, <2>7, <4>2, <5>1
      <4>. QED
        BY <4>1, <4>2
    <3>2. ASSUME NEW j \in Launch, Rotating(j)'
          PROVE  disk'.cur # None /\ Len(CurLines') >= UA_LOG_CAP
      <4>1. disk'.cur # None
        BY <2>1, <2>4, <2>6
      <4>2. CASE j # i
        <5>1. Len(CurLines) >= UA_LOG_CAP /\ Len(CurLines) \in Nat
          BY <1>1, <2>9, <3>2, <4>2, LogTypes DEF LogInv, FilesOK
        <5>. QED
          BY <2>7, <4>1, <5>1
      <4>. QED
        BY <2>10, <3>2, <4>1, <4>2
    <3>. QED
      BY <2>4, <2>6, <3>1, <3>2 DEF FilesOK
  <2>12. LinesOK'
    <3>1. /\ Len(OldLines) + Len(CurLines) <= said
          /\ Numbered(CurLines, said - Len(CurLines))
          /\ Numbered(OldLines, said - Len(CurLines) - Len(OldLines))
          /\ Len(OldLines) + Len(CurLines) >= UA_LOG_CAP
             \/ Len(OldLines) + Len(CurLines) = said
      BY DEF LogInv, LinesOK
    <3>2. said' - Len(CurLines') = said - Len(CurLines)
      BY <1>1, <2>1, <2>7, LogTypes
    <3>3. Numbered(CurLines', said - Len(CurLines))
      <4>. SUFFICES ASSUME NEW n \in DOMAIN CurLines'
                    PROVE  CurLines'[n] \in {said - Len(CurLines) + n, Lost}
        BY DEF Numbered
      <4>1. n \in 1..(Len(CurLines) + 1)
        BY <1>1, <2>5, <2>7, LogTypes
      <4>2. CASE n = Len(CurLines) + 1
        <5>1. CurLines'[n] \in {said + 1, Lost}
          BY <1>1, <2>1, <2>7, <4>2, LogTypes
        <5>. QED
          BY <1>1, <4>2, <5>1, LogTypes
      <4>3. CASE n # Len(CurLines) + 1
        <5>1. n \in DOMAIN CurLines /\ CurLines'[n] = CurLines[n]
          <6>1. CurLines \in Seq(Mark) /\ Len(CurLines) \in Nat
            BY <1>1, LogTypes
          <6>. QED
            BY <2>7, <4>1, <4>3, <6>1
        <5>. QED
          BY <3>1, <5>1 DEF Numbered
      <4>. QED
        BY <4>2, <4>3
    <3>4. Len(CurLines) \in Nat /\ Len(OldLines) \in Nat /\ said \in Nat
      BY <1>1, LogTypes
    <3>5. /\ Len(OldLines) + Len(CurLines') <= said'
          /\ Len(OldLines) + Len(CurLines') >= UA_LOG_CAP \/ Len(OldLines) + Len(CurLines') = said'
      BY <2>1, <2>7, <3>1, <3>4
    <3>. QED
      BY <2>7, <3>1, <3>2, <3>3, <3>5 DEF LinesOK
  <2>13. AloneOK'
    <3>. SUFFICES ASSUME shared = "no" PROVE AloneOK'
      BY <2>1 DEF AloneOK
    <3>1. /\ \A j, k \in Launch : log[j] # Closed /\ log[k] # Closed => j = k
          /\ \A j \in Launch : log[j].fp # None /\ ~Rotating(j) /\ log[j].written >= UA_LOG_CAP =>
               CurHeld >= UA_LOG_CAP
          /\ Fits(UA_LOG_CAP) /\ Fits(OldHeld)
      BY DEF LogInv, AloneOK
    <3>2. log[i].fp # None /\ log[i] # Closed
      BY <2>1 DEF f
    <3>3. \A j \in Launch \ {i} : log[j] = Closed /\ log'[j] = Closed
      BY <2>3, <3>1, <3>2
    <3>4. /\ \A j, k \in Launch : log'[j] # Closed /\ log'[k] # Closed => j = k
          /\ \A j \in Launch : log'[j].fp # None => j = i
          /\ \A j \in Launch : ~Rotating(j)
      BY <2>1, <3>3 DEF Rotating
    <3>5. /\ CurHeld \in Nat /\ OldHeld \in Nat /\ excess \in Nat /\ excess' = excess
          /\ log[i].written \in Nat /\ log'[i].written = log[i].written + 1
      BY <1>1, <2>1, <2>3, LogTypes DEF written
    <3>6. (CurHeld' = CurHeld \/ CurHeld' = CurHeld + 1) /\ OldHeld' = OldHeld
      <4>1. CurLines \in Seq(Mark) /\ left \in Mark
        BY <1>1, <2>1, LogTypes DEF Mark
      <4>. QED
        BY <2>7, <4>1, HeldAppend DEF CurHeld, OldHeld
    <3>7. log'[i].written >= UA_LOG_CAP <=> Rotating(i)'
      BY <2>3 DEF Rotating, rot
    <3>8. ASSUME NEW m \in Nat, Fits(m) PROVE Fits(m)'
      <4>1. /\ m + UA_LOG_CAP <= 2 * UA_LOG_CAP + excess
            /\ m + CurHeld <= 2 * UA_LOG_CAP + excess
            /\ CurHeld < UA_LOG_CAP \/ m + (CurHeld + 1) <= 2 * UA_LOG_CAP + excess
            /\ m + (CurHeld + (UA_LOG_CAP - log[i].written)) <= 2 * UA_LOG_CAP + excess
            /\ log[i].written >= UA_LOG_CAP => CurHeld >= UA_LOG_CAP
        BY <3>1, <3>2, <3>4, <3>8 DEF Fits, Room
      <4>2. m + CurHeld' <= 2 * UA_LOG_CAP + excess
        BY <3>5, <3>6, <4>1
      <4>3. ~(log'[i].written >= UA_LOG_CAP) =>
              /\ CurHeld' < UA_LOG_CAP \/ m + (CurHeld' + 1) <= 2 * UA_LOG_CAP + excess
              /\ m + (CurHeld' + (UA_LOG_CAP - log'[i].written)) <= 2 * UA_LOG_CAP + excess
        BY <3>5, <3>6, <4>1
      <4>. QED
        BY <3>4, <3>5, <3>7, <4>1, <4>2, <4>3 DEF Fits, Room
    <3>. QED
      BY <3>1, <3>4, <3>5, <3>6, <3>7, <3>8 DEF AloneOK
  <2>. QED
    BY <2>5, <2>11, <2>12, <2>13 DEF LogInv
<1>. QED
  BY <1>2, <1>3

(* The types, after a step of a rotation. *)
LEMMA TypedAfter ==
  ASSUME LogTyped, NEW i \in Launch,
         disk' \in Disk, log' \in [Launch -> Entry], \A j \in Launch \ {i} : log'[j] = log[j],
         \A n \in Inode \ Live(disk', log') : disk'.data[n] = <<>>,
         log'[i].fp = None, log'[i].rotating # "remove",
         faults' \in 0..MaxFaults, shared' \in {"no", "open", "rotated"},
         excess' \in Nat, UNCHANGED <<said, crashes>>
  PROVE  LogTyped'
<1>1. LogTypeOK
  BY DEF LogTyped
<1>2. LogTypeOK'
  BY <1>1 DEF LogTypeOK, Disk, Entry, Mark
<1>3. \A j \in Launch : /\ log'[j].rotating \in {"rename", "open"} => log'[j].fp = None
                        /\ log'[j].rotating = "remove" => log'[j].fp # None
  BY DEF LogTyped
<1>. QED
  BY <1>2, <1>3 DEF LogTyped

(* A rotation removes the old log, or cannot (log_rotate). *)
LEMMA RemoveKeepsInv ==
  ASSUME LogInv, NEW i \in Launch, RotateRemove(i)
  PROVE  LogInv'
<1>1. LogTypeOK /\ LogTyped
  BY DEF LogInv, LogTyped
<1>. DEFINE entry == [log[i] EXCEPT !.fp = None, !.rotating = "rename"]
<1>2. /\ log[i].rotating = "remove" /\ Sharing(i, "rotated") /\ UNCHANGED <<said, crashes, excess>>
      /\ \/ Becomes([disk EXCEPT !.old = None], i, entry) /\ UNCHANGED faults
         \/ Becomes(disk, i, entry) /\ Fault
  BY DEF RotateRemove
<1>3. entry \in Entry /\ entry.fp = None /\ entry.rotating = "rename"
  <2>1. log[i] \in Entry
    BY <1>1, LogTypes
  <2>. QED
    BY <2>1 DEF Entry
<1>. HIDE DEF entry
<1>4. faults' \in 0..MaxFaults
  BY <1>1, <1>2, LogTypes, LogConstants DEF Fault, LogTypeOK
<1>5. /\ disk' \in Disk /\ log' \in [Launch -> Entry]
      /\ log'[i] = entry /\ \A j \in Launch \ {i} : log'[j] = log[j]
      /\ disk'.cur = disk.cur /\ CurLines' = CurLines
      /\ \/ disk'.old = None /\ OldLines' = <<>>
         \/ disk'.old = disk.old /\ OldLines' = OldLines
      /\ \A n \in Inode \ Live(disk', log') : disk'.data[n] = <<>>
  <2>1. CASE Becomes(disk, i, entry)
    BY <1>1, <1>3, <2>1, BecomesFacts, LogTypes
  <2>2. CASE Becomes([disk EXCEPT !.old = None], i, entry)
    <3>. DEFINE d == [cur |-> disk.cur, old |-> None, data |-> disk.data]
    <3>1. [disk EXCEPT !.old = None] = d /\ d \in Disk
      BY <1>1, LogTypes DEF Disk
    <3>2. d.cur = disk.cur /\ d.old = None /\ d.data = disk.data
      OBVIOUS
    <3>. HIDE DEF d
    <3>3. /\ disk' \in Disk /\ log' \in [Launch -> Entry]
          /\ log'[i] = entry /\ \A j \in Launch \ {i} : log'[j] = log[j]
          /\ disk'.cur = disk.cur /\ disk'.old = None
          /\ CurLines' = IF disk.cur = None THEN <<>> ELSE disk.data[disk.cur]
          /\ OldLines' = <<>>
          /\ \A n \in Inode \ Live(disk', log') : disk'.data[n] = <<>>
      BY <1>1, <1>3, <2>2, <3>1, <3>2, BecomesFacts, LogTypes
    <3>. QED
      BY <1>1, <3>3, LogTypes
  <2>. QED
    BY <1>2, <2>1, <2>2
<1>6. Shares(i) /\ (shared' # "rotated" => \A j \in Launch \ {i} : log[j] = Closed)
  BY <1>2, SharingFacts
<1>7. \A j \in Launch : /\ Rotating(j)' <=> Rotating(j)
                        /\ log'[j].fp # None => j # i
  BY <1>2, <1>3, <1>5 DEF Rotating
<1>8. LogTyped'
  <2>1. excess' \in Nat
    BY <1>1, <1>2, LogTypes
  <2>. QED
    BY <1>1, <1>2, <1>3, <1>4, <1>5, <1>6, <2>1, TypedAfter DEF Shares
<1>. SUFFICES ASSUME shared' # "rotated" PROVE LogInv'
  BY <1>8 DEF LogInv, FilesOK, LinesOK, AloneOK
<1>9. /\ disk.cur # None => disk.cur # disk.old
      /\ \A j \in Launch : log[j].fp # None =>
           log[j].fp = disk.cur /\ log[j].written <= Len(CurLines)
      /\ disk.cur # None /\ Len(CurLines) >= UA_LOG_CAP
      /\ Rotating(i)
  BY <1>2, <1>6 DEF LogInv, FilesOK, Shares, Rotating
<1>10. FilesOK'
  BY <1>5, <1>7, <1>9 DEF FilesOK
<1>11. Len(OldLines') \in 0..Len(OldLines) /\ Len(CurLines) \in Nat /\ Len(OldLines) \in Nat
  <2>1. Len(CurLines) \in Nat /\ Len(OldLines) \in Nat
    BY <1>1, LogTypes
  <2>. QED
    BY <1>5, <2>1
<1>12. LinesOK'
  <2>1. /\ Len(OldLines) + Len(CurLines) <= said
        /\ Numbered(CurLines, said - Len(CurLines))
        /\ Numbered(OldLines, said - Len(CurLines) - Len(OldLines))
    BY <1>6 DEF LogInv, LinesOK, Shares
  <2>2. Numbered(OldLines', said - Len(CurLines) - Len(OldLines'))
    <3>1. CASE OldLines' = <<>>
      BY <3>1 DEF Numbered
    <3>2. CASE OldLines' = OldLines
      BY <2>1, <3>2
    <3>. QED
      BY <1>5, <3>1, <3>2
  <2>3. /\ Len(OldLines') + Len(CurLines) <= said
        /\ Len(OldLines') + Len(CurLines) >= UA_LOG_CAP
    <3>1. said \in Nat /\ UA_LOG_CAP \in Nat /\ Len(OldLines') \in Nat
      BY <1>1, <1>11, LogTypes, LogConstants
    <3>. QED
      BY <1>9, <1>11, <2>1, <3>1
  <2>. QED
    BY <1>2, <1>5, <2>1, <2>2, <2>3 DEF LinesOK
<1>13. AloneOK'
  <2>. SUFFICES ASSUME shared' = "no" PROVE AloneOK'
    BY DEF AloneOK
  <2>1. Fits(UA_LOG_CAP) /\ Fits(OldHeld)
    BY <1>6 DEF LogInv, AloneOK, Shares
  <2>2. /\ \A j \in Launch \ {i} : log'[j] = Closed
        /\ \A j \in Launch : log'[j].fp = None
    BY <1>3, <1>5, <1>6, LogConstants
  <2>3. CurHeld' = CurHeld /\ OldHeld' \in {0, OldHeld}
    BY <1>5, HeldNothing DEF CurHeld, OldHeld
  <2>4. CurHeld \in Nat /\ OldHeld \in Nat /\ excess \in Nat /\ UA_LOG_CAP \in Nat
    BY <1>1, LogTypes, LogConstants
  <2>5. ASSUME NEW l \in {UA_LOG_CAP, OldHeld'}
        PROVE  l + UA_LOG_CAP <= 2 * UA_LOG_CAP + excess /\ l + CurHeld <= 2 * UA_LOG_CAP + excess
    <3>1. /\ UA_LOG_CAP + UA_LOG_CAP <= 2 * UA_LOG_CAP + excess
          /\ UA_LOG_CAP + CurHeld <= 2 * UA_LOG_CAP + excess
          /\ OldHeld + UA_LOG_CAP <= 2 * UA_LOG_CAP + excess
          /\ OldHeld + CurHeld <= 2 * UA_LOG_CAP + excess
      BY <2>1 DEF Fits, Room
    <3>. QED
      BY <2>3, <2>4, <2>5, <3>1
  <2>6. Rotating(i)' /\ excess' = excess
    BY <1>2, <1>7, <1>9
  <2>7. Fits(UA_LOG_CAP)'
    BY <2>2, <2>3, <2>5, <2>6 DEF Fits, Room
  <2>8. Fits(OldHeld)'
    BY <2>2, <2>3, <2>5, <2>6 DEF Fits, Room
  <2>. QED
    BY <2>2, <2>7, <2>8 DEF AloneOK
<1>. QED
  BY <1>8, <1>10, <1>12, <1>13 DEF LogInv

(* It renames the current log, or cannot (log_rotate). *)
LEMMA RenameKeepsInv ==
  ASSUME LogInv, NEW i \in Launch, RotateRename(i)
  PROVE  LogInv'
<1>1. LogTypeOK /\ LogTyped
  BY DEF LogInv, LogTyped
<1>. DEFINE entry == [log[i] EXCEPT !.rotating = "open"]
<1>2. /\ log[i].rotating = "rename" /\ Sharing(i, "rotated") /\ UNCHANGED <<said, crashes>>
      /\ \/ /\ disk.cur # None
            /\ Becomes([disk EXCEPT !.cur = None, !.old = disk.cur], i, entry)
            /\ UNCHANGED <<faults, excess>>
         \/ disk.cur = None /\ Becomes(disk, i, entry) /\ UNCHANGED <<faults, excess>>
         \/ Fault /\ excess' = excess + 1 /\ Becomes(disk, i, entry)
  BY DEF RotateRename
<1>3. entry \in Entry /\ entry.fp = None /\ entry.rotating = "open"
  <2>1. log[i] \in Entry /\ log[i].fp = None
    BY <1>1, <1>2, LogTypes DEF LogTyped
  <2>. QED
    BY <2>1 DEF Entry
<1>. HIDE DEF entry
<1>4. faults' \in 0..MaxFaults /\ excess' \in Nat
  BY <1>1, <1>2, LogTypes, LogConstants DEF Fault, LogTypeOK
<1>5. /\ disk' \in Disk /\ log' \in [Launch -> Entry]
      /\ log'[i] = entry /\ \A j \in Launch \ {i} : log'[j] = log[j]
      /\ \/ /\ disk.cur # None /\ disk'.cur = None /\ disk'.old = disk.cur
            /\ CurLines' = <<>> /\ OldLines' = CurLines /\ excess' = excess
         \/ /\ disk'.cur = disk.cur /\ disk'.old = disk.old
            /\ CurLines' = CurLines /\ OldLines' = OldLines
            /\ disk.cur = None \/ excess' = excess + 1
      /\ \A n \in Inode \ Live(disk', log') : disk'.data[n] = <<>>
  <2>1. CASE Becomes(disk, i, entry) /\ (disk.cur = None \/ excess' = excess + 1)
    BY <1>1, <1>3, <2>1, BecomesFacts, LogTypes
  <2>2. CASE /\ Becomes([disk EXCEPT !.cur = None, !.old = disk.cur], i, entry)
             /\ disk.cur # None /\ excess' = excess
    <3>. DEFINE d == [cur |-> None, old |-> disk.cur, data |-> disk.data]
    <3>1. [disk EXCEPT !.cur = None, !.old = disk.cur] = d /\ d \in Disk
      <4>1. disk \in Disk
        BY <1>1, LogTypes
      <4>2. d \in Disk
        BY <1>1, LogTypes DEF Disk
      <4>. QED
        BY <4>1, <4>2, NamesAfterRename
    <3>2. d.cur = None /\ d.old = disk.cur /\ d.data = disk.data
      OBVIOUS
    <3>. HIDE DEF d
    <3>3. /\ disk' \in Disk /\ log' \in [Launch -> Entry]
          /\ log'[i] = entry /\ \A j \in Launch \ {i} : log'[j] = log[j]
          /\ disk'.cur = None /\ disk'.old = disk.cur
          /\ CurLines' = <<>> /\ OldLines' = disk.data[disk.cur]
          /\ \A n \in Inode \ Live(disk', log') : disk'.data[n] = <<>>
      BY <1>1, <1>3, <2>2, <3>1, <3>2, BecomesFacts, LogTypes
    <3>. QED
      BY <1>1, <2>2, <3>3, LogTypes
  <2>. QED
    BY <1>2, <2>1, <2>2
<1>6. Shares(i) /\ (shared' # "rotated" => \A j \in Launch \ {i} : log[j] = Closed)
  BY <1>2, SharingFacts
<1>7. LogTyped'
  BY <1>1, <1>2, <1>3, <1>4, <1>5, <1>6, TypedAfter DEF Shares
<1>. SUFFICES ASSUME shared' # "rotated" PROVE LogInv'
  BY <1>7 DEF LogInv, FilesOK, LinesOK, AloneOK
<1>8. /\ disk.cur # disk.old /\ disk.cur # None /\ Len(CurLines) >= UA_LOG_CAP
      /\ Rotating(i)
  BY <1>2, <1>6 DEF LogInv, FilesOK, Shares, Rotating
<1>9. \A j \in Launch : /\ j # i => log'[j] = Closed
                        /\ log'[j].fp = None /\ ~Rotating(j)'
  BY <1>3, <1>5, <1>6, LogConstants DEF Rotating
<1>10. FilesOK'
  BY <1>5, <1>8, <1>9, LogConstants DEF FilesOK
<1>11. Len(CurLines) \in Nat /\ Len(OldLines) \in Nat /\ said \in Nat /\ excess \in Nat
       /\ UA_LOG_CAP \in Nat \ {0}
  BY <1>1, LogTypes, LogConstants
<1>12. LinesOK'
  <2>1. /\ Len(OldLines) + Len(CurLines) <= said
        /\ Numbered(CurLines, said - Len(CurLines))
        /\ Numbered(OldLines, said - Len(CurLines) - Len(OldLines))
    BY <1>6 DEF LogInv, LinesOK, Shares
  <2>2. CASE CurLines' = CurLines /\ OldLines' = OldLines
    BY <1>2, <1>8, <1>11, <2>1, <2>2 DEF LinesOK
  <2>3. CASE CurLines' = <<>> /\ OldLines' = CurLines
    <3>1. Len(CurLines') = 0 /\ Len(OldLines') = Len(CurLines)
      BY <2>3
    <3>2. Numbered(CurLines', said - 0) /\ Numbered(OldLines', said - 0 - Len(CurLines))
      <4>1. said - 0 - Len(CurLines) = said - Len(CurLines)
        BY <1>11
      <4>. QED
        BY <2>1, <2>3, <4>1 DEF Numbered
    <3>3. 0 + Len(CurLines) <= said /\ Len(CurLines) + 0 <= said
          /\ Len(CurLines) + 0 >= UA_LOG_CAP
      BY <1>8, <1>11, <2>1
    <3>. QED
      BY <1>2, <3>1, <3>2, <3>3 DEF LinesOK
  <2>. QED
    BY <1>5, <2>2, <2>3
<1>13. AloneOK'
  <2>. SUFFICES ASSUME shared' = "no" PROVE AloneOK'
    BY DEF AloneOK
  <2>1. Fits(UA_LOG_CAP) /\ Fits(OldHeld)
    BY <1>6 DEF LogInv, AloneOK, Shares
  <2>2. CurHeld \in Nat /\ OldHeld \in Nat
    BY <1>1, LogTypes
  <2>3. CASE CurLines' = CurLines /\ OldLines' = OldLines /\ excess' = excess + 1
    <3>1. CurHeld' = CurHeld /\ OldHeld' = OldHeld
      BY <2>3 DEF CurHeld, OldHeld
    <3>2. ASSUME NEW m \in Nat, Fits(m) PROVE Fits(m)'
      <4>1. m + UA_LOG_CAP <= 2 * UA_LOG_CAP + excess /\ m + CurHeld <= 2 * UA_LOG_CAP + excess
        BY <3>2 DEF Fits, Room
      <4>2. /\ m + UA_LOG_CAP <= 2 * UA_LOG_CAP + excess'
            /\ m + CurHeld <= 2 * UA_LOG_CAP + excess'
            /\ m + (CurHeld + 1) <= 2 * UA_LOG_CAP + excess'
        BY <1>11, <2>2, <2>3, <4>1
      <4>. QED
        BY <1>9, <3>1, <4>2 DEF Fits, Room
    <3>. QED
      BY <1>9, <1>11, <2>1, <2>2, <3>1, <3>2 DEF AloneOK
  <2>4. CASE CurLines' = <<>> /\ OldLines' = CurLines /\ excess' = excess
    <3>1. CurHeld' = 0 /\ OldHeld' = CurHeld
      BY <2>4, HeldNothing DEF CurHeld, OldHeld
    <3>2. UA_LOG_CAP + UA_LOG_CAP <= 2 * UA_LOG_CAP + excess
          /\ UA_LOG_CAP + CurHeld <= 2 * UA_LOG_CAP + excess
      BY <2>1 DEF Fits, Room
    <3>3. ASSUME NEW m \in Nat, m + UA_LOG_CAP <= 2 * UA_LOG_CAP + excess
          PROVE  m + 0 <= 2 * UA_LOG_CAP + excess /\ 0 < UA_LOG_CAP
      BY <1>11, <3>3
    <3>4. CurHeld + UA_LOG_CAP <= 2 * UA_LOG_CAP + excess
      BY <1>11, <2>2, <3>2
    <3>5. Fits(UA_LOG_CAP)'
      BY <1>9, <1>11, <2>4, <3>1, <3>2, <3>3 DEF Fits, Room
    <3>6. Fits(OldHeld)'
      BY <1>9, <1>11, <2>2, <2>4, <3>1, <3>3, <3>4 DEF Fits, Room
    <3>. QED
      BY <1>9, <3>5, <3>6 DEF AloneOK
  <2>. QED
    BY <1>5, <1>8, <2>3, <2>4
<1>. QED
  BY <1>7, <1>10, <1>12, <1>13 DEF LogInv

(* The log as a launch finds it first. *)
LEMMA LogInitInv == LogInit => LogInv
<1>. SUFFICES ASSUME LogInit PROVE LogInv
  OBVIOUS
<1>. USE LogConstants
<1>. DEFINE empty == [n \in Inode |-> <<>>]
<1>1. /\ disk = [cur |-> None, old |-> None, data |-> empty]
      /\ log = [i \in Launch |-> Closed]
      /\ said = 0 /\ faults = 0 /\ crashes = 0 /\ excess = 0 /\ shared = "no"
  BY DEF LogInit
<1>2. empty \in [Inode -> Seq(Mark)] /\ \A n \in Inode : empty[n] = <<>>
  BY EmptyFile, Zenon
<1>. HIDE DEF empty
<1>3. disk.cur = None /\ disk.old = None /\ disk.data = empty
  BY <1>1
<1>4. CurLines = <<>> /\ OldLines = <<>>
  BY <1>3 DEF CurLines, OldLines, Under
<1>5. LogTyped
  <2>1. disk \in Disk /\ log \in [Launch -> Entry]
    BY <1>1, <1>2 DEF Disk
  <2>2. LogTypeOK
    BY <1>1, <2>1 DEF LogTypeOK, Disk, Entry, Mark
  <2>. QED
    BY <1>1, <1>2, <1>3, <2>2 DEF LogTyped
<1>6. \A i \in Launch : log[i] = Closed /\ ~Rotating(i)
  BY <1>1 DEF Rotating
<1>7. FilesOK
  BY <1>3, <1>6 DEF FilesOK
<1>8. LinesOK
  BY <1>1, <1>4 DEF LinesOK, Numbered
<1>9. AloneOK
  <2>1. CurHeld = 0 /\ OldHeld = 0
    BY <1>4, HeldNothing DEF CurHeld, OldHeld
  <2>2. Fits(UA_LOG_CAP) /\ Fits(0)
    BY <1>1, <1>6, <2>1 DEF Fits, Room
  <2>. QED
    BY <1>1, <1>6, <2>1, <2>2 DEF AloneOK
<1>. QED
  BY <1>5, <1>7, <1>8, <1>9 DEF LogInv

(* Every step of a launch keeps the invariant of the log.  A launch opens  *)
(* or closes it only while it does not rotate it.                          *)
LEMMA LogOpenKeepsInv ==
  ASSUME LogInv, NEW i \in Launch, NEW lvl \in {INFO, DEBUG}, LogOpen(i, lvl),
         log[i].rotating = "no"
  PROVE  LogInv'
BY SharingFacts, OpenKeepsInv DEF LogOpen

(* A launch closes the log.  *)
LEMMA LogCloseKeepsInv ==
  ASSUME LogInv, NEW i \in Launch, LogClose(i), log[i].rotating = "no"
  PROVE  LogInv'
<1>1. crashes \in 0..MaxCrashes /\ crashes \in Nat
  BY LogTypes DEF LogInv, LogTyped, LogTypeOK
<1>2. ~Rotating(i)
  BY DEF Rotating
<1>. QED
  BY <1>1, <1>2, CloseKeepsInv DEF LogClose

(* Or dies with it open, and perhaps within a rotation.  *)
LEMMA LogCrashKeepsInv ==
  ASSUME LogInv, NEW i \in Launch, LogCrash(i)
  PROVE  LogInv'
<1>1. crashes' \in 0..MaxCrashes /\ crashes' = crashes + 1 /\ crashes \in Nat
  BY LogTypes, LogConstants DEF LogInv, LogTyped, LogCrash
<1>. QED
  BY <1>1, CloseKeepsInv DEF LogCrash, Rotating

(* A rotation takes a step of its own. *)
LEMMA RotateKeepsInv ==
  ASSUME LogInv, NEW i \in Launch, Rotate(i)
  PROVE  LogInv'
<1>1. CASE RotateReopen(i)
  <2>1. log[i].level \in {INFO, DEBUG} /\ log[i].rotating = "open" /\ UNCHANGED shared
        /\ OpenCurrent(i, log[i].level)
    BY <1>1, LogTypes DEF LogInv, LogTyped, RotateReopen
  <2>2. log[i] # Closed
    BY <2>1, LogConstants
  <2>. QED
    BY <2>1, <2>2, AloneShares, OpenKeepsInv
<1>. QED
  BY <1>1, RemoveKeepsInv, RenameKeepsInv DEF Rotate

-------------------------------------------------------------------------------
(* What the invariant says of the two files. *)

(* The lines that are kept are the last ones. *)
LEMMA LinesAreKept == LogInv => RecentLinesKept
<1>. SUFFICES ASSUME LogInv, shared # "rotated" PROVE RecentLinesKept
  BY DEF RecentLinesKept
<1>. DEFINE o == OldLines
            c == CurLines
            lines == o \o c
            first == said - Len(lines)
<1>1. /\ o \in Seq(Mark) /\ c \in Seq(Mark) /\ Len(o) \in Nat /\ Len(c) \in Nat
      /\ said \in Nat
  BY LogTypes DEF LogInv, LogTyped
<1>2. /\ Len(o) + Len(c) <= said
      /\ Numbered(c, said - Len(c)) /\ Numbered(o, said - Len(c) - Len(o))
      /\ Len(o) + Len(c) >= UA_LOG_CAP \/ Len(o) + Len(c) = said
  BY DEF LogInv, LinesOK
<1>. HIDE DEF o, c
<1>3. /\ Len(lines) = Len(o) + Len(c) /\ DOMAIN lines = 1..(Len(o) + Len(c))
      /\ \A n \in 1..(Len(o) + Len(c)) : lines[n] = IF n <= Len(o) THEN o[n] ELSE c[n - Len(o)]
  BY <1>1
<1>. HIDE DEF lines
<1>4. ASSUME NEW n \in DOMAIN lines PROVE lines[n] \in {first + n, Lost}
  <2>1. n \in 1..(Len(o) + Len(c)) /\ DOMAIN o = 1..Len(o) /\ DOMAIN c = 1..Len(c)
    BY <1>1, <1>3
  <2>2. CASE n <= Len(o)
    <3>1. n \in DOMAIN o /\ lines[n] = o[n]
      BY <1>1, <1>3, <2>1, <2>2
    <3>2. lines[n] \in {said - Len(c) - Len(o) + n, Lost}
      BY <1>2, <3>1 DEF Numbered
    <3>. QED
      BY <1>1, <1>3, <2>1, <3>2
  <2>3. CASE ~(n <= Len(o))
    <3>1. n - Len(o) \in DOMAIN c /\ lines[n] = c[n - Len(o)]
      BY <1>1, <1>3, <2>1, <2>3
    <3>2. lines[n] \in {said - Len(c) + (n - Len(o)), Lost}
      BY <1>2, <3>1 DEF Numbered
    <3>. QED
      BY <1>1, <1>3, <2>1, <3>2
  <2>. QED
    BY <2>2, <2>3
<1>5. Len(lines) >= UA_LOG_CAP \/ first = 0
  BY <1>1, <1>2, <1>3
<1>. QED
  BY <1>4, <1>5 DEF RecentLinesKept, lines, first, o, c, OldLines, CurLines

(* And no more than twice the cap. *)
LEMMA DiskIsBounded == LogInv => DiskBounded
<1>. SUFFICES ASSUME LogInv, shared = "no" PROVE DiskBounded
  BY DEF DiskBounded
<1>1. OldHeld + CurHeld <= Room
  BY DEF LogInv, AloneOK, Fits
<1>. QED
  BY <1>1 DEF DiskBounded, Room, OldHeld, CurHeld, OldLines, CurLines

-------------------------------------------------------------------------------
(* The configuration. *)

(* The keys, and what a configuration and a line of a file are.            *)
Key  == BoolKey \cup NumberKey \cup {"watchpath"}
Conf == {c \in [Key -> Int \cup Seq(Int)] : /\ c["watchpath"] \in Seq(Int)
                                            /\ \A k \in Key \ {"watchpath"} : c[k] \in Int}
Word == STRING \cup Key \cup {"no_equals", "missing"}
FileLine == [key : Word, value : Int]

(* The keys by name. *)
LEMMA KeyFacts ==
  /\ NumberKey = {"scan_depth", "poll_interval_seconds", "stability_wait_seconds",
                  "chunk_size_kb", "http_port", "max_expansion_ratio",
                  "progress_percent_step", "decode_threads", "decode_memory_budget_mb",
                  "min_free_margin_mb"}
  /\ "watchpath" \notin BoolKey \cup NumberKey
BY DEF NumberKey, Limits, BoolKey

(* A line is a key and a value. *)
LEMMA LineFacts ==
  ASSUME NEW k, NEW v
  PROVE  /\ Line(k, v).key = k /\ Line(k, v).value = v
         /\ k \in Key \cup {"no_equals", "missing"} /\ v \in Int => Line(k, v) \in FileLine
BY DEF Line, FileLine, Word

(* The defaults. *)
LEMMA DefaultsFacts ==
  /\ Defaults \in Conf
  /\ Defaults.watchpath = <<UA_DEFAULT_WATCHPATH>>
  /\ Defaults.delete_after_extract = 0 /\ Defaults.overwrite = 0 /\ Defaults.allow_symlinks = 0
<1>1. DOMAIN Defaults = Key
  BY KeyFacts DEF Defaults, Key, BoolKey
<1>2. Defaults.watchpath = <<UA_DEFAULT_WATCHPATH>> /\ <<UA_DEFAULT_WATCHPATH>> \in Seq(Int)
  BY ConfigAssumption DEF Defaults
<1>3. \A k \in Key \ {"watchpath"} : Defaults[k] \in Int
  BY KeyFacts DEF Defaults, Key, BoolKey
<1>4. Defaults = [k \in Key |-> Defaults[k]]
  BY <1>1 DEF Defaults
<1>5. Defaults \in [Key -> Int \cup Seq(Int)]
  BY <1>2, <1>3, <1>4
<1>6. Defaults.delete_after_extract = 0 /\ Defaults.overwrite = 0 /\ Defaults.allow_symlinks = 0
  BY DEF Defaults
<1>. QED
  BY <1>2, <1>3, <1>5, <1>6 DEF Conf

(* One line more (ua_config_set). *)
LEMMA SetFacts ==
  ASSUME NEW c \in Conf, NEW l \in FileLine
  PROVE  /\ ConfigSet(c, l) \in Conf
         /\ ~IsGood(c, l) => ConfigSet(c, l) = c
         /\ IsGood(c, l) => l.key \in Key
         /\ IsGood(c, l) /\ l.key = "watchpath" =>
              /\ \A k \in Key \ {"watchpath"} : ConfigSet(c, l)[k] = c[k]
              /\ ConfigSet(c, l).watchpath =
                   IF c.watchpath = <<UA_DEFAULT_WATCHPATH>> THEN <<l.value>>
                   ELSE Append(c.watchpath, l.value)
         /\ IsGood(c, l) /\ l.key # "watchpath" =>
              /\ \A k \in Key \ {l.key} : ConfigSet(c, l)[k] = c[k]
              /\ ConfigSet(c, l)[l.key] = Parsed(l.key, l.value)
<1>1. CASE ~IsGood(c, l)
  BY <1>1 DEF ConfigSet
<1>2. CASE IsGood(c, l) /\ l.key = "watchpath"
  <2>. DEFINE w == IF c.watchpath = <<UA_DEFAULT_WATCHPATH>> THEN <<l.value>>
                   ELSE Append(c.watchpath, l.value)
  <2>1. c.watchpath \in Seq(Int) /\ l.value \in Int /\ c \in [Key -> Int \cup Seq(Int)]
    BY DEF Conf, FileLine
  <2>2. w \in Seq(Int)
    <3>1. <<l.value>> \in Seq(Int) /\ Append(c.watchpath, l.value) \in Seq(Int)
      BY <2>1
    <3>. QED
      BY <3>1
  <2>3. (IF c.watchpath = <<UA_DEFAULT_WATCHPATH>> THEN <<>> ELSE c.watchpath) \o <<l.value>> = w
    <3>1. <<>> \o <<l.value>> = <<l.value>> /\ c.watchpath \o <<l.value>> = Append(c.watchpath, l.value)
      BY <2>1
    <3>. QED
      BY <3>1
  <2>4. ConfigSet(c, l) = [c EXCEPT !["watchpath"] = w]
    BY <1>2, <2>3 DEF ConfigSet
  <2>. HIDE DEF w
  <2>5. /\ ConfigSet(c, l) \in [Key -> Int \cup Seq(Int)]
        /\ ConfigSet(c, l)["watchpath"] = w
        /\ \A k \in Key \ {"watchpath"} : ConfigSet(c, l)[k] = c[k]
    BY <2>1, <2>2, <2>4 DEF Key
  <2>6. ConfigSet(c, l) \in Conf
    BY <2>2, <2>5 DEF Conf
  <2>. QED
    BY <1>2, <2>5, <2>6 DEF w, Key
<1>3. CASE IsGood(c, l) /\ l.key # "watchpath"
  <2>1. c \in [Key -> Int \cup Seq(Int)] /\ l.value \in Int
    BY DEF Conf, FileLine
  <2>2. l.key \in Key \ {"watchpath"}
    BY <1>3, KeyFacts DEF IsGood, Accepted, Key
  <2>3. Parsed(l.key, l.value) \in Int
    BY <2>1 DEF Parsed
  <2>4. ConfigSet(c, l) = [c EXCEPT ![l.key] = Parsed(l.key, l.value)]
    BY <1>3 DEF ConfigSet
  <2>5. /\ ConfigSet(c, l) \in [Key -> Int \cup Seq(Int)]
        /\ ConfigSet(c, l)[l.key] = Parsed(l.key, l.value)
        /\ \A k \in Key \ {l.key} : ConfigSet(c, l)[k] = c[k]
    BY <2>1, <2>2, <2>3, <2>4
  <2>6. ConfigSet(c, l) \in Conf
    BY <2>2, <2>3, <2>5 DEF Conf, Key
  <2>. QED
    BY <1>3, <2>2, <2>5, <2>6
<1>. QED
  BY <1>1, <1>2, <1>3

(* The values that the parser goes through. *)
Steps(f, lines) == /\ f[0] = Defaults
                   /\ \A i \in 1..Len(lines) : f[i] = ConfigSet(f[i - 1], lines[i])

(* What is loaded is the last of them. *)
LEMMA LoadSteps ==
  ASSUME NEW lines \in Seq(FileLine)
  PROVE  \E f : /\ Steps(f, lines) /\ \A i \in 0..Len(lines) : f[i] \in Conf
                /\ Load(lines) = f[Len(lines)]
<1>. DEFINE n == Len(lines)
            step == [p \in (1..n) \X Conf |-> ConfigSet(p[2], lines[p[1]])]
<1>1. n \in Nat /\ DOMAIN lines = 1..n /\ Defaults \in Conf /\ \A i \in 1..n : lines[i] \in FileLine
  BY DefaultsFacts
<1>2. step \in [(1..n) \X Conf -> Conf]
  BY <1>1, SetFacts
<1>3. \A i \in 1..n, c \in Conf : step[<<i, c>>] = ConfigSet(c, lines[i])
  OBVIOUS
<1>. HIDE DEF step, n
<1>4. PICK F : GoesLeft(F, n, Conf, Defaults, step)
  BY <1>1, <1>2, LastFirst
<1>5. ASSUME NEW s \in SUBSET (1..n)
      PROVE  /\ F[s] = IF s = {} THEN Defaults ELSE ConfigSet(F[s \ {Max(s)}], lines[Max(s)])
             /\ F[s] \in Conf
  <2>1. CASE s = {}
    BY <1>4, <2>1 DEF GoesLeft
  <2>2. CASE s # {}
    <3>1. s \in SUBSET (0..n)
      OBVIOUS
    <3>2. Max(s) \in 1..n /\ F[s \ {Max(s)}] \in Conf /\ F[s] \in Conf
      BY <1>1, <1>4, <2>2, <3>1, MaxFacts DEF GoesLeft
    <3>3. F[s] = step[<<Max(s), F[s \ {Max(s)}]>>]
      BY <1>4, <2>2 DEF GoesLeft
    <3>. QED
      BY <1>3, <2>2, <3>2, <3>3
  <2>. QED
    BY <2>1, <2>2
<1>6. F = [s \in SUBSET DOMAIN lines |->
             IF s = {} THEN Defaults ELSE ConfigSet(F[s \ {Max(s)}], lines[Max(s)])]
  BY <1>1, <1>4, <1>5 DEF GoesLeft
<1>7. PICK G : /\ G = [s \in SUBSET DOMAIN lines |->
                         IF s = {} THEN Defaults ELSE ConfigSet(G[s \ {Max(s)}], lines[Max(s)])]
               /\ Load(lines) = G[DOMAIN lines]
  BY <1>6 DEF Load, FoldLeft, MapThenFoldSet
<1>. DEFINE f == [i \in 0..n |-> G[1..i]]
<1>8. f[0] = Defaults
  BY <1>1, <1>7
<1>9. ASSUME NEW i \in 1..n PROVE f[i] = ConfigSet(f[i - 1], lines[i])
  <2>1. 1..i \in SUBSET (1..n) /\ 1..i # {} /\ Max(1..i) = i /\ (1..i) \ {i} = 1..(i - 1)
    BY <1>1, Unrolled
  <2>2. G[1..i] = ConfigSet(G[1..(i - 1)], lines[i])
    BY <1>1, <1>7, <2>1
  <2>. QED
    BY <1>1, <2>2
<1>10. Steps(f, lines) /\ Load(lines) = f[n]
  <2>1. Load(lines) = f[n]
    BY <1>1, <1>7
  <2>. HIDE DEF f
  <2>. QED
    BY <1>8, <1>9, <2>1 DEF Steps, n
<1>. HIDE DEF f
<1>11. \A i \in 0..n : f[i] \in Conf
  <2>. DEFINE Bad == {i \in 0..n : f[i] \notin Conf}
  <2>. SUFFICES ASSUME Bad # {} PROVE FALSE
    OBVIOUS
  <2>1. Bad \in SUBSET Nat
    BY <1>1
  <2>. HIDE DEF Bad
  <2>2. PICK i \in Bad : \A j \in Bad : i <= j
    BY <2>1, LeastNumber
  <2>. USE DEF Bad
  <2>3. i # 0
    BY <1>1, <1>8, <1>10, <2>2 DEF Steps
  <2>4. i \in 1..n /\ i - 1 \in 0..n /\ f[i - 1] \in Conf
    BY <1>1, <2>2, <2>3
  <2>5. f[i] = ConfigSet(f[i - 1], lines[i])
    BY <1>10, <2>4 DEF Steps, n
  <2>. QED
    BY <1>1, <2>2, <2>4, <2>5, SetFacts
<1>. QED
  BY <1>10, <1>11 DEF n

(* A key that is not the list of watch paths is set by its own good lines. *)
LEMMA KeyAfterLine ==
  ASSUME NEW c \in Conf, NEW l \in FileLine, NEW k \in BoolKey \cup NumberKey
  PROVE  ConfigSet(c, l)[k] = IF l.key = k /\ Accepted(k, l.value) THEN Parsed(k, l.value)
                              ELSE c[k]
<1>1. k # "watchpath" /\ k \in Key
  BY KeyFacts DEF Key
<1>2. CASE ~IsGood(c, l)
  <2>1. ~(l.key = k /\ Accepted(k, l.value))
    BY <1>1, <1>2 DEF IsGood
  <2>. QED
    BY <1>2, <2>1, SetFacts
<1>3. CASE IsGood(c, l) /\ l.key = "watchpath"
  <2>1. \A j \in Key \ {"watchpath"} : ConfigSet(c, l)[j] = c[j]
    BY <1>3, SetFacts
  <2>. QED
    BY <1>1, <1>3, <2>1
<1>4. CASE IsGood(c, l) /\ l.key # "watchpath"
  <2>1. /\ \A j \in Key \ {l.key} : ConfigSet(c, l)[j] = c[j]
        /\ ConfigSet(c, l)[l.key] = Parsed(l.key, l.value)
    BY <1>4, SetFacts
  <2>2. Accepted(l.key, l.value)
    BY <1>4 DEF IsGood
  <2>. QED
    BY <1>1, <2>1, <2>2
<1>. QED
  BY <1>2, <1>3, <1>4

(* A key has the value of its last good line. *)
LEMMA LoadIsSaid ==
  ASSUME NEW lines \in Seq(FileLine), NEW k \in BoolKey \cup NumberKey
  PROVE  Load(lines)[k] = Says(lines, k)
<1>. DEFINE n == Len(lines)
            good(i) == {m \in 1..i : m \in GoodLines(lines, k)}
            told(i) == IF good(i) = {} THEN Defaults[k] ELSE Parsed(k, lines[Max(good(i))].value)
<1>1. n \in Nat /\ DOMAIN lines = 1..n /\ \A i \in 1..n : lines[i] \in FileLine
  OBVIOUS
<1>2. PICK f : /\ Steps(f, lines) /\ \A i \in 0..n : f[i] \in Conf
               /\ Load(lines) = f[n]
  BY LoadSteps
<1>. DEFINE Bad == {i \in 0..n : f[i][k] # told(i)}
<1>3. Bad = {}
  <2>. SUFFICES ASSUME Bad # {} PROVE FALSE
    OBVIOUS
  <2>1. Bad \in SUBSET Nat
    BY <1>1
  <2>. HIDE DEF Bad
  <2>2. PICK i \in Bad : \A j \in Bad : i <= j
    BY <2>1, LeastNumber
  <2>. USE DEF Bad
  <2>. HIDE DEF n, told, good
  <2>3. i # 0
    <3>1. good(0) = {}
      BY DEF good
    <3>2. f[0][k] = told(0)
      BY <1>2, <3>1 DEF told, Steps
    <3>. QED
      BY <2>2, <3>2
  <2>4. i \in 1..n /\ i - 1 \in 0..n /\ f[i - 1][k] = told(i - 1) /\ f[i - 1] \in Conf
    BY <1>1, <1>2, <2>2, <2>3
  <2>. DEFINE l == lines[i]
  <2>5. l \in FileLine /\ f[i] = ConfigSet(f[i - 1], l)
    BY <1>1, <1>2, <2>4 DEF Steps, n
  <2>6. f[i][k] = IF i \in GoodLines(lines, k) THEN Parsed(k, l.value) ELSE f[i - 1][k]
    <3>1. i \in GoodLines(lines, k) <=> l.key = k /\ Accepted(k, l.value)
      BY <1>1, <2>4 DEF GoodLines, l
    <3>. QED
      BY <2>4, <2>5, <3>1, KeyAfterLine
  <2>. HIDE DEF l
  <2>7. CASE i \in GoodLines(lines, k)
    <3>4. i \in good(i) /\ good(i) \in SUBSET (0..n) /\ \A m \in good(i) : m <= i /\ m \in Nat
      BY <1>1, <2>4, <2>7 DEF good
    <3>5. Max(good(i)) \in good(i) /\ \A y \in good(i) : y <= Max(good(i))
      BY <1>1, <3>4, MaxFacts
    <3>6. Max(good(i)) = i
      BY <2>4, <3>4, <3>5
    <3>7. told(i) = Parsed(k, l.value)
      BY <3>4, <3>6 DEF told, l
    <3>. QED
      BY <2>2, <2>6, <2>7, <3>7
  <2>8. CASE i \notin GoodLines(lines, k)
    <3>1. good(i) = good(i - 1)
      BY <1>1, <2>4, <2>8 DEF good
    <3>2. told(i) = told(i - 1)
      BY <3>1 DEF told
    <3>. QED
      BY <2>2, <2>4, <2>6, <2>8, <3>2
  <2>. QED
    BY <2>7, <2>8
<1>4. good(n) = GoodLines(lines, k)
  BY <1>1 DEF GoodLines
<1>5. f[n][k] = told(n)
  BY <1>1, <1>3
<1>. QED
  BY <1>2, <1>4, <1>5 DEF Says

-------------------------------------------------------------------------------
(* The watch paths. *)

(* How many of the first lines list a path. *)
Listed(lines, i) == Cardinality({m \in PathLines(lines) : m <= i})

(* The count goes up by one at each of them. *)
LEMMA ListedFacts ==
  ASSUME NEW lines \in Seq(FileLine)
  PROVE  /\ \A i \in 0..Len(lines) : Listed(lines, i) \in Nat
         /\ Listed(lines, 0) = 0
         /\ \A i \in 1..Len(lines) :
              Listed(lines, i) = Listed(lines, i - 1) + IF i \in PathLines(lines) THEN 1 ELSE 0
<1>. DEFINE n == Len(lines)
            upto(i) == {m \in PathLines(lines) : m <= i}
<1>1. n \in Nat /\ PathLines(lines) \subseteq 1..n
  BY DEF PathLines
<1>2. \A i \in 0..n : IsFiniteSet(upto(i))
  <2>. TAKE i \in 0..n
  <2>1. upto(i) \in SUBSET (1..n) /\ IsFiniteSet(1..n)
    BY <1>1, FS_Interval
  <2>. HIDE DEF upto
  <2>. QED
    BY <2>1, FS_Subset
<1>3. \A i \in 0..n : Listed(lines, i) = Cardinality(upto(i)) /\ Listed(lines, i) \in Nat
  BY <1>2, FS_CardinalityType DEF Listed
<1>4. Listed(lines, 0) = 0
  <2>1. upto(0) = {}
    BY <1>1
  <2>. QED
    BY <1>1, <1>3, <2>1, FS_EmptySet
<1>5. ASSUME NEW i \in 1..n
      PROVE  Listed(lines, i) = Listed(lines, i - 1) + IF i \in PathLines(lines) THEN 1 ELSE 0
  <2>1. i - 1 \in 0..n /\ i \in 0..n
    BY <1>1
  <2>2. CASE i \in PathLines(lines)
    <3>1. upto(i) = upto(i - 1) \cup {i} /\ i \notin upto(i - 1)
      BY <1>1, <2>2
    <3>. HIDE DEF upto
    <3>2. Cardinality(upto(i)) = Cardinality(upto(i - 1)) + 1
      BY <1>2, <2>1, <3>1, FS_AddElement
    <3>. QED
      BY <1>3, <2>1, <2>2, <3>2
  <2>3. CASE i \notin PathLines(lines)
    <3>1. upto(i) = upto(i - 1)
      BY <1>1, <2>3
    <3>. HIDE DEF upto
    <3>2. Listed(lines, i) = Listed(lines, i - 1) /\ Listed(lines, i - 1) \in Nat
      BY <1>3, <2>1, <3>1
    <3>. QED
      BY <2>3, <3>2
  <2>. QED
    BY <2>2, <2>3
<1>. QED
  BY <1>3, <1>4, <1>5

(* So it does not go down. *)
LEMMA ListedIsMonotonic ==
  ASSUME NEW lines \in Seq(FileLine), NEW i \in 0..Len(lines), NEW j \in i..Len(lines)
  PROVE  Listed(lines, i) <= Listed(lines, j)
<1>. DEFINE n == Len(lines)
            low == {m \in i..n : Listed(lines, m) < Listed(lines, i)}
<1>1. n \in Nat /\ i \in 0..n
  OBVIOUS
<1>2. \A m \in 1..n : /\ Listed(lines, m) \in Nat /\ Listed(lines, m - 1) \in Nat
                      /\ Listed(lines, m - 1) <= Listed(lines, m)
  <2>. TAKE m \in 1..n
  <2>1. Listed(lines, m) \in Nat /\ Listed(lines, m - 1) \in Nat
    BY <1>1, ListedFacts
  <2>. QED
    BY <1>1, <2>1, ListedFacts
<1>3. \A m \in 0..n : Listed(lines, m) \in Nat
  BY ListedFacts
<1>4. low = {}
  <2>. SUFFICES ASSUME low # {} PROVE FALSE
    OBVIOUS
  <2>1. low \in SUBSET Nat
    BY <1>1
  <2>. HIDE DEF low
  <2>2. PICK m \in low : \A k \in low : m <= k
    BY <2>1, LeastNumber
  <2>. USE DEF low
  <2>3. m # i /\ m \in i..n
    BY <1>1, <1>3, <2>2
  <2>4. m \in 1..n /\ m - 1 \in i..n
    BY <1>1, <2>3
  <2>5. ~(Listed(lines, m - 1) < Listed(lines, i))
    BY <1>1, <2>2, <2>3, <2>4
  <2>. QED
    BY <1>1, <1>2, <1>3, <2>2, <2>4, <2>5
<1>5. ~(Listed(lines, j) < Listed(lines, i))
  BY <1>1, <1>4
<1>. QED
  BY <1>1, <1>3, <1>5

(* And no two path lines have the same number. *)
LEMMA ListedGrows ==
  ASSUME NEW lines \in Seq(FileLine), NEW i \in PathLines(lines), NEW j \in PathLines(lines),
         i < j
  PROVE  Listed(lines, i) < Listed(lines, j)
<1>1. Len(lines) \in Nat /\ i \in 1..Len(lines) /\ j \in 1..Len(lines)
  BY DEF PathLines
<1>2. i \in 0..Len(lines) /\ j - 1 \in i..Len(lines) /\ j - 1 \in 0..Len(lines) /\ j \in 0..Len(lines)
  BY <1>1
<1>3. Listed(lines, i) <= Listed(lines, j - 1)
  BY <1>2, ListedIsMonotonic
<1>4. Listed(lines, j) = Listed(lines, j - 1) + 1
  BY <1>1, ListedFacts
<1>5. Listed(lines, i) \in Nat /\ Listed(lines, j - 1) \in Nat
  BY <1>2, ListedFacts
<1>. QED
  BY <1>3, <1>4, <1>5

(* The first m values of a function, as a sequence. *)
First(v, m) == [p \in 1..m |-> v[p]]

(* One more of them. *)
LEMMA FirstFacts ==
  ASSUME NEW v, NEW m \in Nat
  PROVE  /\ Len(First(v, m)) = m
         /\ Append(First(v, m), v[m + 1]) = First(v, m + 1)
         /\ First(v, 1) = <<v[1]>>
<1>. DEFINE S == {v[p] : p \in 1..(m + 1)}
            s == First(v, m)
            t == First(v, m + 1)
<1>1. s \in [1..m -> S] /\ t \in [1..(m + 1) -> S] /\ v[m + 1] \in S
  BY DEF First
<1>2. (\A p \in 1..m : s[p] = v[p]) /\ (\A p \in 1..(m + 1) : t[p] = v[p])
  BY DEF First
<1>3. First(v, 1) = <<v[1]>>
  BY DEF First
<1>. HIDE DEF S, s, t
<1>4. s \in Seq(S) /\ Len(s) = m /\ t \in Seq(S) /\ Len(t) = m + 1
  BY <1>1
<1>5. Append(s, v[m + 1]) = t
  <2>1. Append(s, v[m + 1]) \in Seq(S) /\ Len(Append(s, v[m + 1])) = m + 1
    BY <1>1, <1>4
  <2>2. \A p \in 1..(m + 1) : Append(s, v[m + 1])[p] = t[p]
    BY <1>1, <1>2, <1>4
  <2>. QED
    BY <1>4, <2>1, <2>2
<1>. QED
  BY <1>3, <1>4, <1>5 DEF s, t

(* The watch paths are those listed, the default where there are none; a   *)
(* default that is the first of several is lost.                           *)
LEMMA LoadHasPaths ==
  ASSUME NEW lines \in Seq(FileLine)
  PROVE  LET paths == UsablePaths(lines)
             loaded == Load(lines).watchpath
         IN  \/ loaded = paths
             \/ paths = <<>> /\ loaded = <<UA_DEFAULT_WATCHPATH>>
             \/ DefaultDropped(lines)
<1>. DEFINE n == Len(lines)
            D == UA_DEFAULT_WATCHPATH
            v == [p \in 1..Listed(lines, n) |->
                    lines[CHOOSE m \in PathLines(lines) : Listed(lines, m) = p].value]
            room(m) == IF m < UA_MAX_WATCHPATHS THEN m ELSE UA_MAX_WATCHPATHS
            used(i) == room(Listed(lines, i))
<1>1. /\ n \in Nat /\ DOMAIN lines = 1..n /\ \A i \in 1..n : lines[i] \in FileLine
      /\ UA_MAX_WATCHPATHS \in Nat \ {0, 1} /\ D \in Nat
  BY ConfigAssumption
<1>2. /\ \A i \in 0..n : Listed(lines, i) \in Nat
      /\ Listed(lines, 0) = 0
      /\ \A i \in 1..n :
           Listed(lines, i) = Listed(lines, i - 1) + IF i \in PathLines(lines) THEN 1 ELSE 0
  BY ListedFacts
<1>3. \A i \in 0..n : used(i) \in Nat /\ used(i) <= UA_MAX_WATCHPATHS
                      /\ used(i) <= Listed(lines, i)
  BY <1>1, <1>2
<1>4. UsablePaths(lines) = First(v, used(n))
  <2>1. UsablePaths(lines) =
          [p \in 1..used(n) |-> lines[CHOOSE m \in PathLines(lines) : Listed(lines, m) = p].value]
    BY DEF UsablePaths, Listed
  <2>2. \A p \in 1..used(n) : p \in 1..Listed(lines, n)
    BY <1>1, <1>2, <1>3
  <2>3. \A p \in 1..used(n) :
          v[p] = lines[CHOOSE m \in PathLines(lines) : Listed(lines, m) = p].value
    BY <2>2
  <2>. HIDE DEF v, used
  <2>. QED
    BY <2>1, <2>3 DEF First
<1>5. ASSUME NEW i \in PathLines(lines)
      PROVE  v[Listed(lines, i)] = lines[i].value /\ i \in 1..n
  <2>1. i \in 1..n /\ Listed(lines, i) \in Nat
    BY <1>1, <1>2 DEF PathLines
  <2>2. Listed(lines, i) \in 1..Listed(lines, n)
    <3>1. Listed(lines, i) >= 1
      BY <1>1, <1>2, <2>1
    <3>2. Listed(lines, i) <= Listed(lines, n)
      BY <1>1, <2>1, ListedIsMonotonic
    <3>. QED
      BY <1>1, <1>2, <2>1, <3>1, <3>2
  <2>3. \A m \in PathLines(lines) : Listed(lines, m) = Listed(lines, i) => m = i
    <3>. SUFFICES ASSUME NEW m \in PathLines(lines), Listed(lines, m) = Listed(lines, i), m # i
                  PROVE  FALSE
      OBVIOUS
    <3>1. m \in 1..n
      BY <1>1 DEF PathLines
    <3>2. m < i \/ i < m
      BY <1>1, <2>1, <3>1
    <3>3. Listed(lines, m) < Listed(lines, i) \/ Listed(lines, i) < Listed(lines, m)
      BY <3>2, ListedGrows
    <3>. QED
      BY <2>1, <3>3
  <2>4. (CHOOSE m \in PathLines(lines) : Listed(lines, m) = Listed(lines, i)) = i
    BY <2>3
  <2>. QED
    BY <2>1, <2>2, <2>4
<1>6. PICK f : /\ Steps(f, lines) /\ \A i \in 0..n : f[i] \in Conf
               /\ Load(lines) = f[n]
  BY LoadSteps
<1>. DEFINE OK(i) == \/ f[i].watchpath = First(v, used(i))
                     \/ used(i) = 0 /\ f[i].watchpath = <<D>>
                     \/ used(i) > 1 /\ v[1] = D
            Bad == {i \in 0..n : ~OK(i)}
<1>. HIDE DEF n, v, used, D
<1>7. Bad = {}
  <2>. SUFFICES ASSUME Bad # {} PROVE FALSE
    OBVIOUS
  <2>1. PICK i \in Bad : \A j \in Bad : i <= j
    <3>1. Bad \in SUBSET Nat
      BY <1>1
    <3>. HIDE DEF Bad
    <3>. QED
      BY <3>1, LeastNumber
  <2>2. i # 0
    <3>1. used(0) = 0
      BY <1>1, <1>2 DEF used
    <3>2. f[0].watchpath = <<D>>
      BY <1>6, DefaultsFacts DEF Steps, D
    <3>. QED
      BY <2>1, <3>1, <3>2
  <2>3. i \in 1..n /\ i - 1 \in 0..n /\ OK(i - 1)
    BY <1>1, <2>1, <2>2
  <2>. DEFINE l == lines[i]
              c == f[i - 1]
              w == c.watchpath
  <2>4. /\ l \in FileLine /\ c \in Conf /\ f[i] = ConfigSet(c, l)
        /\ l.value \in Int /\ w \in Seq(Int)
    BY <1>1, <1>6, <2>3 DEF Steps, n, FileLine, Conf
  <2>. HIDE DEF l, c
  <2>5. /\ ~(IsGood(c, l) /\ l.key = "watchpath") => f[i].watchpath = w
        /\ IsGood(c, l) /\ l.key = "watchpath" =>
             f[i].watchpath = IF w = <<D>> THEN <<l.value>> ELSE Append(w, l.value)
    <3>1. f[i] = ConfigSet(c, l) /\ "watchpath" \in Key
      BY <2>4 DEF Key
    <3>. QED
      BY <2>4, <3>1, SetFacts DEF D
  <2>6. IsGood(c, l) /\ l.key = "watchpath" <=>
          i \in PathLines(lines) /\ Len(w) < UA_MAX_WATCHPATHS
    BY <1>1, <2>3, <2>4 DEF IsGood, AcceptedPath, PathLines, l
  <2>7. CASE i \notin PathLines(lines)
    <3>1. used(i) = used(i - 1)
      BY <1>1, <1>2, <2>3, <2>7 DEF used
    <3>2. f[i].watchpath = w
      BY <2>5, <2>6, <2>7
    <3>. QED
      BY <2>1, <2>3, <3>1, <3>2 DEF c
  <2>8. CASE i \in PathLines(lines)
    <3>. DEFINE m == used(i - 1)
    <3>1. m \in Nat /\ used(i) = IF m < UA_MAX_WATCHPATHS THEN m + 1 ELSE m
      BY <1>1, <1>2, <2>3, <2>8 DEF used
    <3>2. m < UA_MAX_WATCHPATHS => v[m + 1] = l.value
      <4>1. m < UA_MAX_WATCHPATHS => m + 1 = Listed(lines, i)
        BY <1>1, <1>2, <2>3, <2>8 DEF used
      <4>. QED
        BY <1>5, <2>8, <4>1 DEF l
    <3>. HIDE DEF m
    <3>3. CASE m > 1 /\ v[1] = D
      BY <1>1, <2>1, <3>1, <3>3
    <3>4. CASE m = 0 /\ w = <<D>>
      <4>1. Len(w) < UA_MAX_WATCHPATHS /\ used(i) = 1
        BY <1>1, <3>1, <3>4
      <4>2. f[i].watchpath = <<l.value>> /\ v[1] = l.value
        BY <1>1, <2>5, <2>6, <2>8, <3>2, <3>4, <4>1
      <4>3. First(v, 1) = <<v[1]>>
        BY FirstFacts
      <4>. QED
        BY <2>1, <4>1, <4>2, <4>3
    <3>5. CASE w = First(v, m)
      <4>1. /\ Len(w) = m /\ Append(First(v, m), v[m + 1]) = First(v, m + 1)
            /\ First(v, 1) = <<v[1]>>
        BY <3>1, <3>5, FirstFacts
      <4>2. CASE ~(m < UA_MAX_WATCHPATHS)
        BY <2>1, <2>5, <2>6, <3>1, <3>5, <4>1, <4>2
      <4>3. CASE m < UA_MAX_WATCHPATHS /\ w # <<D>>
        BY <2>1, <2>5, <2>6, <2>8, <3>1, <3>2, <3>5, <4>1, <4>3
      <4>4. CASE m < UA_MAX_WATCHPATHS /\ w = <<D>>
        <5>1. m = 1
          BY <4>1, <4>4
        <5>2. v[1] = D
          <6>1. <<v[1]>> = <<D>>
            BY <3>5, <4>1, <4>4, <5>1
          <6>. QED
            BY <6>1
        <5>. QED
          BY <2>1, <3>1, <4>4, <5>1, <5>2
      <4>. QED
        BY <4>2, <4>3, <4>4
    <3>. QED
      BY <2>3, <3>3, <3>4, <3>5 DEF m, c
  <2>. QED
    BY <2>7, <2>8
<1>8. OK(n)
  BY <1>1, <1>7
<1>9. CASE used(n) > 1 /\ v[1] = D
  <2>1. Len(UsablePaths(lines)) = used(n) /\ UsablePaths(lines)[1] = v[1]
    <3>1. n \in 0..n /\ used(n) \in Nat
      BY <1>1, <1>3
    <3>. QED
      BY <1>4, <1>9, <3>1, FirstFacts DEF First
  <2>. QED
    BY <1>9, <2>1 DEF DefaultDropped, D
<1>10. CASE used(n) = 0 /\ f[n].watchpath = <<D>>
  <2>1. UsablePaths(lines) = <<>>
    BY <1>4, <1>10 DEF First
  <2>. QED
    BY <1>6, <1>10, <2>1 DEF D
<1>. QED
  BY <1>4, <1>6, <1>8, <1>9, <1>10

-------------------------------------------------------------------------------
(* The template. *)

(* A value that is the key's already. *)
LEMMA SetToItself ==
  ASSUME NEW c \in Conf, NEW l \in FileLine, l.key \in BoolKey \cup NumberKey,
         Accepted(l.key, l.value) => Parsed(l.key, l.value) = c[l.key]
  PROVE  ConfigSet(c, l) = c
<1>1. l.key # "watchpath" /\ l.key \in Key /\ c \in [Key -> Int \cup Seq(Int)]
  BY KeyFacts DEF Key, Conf
<1>2. CASE ~Accepted(l.key, l.value)
  BY <1>1, <1>2 DEF ConfigSet, IsGood
<1>3. CASE Accepted(l.key, l.value)
  <2>1. ConfigSet(c, l) = [c EXCEPT ![l.key] = c[l.key]]
    BY <1>1, <1>3 DEF ConfigSet, IsGood
  <2>. QED
    BY <1>1, <2>1
<1>. QED
  BY <1>2, <1>3

(* What ua_config_write_template writes, line by line. *)
LEMMA TemplateLines ==
  /\ Len(Template) = 13 /\ DOMAIN Template = 1..13
  /\ Template[2] = Line("watchpath", UA_DEFAULT_WATCHPATH)
  /\ \A n \in 1..13 \ {2} :
       /\ Template[n].key \in BoolKey \cup NumberKey /\ Template[n].value \in Nat
       /\ DOMAIN Template[n] = {"key", "value"}
       /\ Template[n] = Line(Template[n].key, Template[n].value)
       /\ Template[n].value = Defaults[Template[n].key]
       /\ Template[n].key \in BoolKey => Template[n].value \in {0, 1}
       /\ Template[n].key \in {"delete_after_extract", "overwrite", "allow_symlinks"}
            => Template[n].value = 0
<1>1. /\ Len(Template) = 13 /\ DOMAIN Template = 1..13
      /\ Template[1] = Line("debug", 1)
      /\ Template[2] = Line("watchpath", UA_DEFAULT_WATCHPATH)
      /\ Template[3] = Line("scan_depth", 1)
      /\ Template[4] = Line("poll_interval_seconds", 10)
      /\ Template[5] = Line("stability_wait_seconds", 15)
      /\ Template[6] = Line("delete_after_extract", 0)
      /\ Template[7] = Line("notify", 1)
      /\ Template[8] = Line("overwrite", 0)
      /\ Template[9] = Line("min_free_margin_mb", 1024)
      /\ Template[10] = Line("chunk_size_kb", 256)
      /\ Template[11] = Line("allow_symlinks", 0)
      /\ Template[12] = Line("max_expansion_ratio", 200)
      /\ Template[13] = Line("progress_percent_step", 10)
  BY DEF Template
<1>2. 1..13 = {1, 2, 3, 4, 5, 6, 7, 8, 9, 10, 11, 12, 13}
  OBVIOUS
<1>3. \A k, v : /\ Line(k, v).key = k /\ Line(k, v).value = v
               /\ DOMAIN Line(k, v) = {"key", "value"}
  BY DEF Line
<1>. DEFINE Good(l) == /\ l.key \in BoolKey \cup NumberKey /\ l.value \in Nat
                       /\ DOMAIN l = {"key", "value"} /\ l = Line(l.key, l.value)
                       /\ l.value = Defaults[l.key]
                       /\ l.key \in BoolKey => l.value \in {0, 1}
                       /\ l.key \in {"delete_after_extract", "overwrite", "allow_symlinks"}
                            => l.value = 0
<1>4. ASSUME NEW k \in BoolKey \cup NumberKey, NEW v \in Nat, v = Defaults[k],
             k \in BoolKey => v \in {0, 1},
             k \in {"delete_after_extract", "overwrite", "allow_symlinks"} => v = 0
      PROVE  Good(Line(k, v))
  BY <1>3, <1>4
<1>. HIDE DEF Good
<1>5. Good(Template[1]) /\ Good(Template[3]) /\ Good(Template[4])
  BY <1>1, <1>4, KeyFacts DEF Defaults, BoolKey
<1>6. Good(Template[5]) /\ Good(Template[6]) /\ Good(Template[7])
  BY <1>1, <1>4, KeyFacts DEF Defaults, BoolKey
<1>7. Good(Template[8]) /\ Good(Template[9]) /\ Good(Template[10])
  BY <1>1, <1>4, KeyFacts DEF Defaults, BoolKey
<1>8. Good(Template[11]) /\ Good(Template[12]) /\ Good(Template[13])
  BY <1>1, <1>4, KeyFacts DEF Defaults, BoolKey
<1>9. \A n \in 1..13 \ {2} : Good(Template[n])
  BY <1>2, <1>5, <1>6, <1>7, <1>8
<1>. QED
  BY <1>1, <1>9 DEF Good

(* Each line sets what is the default anyway. *)
LEMMA TemplateKeepsDefaults ==
  ASSUME NEW n \in 1..13
  PROVE  Template[n] \in FileLine /\ ConfigSet(Defaults, Template[n]) = Defaults
<1>. DEFINE l == Template[n]
<1>1. CASE n = 2
  <2>1. l = Line("watchpath", UA_DEFAULT_WATCHPATH)
    BY <1>1, TemplateLines
  <2>. HIDE DEF l
  <2>2. l \in FileLine /\ l.key = "watchpath" /\ l.value = UA_DEFAULT_WATCHPATH
    <3>1. "watchpath" \in Key /\ UA_DEFAULT_WATCHPATH \in Int
      BY ConfigAssumption DEF Key
    <3>. QED
      BY <2>1, <3>1, LineFacts
  <2>. HIDE DEF l
  <2>3. Defaults \in Conf /\ Defaults.watchpath = <<UA_DEFAULT_WATCHPATH>>
    BY DefaultsFacts
  <2>4. CASE ~IsGood(Defaults, l)
    BY <2>2, <2>3, <2>4, SetFacts DEF l
  <2>5. CASE IsGood(Defaults, l)
    <3>. DEFINE d == ConfigSet(Defaults, l)
    <3>1. /\ d \in Conf /\ d.watchpath = <<UA_DEFAULT_WATCHPATH>>
          /\ \A k \in Key \ {"watchpath"} : d[k] = Defaults[k]
      BY <2>2, <2>3, <2>5, SetFacts
    <3>. HIDE DEF d
    <3>2. d \in [Key -> Int \cup Seq(Int)] /\ Defaults \in [Key -> Int \cup Seq(Int)]
      BY <2>3, <3>1 DEF Conf
    <3>3. \A k \in Key : d[k] = Defaults[k]
      BY <2>3, <3>1
    <3>. QED
      BY <2>2, <3>2, <3>3 DEF d, l
  <2>. QED
    BY <2>4, <2>5
<1>2. CASE n # 2
  <2>1. /\ l.key \in BoolKey \cup NumberKey /\ l.value \in Nat
        /\ l = Line(l.key, l.value) /\ l.value = Defaults[l.key]
        /\ l.key \in BoolKey => l.value \in {0, 1}
    BY <1>2, TemplateLines
  <2>. HIDE DEF l
  <2>2. l \in FileLine
    <3>1. l.key \in Key /\ l.value \in Int
      BY <2>1 DEF Key
    <3>2. Line(l.key, l.value) \in FileLine
      BY <3>1, LineFacts
    <3>. QED
      BY <2>1, <3>2
  <2>3. Parsed(l.key, l.value) = Defaults[l.key]
    BY <2>1 DEF Parsed, No
  <2>. QED
    BY <2>1, <2>2, <2>3, SetToItself, DefaultsFacts DEF l
<1>. QED
  BY <1>1, <1>2

(* A file of such lines only is as good as none. *)
LEMMA LoadOfDefaults ==
  ASSUME NEW lines \in Seq(FileLine), NEW k \in 0..Len(lines), NEW f, Steps(f, lines),
         \A i \in 1..k : ConfigSet(Defaults, lines[i]) = Defaults
  PROVE  f[k] = Defaults
<1>. DEFINE Bad == {i \in 0..k : f[i] # Defaults}
<1>. SUFFICES ASSUME Bad # {} PROVE FALSE
  OBVIOUS
<1>1. Bad \in SUBSET Nat /\ k \in Nat /\ Len(lines) \in Nat
  OBVIOUS
<1>. HIDE DEF Bad
<1>2. PICK i \in Bad : \A j \in Bad : i <= j
  BY <1>1, LeastNumber
<1>. USE DEF Bad
<1>3. i # 0
  BY <1>2 DEF Steps
<1>4. i \in 1..k /\ i - 1 \in 0..k /\ i \in 1..Len(lines) /\ f[i - 1] = Defaults
  BY <1>1, <1>2, <1>3
<1>5. f[i] = ConfigSet(f[i - 1], lines[i])
  BY <1>4 DEF Steps
<1>. QED
  BY <1>2, <1>4, <1>5

(* The start of a file has its first lines. *)
LEMMA StartFacts ==
  ASSUME NEW S, NEW lines \in Seq(S), NEW n \in 0..Len(lines)
  PROVE  /\ SubSeq(lines, 1, n) \in Seq(S) /\ Len(SubSeq(lines, 1, n)) = n
         /\ SubSeq(lines, 1, n) = [i \in 1..n |-> lines[i]]
         /\ n = Len(lines) => SubSeq(lines, 1, n) = lines
<1>1. Len(lines) \in Nat /\ lines \in [1..Len(lines) -> S]
  OBVIOUS
<1>2. SubSeq(lines, 1, n) = [i \in 1..n |-> lines[i]]
  BY <1>1
<1>3. [i \in 1..n |-> lines[i]] \in [1..n -> S]
  BY <1>1
<1>4. ASSUME NEW m \in Nat, NEW s \in [1..m -> S]
      PROVE  s \in Seq(S) /\ Len(s) = m
  OBVIOUS
<1>5. n \in Nat
  BY <1>1
<1>6. n = Len(lines) => [i \in 1..n |-> lines[i]] = lines
  BY <1>1
<1>. QED
  BY <1>2, <1>3, <1>4, <1>5, <1>6

(* The template and every start of it say what is the default anyway. *)
LEMMA LoadTemplate ==
  /\ Template \in Seq(FileLine) /\ <<>> \in Seq(FileLine)
  /\ \A lines : Begins(lines, Template) => lines \in Seq(FileLine) /\ Load(lines) = Defaults
<1>1. Template \in Seq(FileLine)
  <2>1. Template = [n \in 1..13 |-> Template[n]]
    BY DEF Template
  <2>2. \A n \in 1..13 : Template[n] \in FileLine
    BY TemplateKeepsDefaults
  <2>3. Template \in [1..13 -> FileLine]
    BY <2>1, <2>2
  <2>4. ASSUME NEW S, NEW m \in Nat, NEW s \in [1..m -> S]
        PROVE  s \in Seq(S)
    OBVIOUS
  <2>. QED
    BY <2>3, <2>4
<1>2. <<>> \in Seq(FileLine) /\ Len(Template) = 13
  BY TemplateLines
<1>3. ASSUME NEW lines, Begins(lines, Template)
      PROVE  lines \in Seq(FileLine) /\ Load(lines) = Defaults
  <2>1. PICK n \in 0..13 : lines = SubSeq(Template, 1, n)
    BY <1>2, <1>3 DEF Begins
  <2>2. /\ lines \in Seq(FileLine) /\ Len(lines) = n
        /\ lines = [i \in 1..n |-> Template[i]]
    BY <1>1, <1>2, <2>1, StartFacts
  <2>3. PICK f : Steps(f, lines) /\ Load(lines) = f[n]
    BY <2>2, LoadSteps
  <2>4. \A i \in 1..n : i \in 1..13 /\ lines[i] = Template[i]
    BY <2>2
  <2>5. n \in 0..Len(lines)
    BY <2>2
  <2>. QED
    BY <2>2, <2>3, <2>4, <2>5, TemplateKeepsDefaults, LoadOfDefaults
<1>. QED
  BY <1>1, <1>2, <1>3

(* And one that was cut does not turn on what is dangerous. *)
LEMMA LoadCutTemplate ==
  ASSUME NEW lines \in CutTemplates
  PROVE  /\ lines \in Seq(FileLine)
         /\ \A m \in 0..Len(lines) : m = Len(lines) \/ Begins(SubSeq(lines, 1, m), Template)
         /\ Load(lines).delete_after_extract = 0 /\ Load(lines).overwrite = 0
         /\ Load(lines).allow_symlinks = 0
<1>1. PICK n \in 1..13 :
        \E l \in CutLines(Template[n]) : lines = Append(SubSeq(Template, 1, n - 1), l)
  <2>1. DOMAIN Template = 1..13
    BY TemplateLines
  <2>. QED
    BY <2>1 DEF CutTemplates
<1>0. PICK l \in CutLines(Template[n]) : lines = Append(SubSeq(Template, 1, n - 1), l)
  BY <1>1
<1>. DEFINE danger == {"delete_after_extract", "overwrite", "allow_symlinks"}
<1>2. /\ l \in FileLine
      /\ l.key \in danger => ~Accepted(l.key, l.value)
  <2>. DEFINE t == Template[n]
  <2>1. t.key \in Key /\ t.value \in Nat /\ (t.key \in danger => t.value = 0)
    <3>1. CASE n = 2
      <4>0. t = Line("watchpath", UA_DEFAULT_WATCHPATH)
        BY <3>1, TemplateLines
      <4>. HIDE DEF t
      <4>1. t.key = "watchpath" /\ t.value = UA_DEFAULT_WATCHPATH
        BY <4>0 DEF Line
      <4>. QED
        BY <4>1, ConfigAssumption DEF Key
    <3>2. CASE n # 2
      BY <3>2, TemplateLines DEF Key
    <3>. QED
      BY <3>1, <3>2
  <2>0. l \in CutLines(t)
    OBVIOUS
  <2>. HIDE DEF t
  <2>2. PICK k \in {"no_equals", t.key}, v \in Int :
          /\ l = Line(k, v)
          /\ k = "no_equals" \/ v = Empty \/ k = "watchpath" \/ t.value # 0
    <3>0. Empty \in Int
      BY DEF Empty
    <3>1. CASE l = Line("no_equals", Empty) \/ l = Line(t.key, Empty)
      BY <3>0, <3>1
    <3>2. CASE t.key = "watchpath" /\ l \in {Line(t.key, p) : p \in CutNames}
      <4>1. PICK p \in CutNames : l = Line(t.key, p)
        BY <3>2
      <4>2. p \in Int
        BY ConfigAssumption
      <4>. QED
        BY <3>2, <4>1, <4>2
    <3>3. CASE l \in {Line(t.key, t.value \div d) : d \in {e \in {10, 100, 1000} : e <= t.value}}
      <4>1. PICK d \in {10, 100, 1000} : d <= t.value /\ l = Line(t.key, t.value \div d)
        BY <3>3
      <4>2. t.value \div d \in Int /\ t.value # 0
        <5>1. t.value \div 10 \in Int /\ t.value \div 100 \in Int /\ t.value \div 1000 \in Int
          BY <2>1
        <5>2. d = 10 \/ d = 100 \/ d = 1000
          BY <4>1
        <5>. QED
          BY <2>1, <4>1, <5>1, <5>2
      <4>. DEFINE q == t.value \div d
      <4>3. l = Line(t.key, q) /\ q \in Int /\ t.value # 0 /\ t.key \in {"no_equals", t.key}
        BY <4>1, <4>2
      <4>. HIDE DEF q
      <4>4. /\ l = Line(t.key, q)
            /\ t.key = "no_equals" \/ q = Empty \/ t.key = "watchpath" \/ t.value # 0
        BY <4>3
      <4>. QED
        BY <4>3, <4>4
    <3>. QED
      BY <2>0, <3>1, <3>2, <3>3 DEF CutLines, NoEquals
  <2>3. l.key = k /\ l.value = v
    BY <2>2, LineFacts
  <2>5. l \in FileLine
    BY <2>1, <2>2, LineFacts
  <2>7. ASSUME l.key \in danger
        PROVE  l.value = Empty
    BY <2>1, <2>2, <2>3, <2>7
  <2>8. ASSUME NEW x \in danger
        PROVE  ~Accepted(x, Empty)
    <3>1. x \in BoolKey
      BY DEF BoolKey
    <3>2. Empty \notin {Yes, No, Huge} /\ ~(Empty >= 0)
      <4>1. Empty = -4 /\ Yes = -1 /\ No = -2 /\ Huge = -5
        BY DEF Empty, Yes, No, Huge
      <4>. QED
        BY <4>1
    <3>. QED
      BY <3>1, <3>2 DEF Accepted
  <2>. QED
    BY <2>5, <2>7, <2>8
<1>. DEFINE head == SubSeq(Template, 1, n - 1)
<1>3. /\ head \in Seq(FileLine) /\ Len(head) = n - 1
      /\ \A i \in 1..(n - 1) : head[i] = Template[i]
  <2>1. Template \in Seq(FileLine) /\ Len(Template) = 13 /\ n \in 1..13
    BY TemplateLines, LoadTemplate
  <2>2. head = [i \in 1..(n - 1) |-> Template[i]]
    BY <2>1
  <2>3. n - 1 \in Nat /\ \A i \in 1..(n - 1) : Template[i] \in FileLine
    BY <2>1, TemplateKeepsDefaults
  <2>. HIDE DEF head
  <2>4. head \in [1..(n - 1) -> FileLine]
    BY <2>2, <2>3
  <2>. QED
    BY <2>2, <2>3, <2>4
<1>. HIDE DEF head
<1>4. /\ lines \in Seq(FileLine) /\ Len(lines) = n /\ lines[n] = l
      /\ \A i \in 1..(n - 1) : lines[i] = Template[i]
  BY <1>0, <1>2, <1>3 DEF head
<1>5. PICK f : Steps(f, lines) /\ Load(lines) = f[n]
  BY <1>4, LoadSteps
<1>6. f[n - 1] = Defaults
  <2>1. n - 1 \in 0..Len(lines)
    BY <1>4
  <2>2. \A i \in 1..(n - 1) : i \in 1..13
    OBVIOUS
  <2>3. \A i \in 1..(n - 1) : ConfigSet(Defaults, lines[i]) = Defaults
    BY <1>4, <2>2, TemplateKeepsDefaults
  <2>. QED
    BY <1>4, <1>5, <2>1, <2>3, LoadOfDefaults
<1>7. Load(lines) = ConfigSet(Defaults, l)
  <2>1. n \in 1..Len(lines)
    BY <1>4
  <2>. QED
    BY <1>4, <1>5, <1>6, <2>1 DEF Steps
<1>8. \A k \in danger : Load(lines)[k] = Defaults[k]
  <2>1. danger \subseteq BoolKey
    BY DEF BoolKey
  <2>. QED
    BY <1>2, <1>7, <2>1, KeyAfterLine, DefaultsFacts
<1>9. ASSUME NEW m \in 0..Len(lines), m # Len(lines)
      PROVE  Begins(SubSeq(lines, 1, m), Template)
  <2>1. m \in 0..(n - 1) /\ m \in 0..13
    BY <1>4, <1>9
  <2>2. SubSeq(lines, 1, m) = [i \in 1..m |-> lines[i]]
    BY <1>4, StartFacts
  <2>3. \A i \in 1..m : lines[i] = Template[i]
    BY <1>4, <2>1
  <2>4. Template \in Seq(FileLine) /\ Len(Template) = 13
    BY LoadTemplate, TemplateLines
  <2>5. SubSeq(Template, 1, m) = [i \in 1..m |-> Template[i]]
    BY <2>1, <2>4, StartFacts
  <2>6. SubSeq(lines, 1, m) = SubSeq(Template, 1, m)
    BY <2>2, <2>3, <2>5
  <2>. QED
    BY <2>1, <2>4, <2>6 DEF Begins
<1>. QED
  BY <1>4, <1>8, <1>9, DefaultsFacts

-------------------------------------------------------------------------------
(* A launch. *)

Files == UserFiles \cup {Missing, Template, <<>>} \cup CutTemplates

(* What a launch may have read of them, and Missing. *)
Starts == {lines \in Seq(FileLine) : \E f \in Files : Begins(lines, f)}

LaunchTyped ==
  /\ pc \in [Launch -> {"off", "config", "template", "created", "reopen", "driver",
                         "running", "refused"}]
  /\ due \in [Launch -> Nat]

(* What a launch runs with is what it made of the lines that it has read. *)
ConfigInv ==
  /\ file \in Files
  /\ read \in [Launch -> Starts]
  /\ conf \in [Launch -> Conf]
  /\ \A i \in Launch : conf[i] = Load(read[i])

StartupInv == LogInv /\ LaunchTyped /\ ConfigInv

(* Whatever is in the place of config.ini is a sequence of lines. *)
LEMMA FilesHaveLines == Files \subseteq Seq(FileLine)
<1>1. UserFiles \subseteq Seq(FileLine)
  <2>1. [key : STRING, value : Int] \subseteq FileLine
    BY DEF FileLine, Word
  <2>. HIDE DEF FileLine
  <2>2. \A S, T : S \subseteq T => Seq(S) \subseteq Seq(T)
    OBVIOUS
  <2>. QED
    BY <2>1, <2>2, StartupAssumption
<1>2. Missing \in Seq(FileLine)
  <2>1. Line("missing", Empty) \in FileLine
    <3>1. Empty \in Int
      BY DEF Empty
    <3>. QED
      BY <3>1, LineFacts
  <2>. QED
    BY <2>1 DEF Missing
<1>. QED
  BY <1>1, <1>2, LoadTemplate, LoadCutTemplate DEF Files

(* To read nothing is to have the defaults. *)
LEMMA LoadMissing == Load(Missing) = Defaults
<1>1. Missing \in Seq(FileLine) /\ Len(Missing) = 1 /\ Missing[1] = Line("missing", Empty)
  BY FilesHaveLines DEF Files, Missing
<1>2. Line("missing", Empty) \in FileLine /\ Line("missing", Empty).key = "missing"
  <2>1. Empty \in Int
    BY DEF Empty
  <2>. QED
    BY <2>1, LineFacts
<1>3. ~IsGood(Defaults, Line("missing", Empty))
  <2>1. "missing" \notin BoolKey \cup NumberKey /\ "missing" # "watchpath"
    BY KeyFacts DEF BoolKey
  <2>. QED
    BY <1>2, <2>1 DEF IsGood, Accepted
<1>4. ConfigSet(Defaults, Line("missing", Empty)) = Defaults
  BY <1>2, <1>3, DefaultsFacts, SetFacts
<1>5. PICK f : Steps(f, Missing) /\ Load(Missing) = f[1]
  BY <1>1, LoadSteps
<1>6. 1 \in 0..Len(Missing) /\ \A i \in 1..1 : ConfigSet(Defaults, Missing[i]) = Defaults
  BY <1>1, <1>4
<1>. QED
  BY <1>1, <1>5, <1>6, LoadOfDefaults

(* So is what was read of it, all or less. *)
LEMMA StartsAreRead ==
  /\ Starts \subseteq Seq(FileLine) /\ Missing \in Starts
  /\ \A f \in Files : \A n \in 0..Len(f) : SubSeq(f, 1, n) \in Starts
<1>1. ASSUME NEW f \in Files, NEW n \in 0..Len(f)
      PROVE  SubSeq(f, 1, n) \in Starts
  <2>1. SubSeq(f, 1, n) \in Seq(FileLine)
    BY FilesHaveLines, StartFacts
  <2>2. Begins(SubSeq(f, 1, n), f)
    BY DEF Begins
  <2>. QED
    BY <2>1, <2>2 DEF Starts
<1>2. Missing \in Starts
  <2>1. Missing \in Files /\ Len(Missing) = 1 /\ 1 \in 0..Len(Missing)
    BY DEF Files, Missing
  <2>2. SubSeq(Missing, 1, 1) = Missing
    BY <2>1, FilesHaveLines, StartFacts
  <2>. QED
    BY <1>1, <2>1, <2>2
<1>. QED
  BY <1>1, <1>2 DEF Starts

(* What is loaded is a configuration. *)
LEMMA LoadedIsConf ==
  ASSUME NEW lines \in Seq(FileLine)
  PROVE  Load(lines) \in Conf /\ Warnings(lines) \in Nat
<1>1. Load(lines) \in Conf
  <2>1. PICK f : /\ \A i \in 0..Len(lines) : f[i] \in Conf
                 /\ Load(lines) = f[Len(lines)]
    BY LoadSteps
  <2>2. Len(lines) \in 0..Len(lines)
    OBVIOUS
  <2>. QED
    BY <2>1, <2>2
<1>2. Warnings(lines) \in Nat
  <2>1. IsFiniteSet(1..Len(lines))
    BY FS_Interval
  <2>2. \A s \in SUBSET (1..Len(lines)) : Cardinality(s) \in Nat
    BY <2>1, FS_Subset, FS_CardinalityType
  <2>. QED
    BY <2>2 DEF Warnings
<1>. QED
  BY <1>1, <1>2

(* A launch that has read a file. *)
LEMMA LoadedKeepsInv ==
  ASSUME StartupInv, NEW i \in Launch, NEW f \in Starts, NEW c,
         Loaded(i, f, c), c = Load(f),
         file' \in Files
  PROVE  ConfigInv'
<1>1. c \in Conf
  BY StartsAreRead, LoadedIsConf, DefaultsFacts
<1>2. /\ read' = [read EXCEPT ![i] = f] /\ conf' = [conf EXCEPT ![i] = c]
      /\ read \in [Launch -> Starts] /\ conf \in [Launch -> Conf]
  BY DEF Loaded, StartupInv, ConfigInv
<1>3. read' \in [Launch -> Starts] /\ conf' \in [Launch -> Conf]
  BY <1>1, <1>2
<1>4. ASSUME NEW j \in Launch
      PROVE  conf'[j] = Load(read'[j])
  <2>1. CASE j = i
    BY <1>2, <2>1
  <2>2. CASE j # i
    <3>1. conf'[j] = conf[j] /\ read'[j] = read[j]
      BY <1>2, <2>2
    <3>. QED
      BY <3>1 DEF StartupInv, ConfigInv
  <2>. QED
    BY <2>1, <2>2
<1>. QED
  BY <1>3, <1>4 DEF ConfigInv

(* A launch that goes on to another place. *)
LEMMA GoToTyped ==
  ASSUME StartupInv, NEW i \in Launch, NEW lines \in Nat,
         NEW at \in {"off", "config", "template", "created", "reopen", "driver",
                     "running", "refused"},
         GoTo(i, at, lines)
  PROVE  LaunchTyped'
BY DEF StartupInv, LaunchTyped, GoTo

(* The configuration is left alone. *)
LEMMA ConfigStutters ==
  ASSUME StartupInv, UNCHANGED configVars
  PROVE  ConfigInv'
BY DEF StartupInv, ConfigInv, configVars

(* The launches are left alone. *)
LEMMA LaunchStutters ==
  ASSUME StartupInv, UNCHANGED <<pc, due>>
  PROVE  LaunchTyped'
BY DEF StartupInv, LaunchTyped

(* Before anything is launched. *)
LEMMA StartupInitInv == StartupInit => StartupInv
<1>. SUFFICES ASSUME StartupInit PROVE StartupInv
  OBVIOUS
<1>1. LogInv
  BY LogInitInv DEF StartupInit
<1>2. LaunchTyped
  BY DEF StartupInit, LaunchTyped
<1>3. ConfigInv
  <2>1. Missing \in Files /\ Missing \in Starts /\ Defaults \in Conf
    BY DefaultsFacts, StartsAreRead DEF Files
  <2>2. /\ file = Missing /\ read = [i \in Launch |-> Missing]
        /\ conf = [i \in Launch |-> Defaults]
    BY DEF StartupInit
  <2>. HIDE DEF Missing, Defaults
  <2>. QED
    BY <2>1, <2>2, LoadMissing DEF ConfigInv
<1>. QED
  BY <1>1, <1>2, <1>3 DEF StartupInv

(* Every step of a launch, and the user's, keeps the invariant. *)
LEMMA StartupStepInv == StartupInv /\ [StartupNext]_startupVars => StartupInv'
<1>. SUFFICES ASSUME StartupInv, [StartupNext]_startupVars PROVE StartupInv'
  OBVIOUS
<1>1. CASE UNCHANGED startupVars
  BY <1>1, LogStutters, LaunchStutters, ConfigStutters DEF StartupInv, startupVars, configVars
<1>2. CASE EditConfig
  <2>1. LogInv' /\ LaunchTyped'
    BY <1>2, LogStutters, LaunchStutters DEF StartupInv, EditConfig
  <2>2. ConfigInv'
    BY <1>2 DEF StartupInv, ConfigInv, EditConfig, Files
  <2>. QED
    BY <2>1, <2>2 DEF StartupInv
<1>3. ASSUME NEW i \in Launch, LaunchStep(i)
      PROVE  StartupInv'
  <2>. USE <1>3
  <2>. DEFINE places == {"off", "config", "template", "created", "reopen", "driver",
                         "running", "refused"}
  <2>0. LogInv /\ file \in Files /\ due[i] \in Nat
    BY DEF StartupInv, ConfigInv, LaunchTyped
  <2>1. CASE Begin(i)
    <3>1. LogInv'
      BY <2>0, <2>1, LogOpenKeepsInv DEF Begin, Ready
    <3>2. LaunchTyped' /\ ConfigInv'
      BY <2>1, GoToTyped, ConfigStutters DEF Begin
    <3>. QED
      BY <3>1, <3>2 DEF StartupInv
  <2>2. CASE Say(i)
    <3>1. LogInv'
      BY <2>0, <2>2, WriteKeepsInv DEF Say
    <3>2. due' = [due EXCEPT ![i] = @ - 1] /\ due[i] > 0 /\ pc' = pc
      BY <2>2 DEF Say
    <3>3. LaunchTyped'
      BY <2>0, <3>2 DEF StartupInv, LaunchTyped
    <3>. QED
      BY <2>2, <3>1, <3>3, ConfigStutters DEF StartupInv, Say
  <2>3. CASE RotateLog(i)
    BY <2>0, <2>3, RotateKeepsInv, LaunchStutters, ConfigStutters
      DEF StartupInv, RotateLog, configVars
  <2>4. CASE LoadConfig(i)
    <3>1. PICK n \in 0..Len(file) :
            /\ IF n = Len(file) THEN UNCHANGED logVars ELSE FaultOutsideLog
            /\ Loaded(i, SubSeq(file, 1, n), Load(SubSeq(file, 1, n)))
            /\ GoTo(i, "reopen", Warnings(SubSeq(file, 1, n)))
      BY <2>4 DEF LoadConfig
    <3>. DEFINE lines == SubSeq(file, 1, n)
    <3>2. LogInv'
      <4>1. /\ UNCHANGED <<disk, log, said, crashes, excess, shared>>
            /\ UNCHANGED faults \/ Fault
        BY <3>1 DEF FaultOutsideLog, logVars
      <4>. QED
        BY <2>0, <4>1, FaultStutters
    <3>3. /\ lines \in Starts /\ lines \in Seq(FileLine)
          /\ Loaded(i, lines, Load(lines)) /\ GoTo(i, "reopen", Warnings(lines))
      BY <2>0, <3>1, StartsAreRead
    <3>. HIDE DEF lines
    <3>4. LaunchTyped'
      <4>1. Warnings(lines) \in Nat
        BY <3>3, LoadedIsConf
      <4>. QED
        BY <3>3, <4>1, GoToTyped
    <3>5. ConfigInv'
      <4>1. file' \in Files
        BY <2>0, <2>4 DEF LoadConfig
      <4>. QED
        BY <3>3, <4>1, LoadedKeepsInv
    <3>. QED
      BY <3>2, <3>4, <3>5 DEF StartupInv
  <2>5. CASE BeginTemplate(i)
    <3>1. LogInv'
      <4>1. /\ UNCHANGED <<disk, log, said, crashes, excess, shared>>
            /\ UNCHANGED faults \/ Fault
        BY <2>5 DEF BeginTemplate, FaultOutsideLog, logVars
      <4>. QED
        BY <2>0, <4>1, FaultStutters
    <3>2. LaunchTyped'
      <4>1. GoTo(i, "template", 0) \/ GoTo(i, "reopen", 1)
        BY <2>5 DEF BeginTemplate
      <4>. QED
        BY <4>1, GoToTyped
    <3>3. ConfigInv'
      <4>1. Missing \in Files /\ <<>> \in Files
        BY DEF Files
      <4>2. file' \in Files
        BY <2>0, <2>5, <4>1 DEF BeginTemplate
      <4>. QED
        BY <2>5, <4>2, StartsAreRead, LoadMissing, LoadedKeepsInv DEF BeginTemplate
    <3>. QED
      BY <3>1, <3>2, <3>3 DEF StartupInv
  <2>6. CASE EndTemplate(i)
    <3>1. LogInv'
      <4>1. /\ UNCHANGED <<disk, log, said, crashes, excess, shared>>
            /\ UNCHANGED faults \/ Fault
        BY <2>6 DEF EndTemplate, FaultOutsideLog, logVars
      <4>. QED
        BY <2>0, <4>1, FaultStutters
    <3>2. LaunchTyped'
      <4>1. GoTo(i, "created", 1) \/ GoTo(i, "reopen", 1)
        BY <2>6 DEF EndTemplate
      <4>. QED
        BY <4>1, GoToTyped
    <3>3. ConfigInv'
      <4>1. file' \in Files /\ UNCHANGED <<conf, read>>
        BY <2>6 DEF EndTemplate, Files
      <4>. QED
        BY <4>1 DEF StartupInv, ConfigInv
    <3>. QED
      BY <3>1, <3>2, <3>3 DEF StartupInv
  <2>7. CASE ReopenLog(i)
    <3>. DEFINE lvl == IF conf[i].debug = 1 THEN DEBUG ELSE INFO
    <3>1. LogInv'
      <4>1. lvl \in {INFO, DEBUG} /\ LogOpen(i, lvl) /\ log[i].rotating = "no"
        BY <2>7 DEF ReopenLog, Ready
      <4>. HIDE DEF lvl
      <4>. QED
        BY <2>0, <4>1, LogOpenKeepsInv
    <3>2. LaunchTyped'
      <4>1. conf[i].watchpath \in Seq(Int)
        BY DEF StartupInv, ConfigInv, Conf
      <4>. DEFINE lines == Len(conf[i].watchpath) + IF pc[i] = "created" THEN 1 ELSE 0
      <4>2. GoTo(i, "driver", lines)
        BY <2>7 DEF ReopenLog
      <4>3. Len(conf[i].watchpath) \in Nat
        BY <4>1
      <4>4. lines \in Nat
        <5>1. lines \in {Len(conf[i].watchpath) + 1, Len(conf[i].watchpath) + 0}
          OBVIOUS
        <5>. HIDE DEF lines
        <5>. QED
          BY <4>3, <5>1
      <4>. HIDE DEF lines
      <4>. QED
        BY <4>2, <4>4, GoToTyped
    <3>. QED
      BY <2>7, <3>1, <3>2, ConfigStutters DEF StartupInv, ReopenLog
  <2>8. CASE CreateDriver(i)
    BY <2>0, <2>8, LogStutters, GoToTyped, ConfigStutters
      DEF StartupInv, CreateDriver, configVars
  <2>9. CASE DriverRefused(i)
    BY <2>0, <2>9, LogStutters, GoToTyped, ConfigStutters
      DEF StartupInv, DriverRefused, configVars
  <2>10. CASE Leave(i) \/ Crash(i)
    <3>1. LogInv'
      BY <2>0, <2>10, LogCloseKeepsInv, LogCrashKeepsInv DEF Leave, Crash, Ready
    <3>2. Ends(i)
      BY <2>10 DEF Leave, Crash
    <3>3. LaunchTyped'
      BY <3>2, GoToTyped DEF Ends
    <3>4. ConfigInv'
      BY <2>0, <3>2, StartsAreRead, LoadMissing, LoadedKeepsInv DEF Ends
    <3>. QED
      BY <3>1, <3>3, <3>4 DEF StartupInv
  <2>11. CASE Work(i)
    <3>1. LogInv'
      BY <2>0, <2>11, WriteKeepsInv DEF Work
    <3>. QED
      BY <2>11, <3>1, LaunchStutters, ConfigStutters DEF StartupInv, Work, configVars
  <2>. QED
    BY <2>1, <2>2, <2>3, <2>4, <2>5, <2>6, <2>7, <2>8, <2>9, <2>10, <2>11 DEF LaunchStep
<1>. QED
  BY <1>1, <1>2, <1>3 DEF StartupNext

(* Launches, crashes, a user who edits the file: the log and the           *)
(* configuration stay as the invariant has them.                           *)
THEOREM StartupInvariant == StartupSpec => []StartupInv
<1>1. StartupInit => StartupInv
  BY StartupInitInv
<1>2. StartupInv /\ [StartupNext]_startupVars => StartupInv'
  BY StartupStepInv
<1>. QED
  BY <1>1, <1>2, PTL DEF StartupSpec

(* Every variable keeps its type: among the rest, no more than one inode   *)
(* per launch and two is in use, and config.ini is the user's, the         *)
(* template, or a start of it (src/main_ps5.c, ua_config.c, ua_log.c).     *)
THEOREM StartupTypes == StartupSpec => []StartupTypeOK
<1>1. StartupInv => StartupTypeOK
  BY DEF StartupInv, LogInv, LogTyped, LaunchTyped, ConfigInv, StartupTypeOK, Files
<1>. QED
  BY <1>1, StartupInvariant, PTL

(* The two log files hold the last lines, in order and at least a cap of   *)
(* them, whatever fails and crashes, unless another launch had the log     *)
(* open while it was rotated (ua_log.c log_rotate); a line is missing from *)
(* them only when its own fprintf or fflush failed (ua_log_write).         *)
THEOREM LastLinesAreKept == StartupSpec => []RecentLinesKept
<1>1. StartupInv => RecentLinesKept
  BY LinesAreKept DEF StartupInv
<1>. QED
  BY <1>1, StartupInvariant, PTL

(* While launches do not share the log, it takes no more than twice the    *)
(* cap, a line for each rotation that failed or was cut short, and a cap   *)
(* for each time its size could not be had (log_open_current).             *)
THEOREM DiskStaysBounded == StartupSpec => []DiskBounded
<1>1. StartupInv => DiskBounded
  BY DiskIsBounded DEF StartupInv
<1>. QED
  BY <1>1, StartupInvariant, PTL

(* Whatever the file says and in whatever order, and wherever reading it   *)
(* ends, every key has the value of the last good line that was read and   *)
(* every path listed in what was read is watched, but for a default that   *)
(* is the first of several (ua_config_set, ua_config_load).                *)
THEOREM ConfigSaysWhatIsWritten == StartupSpec => []ConfigIsAsWritten
<1>1. ASSUME StartupInv PROVE ConfigIsAsWritten
  <2>1. ASSUME NEW i \in Launch, read[i] # Missing
        PROVE  /\ \A k \in BoolKey \cup NumberKey : conf[i][k] = Says(read[i], k)
               /\ \/ conf[i].watchpath = UsablePaths(read[i])
                  \/ UsablePaths(read[i]) = <<>> /\ conf[i].watchpath = <<UA_DEFAULT_WATCHPATH>>
                  \/ DefaultDropped(read[i])
    <3>1. read[i] \in Seq(FileLine) /\ conf[i] = Load(read[i])
      BY <1>1, <2>1, StartsAreRead DEF StartupInv, ConfigInv
    <3>. QED
      BY <3>1, LoadIsSaid, LoadHasPaths
  <2>. QED
    BY <2>1 DEF ConfigIsAsWritten
<1>. QED
  BY <1>1, StartupInvariant, PTL

(* Nothing but a line of the user's own file turns on deleting,            *)
(* overwriting or symbolic links: not the defaults, not the template, not  *)
(* a template that was cut anywhere, is read while another launch writes   *)
(* it, or could be read in part only (ua_config_load and _write_template). *)
THEOREM DangerNeedsTheUser == StartupSpec => []DangerIsOptIn
<1>. DEFINE danger == {"delete_after_extract", "overwrite", "allow_symlinks"}
<1>1. ASSUME StartupInv PROVE DangerIsOptIn
  <2>1. ASSUME NEW i \in Launch
        PROVE  /\ read[i] \in Seq(FileLine) /\ conf[i] = Load(read[i])
               /\ \E f \in Files : Begins(read[i], f)
    <3>1. read[i] \in Starts /\ conf[i] = Load(read[i])
      BY <1>1 DEF StartupInv, ConfigInv
    <3>. QED
      BY <3>1 DEF Starts
  <2>2. ASSUME NEW i \in Launch, read[i] = Missing \/ Begins(read[i], Template)
        PROVE  conf[i] = Defaults
    BY <2>1, <2>2, LoadMissing, LoadTemplate
  <2>3. ASSUME NEW i \in Launch, NEW k \in danger, conf[i][k] # 0
        PROVE  /\ \E u \in UserFiles : Begins(read[i], u)
               /\ \E n \in DOMAIN read[i] : /\ read[i][n].key = k
                                            /\ Accepted(k, read[i][n].value)
                                            /\ Parsed(k, read[i][n].value) = 1
    <3>1. Defaults[k] = 0 /\ k \in BoolKey
      BY DefaultsFacts DEF BoolKey
    <3>. HIDE DEF danger
    <3>2. conf[i] # Defaults
      BY <2>3, <3>1
    <3>3. read[i] # Missing /\ ~Begins(read[i], Template)
      BY <2>2, <3>2
    <3>4. PICK f \in Files : Begins(read[i], f)
      BY <2>1
    <3>5. f \in UserFiles
      <4>1. PICK n \in 0..Len(f) : read[i] = SubSeq(f, 1, n)
        BY <3>4 DEF Begins
      <4>2. f \in Seq(FileLine) /\ Len(f) \in Nat
        BY FilesHaveLines
      <4>3. n = 0 => read[i] = <<>>
        BY <4>1, <4>2, StartFacts
      <4>4. <<>> = SubSeq(Template, 1, 0) /\ 0 \in 0..Len(Template)
        BY LoadTemplate, TemplateLines, StartFacts
      <4>5. n # 0
        BY <3>3, <4>3, <4>4 DEF Begins
      <4>6. CASE f = Missing
        <5>1. n = Len(f)
          BY <4>1, <4>5, <4>6 DEF Missing
        <5>. QED
          BY <3>3, <4>1, <4>2, <4>6, <5>1, StartFacts
      <4>7. CASE f = <<>>
        BY <4>1, <4>5, <4>7
      <4>8. CASE f = Template
        BY <3>3, <3>4, <4>8
      <4>9. CASE f \in CutTemplates
        <5>1. n = Len(f)
          BY <3>3, <4>1, <4>9, LoadCutTemplate
        <5>2. read[i] = f
          BY <4>1, <4>2, <5>1, StartFacts
        <5>. QED
          BY <2>1, <2>3, <4>9, <5>2, LoadCutTemplate DEF danger
      <4>. QED
        BY <4>6, <4>7, <4>8, <4>9 DEF Files
    <3>6. conf[i][k] = Says(read[i], k)
      BY <2>1, <3>1, LoadIsSaid
    <3>7. GoodLines(read[i], k) # {} /\ Parsed(k, read[i][Max(GoodLines(read[i], k))].value) # 0
      BY <2>3, <3>1, <3>6 DEF Says
    <3>8. GoodLines(read[i], k) \in SUBSET (0..Len(read[i])) /\ Len(read[i]) \in Nat
      BY <2>1 DEF GoodLines
    <3>9. Max(GoodLines(read[i], k)) \in GoodLines(read[i], k)
      BY <3>7, <3>8, MaxFacts
    <3>10. PICK n \in GoodLines(read[i], k) : Parsed(k, read[i][n].value) # 0
      BY <3>7, <3>9
    <3>11. Parsed(k, read[i][n].value) = 1
      BY <3>1, <3>10 DEF Parsed
    <3>12. n \in DOMAIN read[i] /\ read[i][n].key = k /\ Accepted(k, read[i][n].value)
      BY <3>10 DEF GoodLines
    <3>. QED
      BY <3>4, <3>5, <3>11, <3>12
  <2>. QED
    BY <2>2, <2>3 DEF DangerIsOptIn
<1>. QED
  BY <1>1, StartupInvariant, PTL
===============================================================================
