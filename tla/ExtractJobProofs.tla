--------------------------- MODULE ExtractJobProofs ---------------------------
(***************************************************************************)
(* Proofs about one extraction job, for every archive and every tree that  *)
(* it finds at the destination, any limits, and any way of reading,        *)
(* failing or starting over.                                               *)
(***************************************************************************)
EXTENDS ExtractJob, Induction

-------------------------------------------------------------------------------
(* The inductive invariant. *)

Report == [entries_total : Nat, bytes_total : 0..UINT64_MAX, files_expected : Nat,
           entries_done : Nat, files_written : Nat, bytes_done : Nat]
Thing == [kind : {"none", "file", "dir", "link"}, by : 0..Len(entries), bytes : Nat]

ExtractTyped ==
  /\ entries \in Archives /\ free \in Free /\ overwrite \in Overwrites
  /\ before \in Trees
  /\ tree \in [Name -> Thing]
  /\ pc \in {"scan", "check", "dest", "next", "parallel", "file", "done"}
  /\ at \in 1..(Len(entries) + 1)
  /\ rep \in Report
  /\ base \in Nat /\ last_pct \in 0..100 /\ calls \in Nat
  /\ result \in {"none", "ok", "rejected", "failed"}

Extracting == pc \in {"next", "parallel", "file"} \/ result = "ok"
InFile     == pc \in {"parallel", "file"}
Passed(i)  == Placeable(entries[i], LinkTarget(entries[i]))

(* Nothing is touched before every entry has been looked at, and a job     *)
(* that succeeds has gone through all of them.                             *)
WalkOK ==
  /\ result = "none" <=> pc # "done"
  /\ pc = "scan" => \A i \in 1..(at - 1) : Passed(i)
  /\ pc \in {"check", "dest"} \/ Extracting \/ tree # before
       => \A i \in DOMAIN entries : Passed(i)
  /\ pc \in {"scan", "check", "dest"} => tree = before
  /\ InFile => at <= Len(entries) /\ entries[at].kind = "file"
  /\ result = "ok" => at = Len(entries) + 1

(* What lies at the destination: directories on the way to everything, and *)
(* what was there before, but for files that are being replaced.           *)
TreeOK ==
  /\ BelowDirectories(tree)
  /\ Extracting => tree[Dest] = Dir
  /\ NothingLost

(* The file in hand holds what has been counted of it, and no more than    *)
(* was declared.                                                           *)
FileInHand ==
  InFile => /\ File.kind = "file" /\ File.by = at
            /\ File.bytes <= entries[at].size
            /\ base <= rep.bytes_done

(* Every file so far is in place and complete, or the file in hand is at   *)
(* its place; a place is only ever taken over by a later entry.            *)
InPlace(i) ==
  LET there == tree[PlaceOf(entries[i])]
  IN  /\ there.kind = "file" /\ i <= there.by /\ there.by <= at
      /\ there.by = at => InFile /\ PlaceOf(entries[i]) = Here
      /\ there.by # at => there.bytes = entries[there.by].size
FilesOK == Extracting => \A i \in 1..(at - 1) : entries[i].kind = "file" => InPlace(i)

(* The counters against the archive.  A tally of some weights is what the  *)
(* first of them come to, for each number of them: it grows with the walk, *)
(* so that no sum over the archive has to be defined.                      *)
IsTally(f, weights, n) ==
  f \in [0..n -> Nat] /\ f[0] = 0 /\ \A i \in 1..n : f[i] = f[i - 1] + weights[i]

IsFile == [i \in DOMAIN entries |-> IF entries[i].kind = "file" THEN 1 ELSE 0]
Size   == [i \in DOMAIN entries |-> IF entries[i].kind = "file" THEN entries[i].size ELSE 0]
Walked == IF pc = "scan" THEN at - 1 ELSE Len(entries)

CountersOK ==
  (pc \in {"scan", "check", "dest"} \/ Extracting) =>
    /\ rep.entries_total = Walked
    /\ rep.entries_done = IF Extracting THEN at - 1 ELSE 0
    /\ \E files : /\ IsTally(files, IsFile, Walked)
                  /\ rep.files_expected = files[Walked]
                  /\ rep.files_written = IF Extracting THEN files[at - 1] ELSE 0
    /\ \E bytes : /\ IsTally(bytes, Size, Walked)
                  /\ rep.bytes_total = bytes[Walked]
                  /\ InFile => base = bytes[at - 1]
                  /\ ~InFile => rep.bytes_done = IF Extracting THEN bytes[at - 1] ELSE 0

(* Each report has moved the reported percentage on by a step at least. *)
ReportsOK == \E steps \in Nat : last_pct = steps * progress_percent_step /\ calls <= steps

(* There is something past the end of a file only while workers are at it, *)
(* or where that ended the job.                                            *)
BeyondInv == /\ beyond \in Nat
             /\ beyond > 0 => pc = "parallel" \/ (pc = "done" /\ result = "failed")

ExtractInv == /\ ExtractTyped
              /\ WalkOK
              /\ TreeOK
              /\ FileInHand
              /\ FilesOK
              /\ CountersOK
              /\ ReportsOK

-------------------------------------------------------------------------------
(* Entries and places. *)

(* What the assumption says of an entry: one that has passed its checks    *)
(* names a place, and a link one directly below the destination.           *)
LEMMA EntryFacts ==
  ASSUME NEW e \in Entry
  PROVE  /\ e.kind \in {"file", "dir", "link", "other"} /\ e.size \in Nat /\ e.actual \in Nat
         /\ e.kind = "link" => Len(PlaceOf(e)) = 1
         /\ \A target : Placeable(e, target) => PlaceOf(e) \in Name
BY ExtractAssumption DEF PlaceOf, Placeable, JoinChecked

(* An archive is a sequence of entries. *)
LEMMA ArchiveFacts ==
  ASSUME entries \in Archives
  PROVE  /\ Len(entries) \in Nat /\ DOMAIN entries = 1..Len(entries)
         /\ \A i \in 1..Len(entries) : entries[i] \in Entry
<1>1. PICK n \in 0..MaxEntries : entries \in [1..n -> Entry]
  BY DEF Archives
<1>2. entries \in Seq(Entry) /\ Len(entries) = n
  BY <1>1
<1>. QED
  BY <1>1, <1>2

(* What lies above a place lies above what lies above it. *)
LEMMA AboveFacts ==
  ASSUME NEW n \in Name
  PROVE  /\ n \in Seq(STRING) /\ Above(n) \subseteq Name /\ n \notin Above(n)
         /\ \A a \in Above(n) : Above(a) \subseteq Above(n)
         /\ Above(Dest) = {}
         /\ Len(n) = 1 => Above(n) = {Dest}
<1>1. n \in Seq(STRING) /\ Above(n) \subseteq Name
  BY ExtractAssumption
<1>2. \A k \in 0..(Len(n) - 1) : /\ SubSeq(n, 1, k) \in Seq(STRING)
                                 /\ Len(SubSeq(n, 1, k)) = k
                                 /\ \A j \in 0..(k - 1) : SubSeq(SubSeq(n, 1, k), 1, j) = SubSeq(n, 1, j)
  BY <1>1
<1>3. n \notin Above(n)
  BY <1>1, <1>2 DEF Above
<1>4. ASSUME NEW a \in Above(n) PROVE Above(a) \subseteq Above(n)
  <2>1. PICK k \in 0..(Len(n) - 1) : a = SubSeq(n, 1, k)
    BY DEF Above
  <2>2. Above(a) = {SubSeq(n, 1, j) : j \in 0..(k - 1)}
    BY <1>2, <2>1 DEF Above
  <2>. QED
    BY <1>1, <2>1, <2>2 DEF Above
<1>5. Above(Dest) = {}
  BY DEF Above, Dest
<1>6. Len(n) = 1 => Above(n) = {Dest}
  <2>. SUFFICES ASSUME Len(n) = 1 PROVE Above(n) = {Dest}
    OBVIOUS
  <2>1. SubSeq(n, 1, 0) = Dest
    BY <1>1 DEF Dest
  <2>2. \A k : k \in 0..(Len(n) - 1) <=> k = 0
    BY <1>1
  <2>3. Above(n) = {SubSeq(n, 1, k) : k \in 0..(Len(n) - 1)}
    BY DEF Above
  <2>. HIDE DEF Dest
  <2>4. SubSeq(n, 1, 0) \in Above(n) /\ \A x \in Above(n) : x = SubSeq(n, 1, 0)
    BY <2>2, <2>3, Zenon
  <2>. QED
    BY <2>1, <2>4
<1>. QED
  BY <1>1, <1>3, <1>4, <1>5, <1>6

(* The things that may lie at a place. *)
LEMMA ThingFacts ==
  ASSUME entries \in Archives
  PROVE  /\ Nothing \in Thing /\ Dir \in Thing /\ Old \in Thing /\ OldLink \in Thing
         /\ Nothing.kind = "none" /\ Dir.kind = "dir" /\ Old.kind = "file" /\ OldLink.kind = "link"
         /\ Nothing.by = 0 /\ Dir.by = 0 /\ Old.by = 0 /\ OldLink.by = 0
         /\ \A i \in 1..Len(entries), n \in Nat :
              /\ Ours(i, n) \in Thing /\ Ours(i, n).kind = "file" /\ Ours(i, n).by = i
              /\ Ours(i, n).bytes = n
              /\ OurLink(i) \in Thing /\ OurLink(i).kind = "link" /\ OurLink(i).by = i
<1>1. Len(entries) \in Nat
  BY ArchiveFacts
<1>. QED
  BY <1>1 DEF Thing, Nothing, Dir, Old, OldLink, Ours, OurLink

(* A file that grows or is truncated stays what it is otherwise. *)
LEMMA ResizedThing ==
  ASSUME NEW x \in Thing, NEW n \in Nat
  PROVE  /\ [x EXCEPT !.bytes = n] \in Thing /\ [x EXCEPT !.bytes = n].kind = x.kind
         /\ [x EXCEPT !.bytes = n].by = x.by /\ [x EXCEPT !.bytes = n].bytes = n
BY DEF Thing

(* The tree that the job found. *)
LEMMA TreesFacts ==
  ASSUME NEW t \in Trees
  PROVE  /\ \A n \in Name : t[n] \in {Nothing, Dir, Old, OldLink}
         /\ BelowDirectories(t)
         /\ t = [n \in Name |-> t[n]]
BY DEF Trees

-------------------------------------------------------------------------------
(* Directories (ua_plat_mkdirs): missing ones are made, nothing else       *)
(* changes, and they hang together with those that were there.             *)
LEMMA MadeFacts ==
  ASSUME ExtractTyped, TreeOK, NEW P \in SUBSET Name, Passable(P),
         \A a \in P : Above(a) \subseteq P
  PROVE  /\ Made(P) \in [Name -> Thing]
         /\ \A n \in P : Made(P)[n] = Dir
         /\ \A n \in Name : Made(P)[n] = tree[n] \/ (tree[n] = Nothing /\ Made(P)[n] = Dir)
         /\ BelowDirectories(Made(P))
         /\ \A n \in Name : before[n] # Nothing /\ Made(P)[n] # before[n]
                              => overwrite /\ before[n] = Old /\ Made(P)[n].kind = "file"
<1>1. /\ tree \in [Name -> Thing] /\ Nothing \in Thing /\ Dir \in Thing /\ Nothing # Dir
      /\ Nothing.kind # "file" /\ Dir.kind # "file"
  BY ThingFacts DEF ExtractTyped
<1>2. Made(P) \in [Name -> Thing]
  BY <1>1 DEF Made
<1>3. /\ \A n \in P : Made(P)[n] = Dir
      /\ \A n \in Name : Made(P)[n] = tree[n] \/ (n \in P /\ tree[n] = Nothing /\ Made(P)[n] = Dir)
  BY <1>1 DEF Made, Passable
<1>. DEFINE t == Made(P)
<1>. HIDE DEF t
<1>4. ASSUME NEW n \in Name, t[n] # Nothing, NEW a \in Above(n) PROVE t[a] = Dir
  <2>1. a \in Name
    BY AboveFacts
  <2>2. CASE n \in P
    BY <1>3, <2>2 DEF t
  <2>3. CASE n \notin P
    <3>1. tree[n] # Nothing
      BY <1>3, <1>4, <2>3 DEF t
    <3>2. tree[a] = Dir
      BY <3>1 DEF TreeOK, BelowDirectories
    <3>. QED
      BY <1>1, <1>3, <2>1, <3>2 DEF t
  <2>. QED
    BY <2>2, <2>3
<1>5. BelowDirectories(t)
  BY <1>4 DEF BelowDirectories
<1>6. ASSUME NEW n \in Name, before[n] # Nothing, t[n] # before[n]
      PROVE  overwrite /\ before[n] = Old /\ t[n].kind = "file"
  <2>1. tree[n] # before[n] => tree[n].kind = "file"
    BY <1>6 DEF TreeOK, NothingLost
  <2>2. t[n] = tree[n]
    BY <1>1, <1>3, <1>6, <2>1 DEF t
  <2>. QED
    BY <1>6, <2>2 DEF TreeOK, NothingLost
<1>. QED
  BY <1>2, <1>3, <1>5, <1>6 DEF t

-------------------------------------------------------------------------------
(* Progress reports (maybe_progress): a report is made when the percentage *)
(* has passed the next step, and moves the mark up by a step or more.      *)
LEMMA PercentFacts ==
  ASSUME NEW r, r.bytes_total \in Nat, r.bytes_done \in Nat, r.entries_total \in Nat,
         r.entries_done \in Nat
  PROVE  Percent(r) \in 0..100
<1>1. \A m, n \in Nat : n > 0 => (m * 100) \div n \in Nat
  OBVIOUS
<1>2. /\ r.bytes_total > 0 => (r.bytes_done * 100) \div r.bytes_total \in Nat
      /\ r.entries_total > 0 => (r.entries_done * 100) \div r.entries_total \in Nat
  BY <1>1
<1>. DEFINE pct == IF r.bytes_total > 0 THEN (r.bytes_done * 100) \div r.bytes_total
                   ELSE IF r.entries_total > 0 THEN (r.entries_done * 100) \div r.entries_total
                   ELSE 0
<1>3. pct \in Nat
  BY <1>2
<1>4. Percent(r) = IF pct > 100 THEN 100 ELSE pct
  BY DEF Percent
<1>. HIDE DEF pct
<1>. QED
  BY <1>3, <1>4

(* The mark is a multiple of the step, so a report adds one step at least. *)
LEMMA StepRounds ==
  ASSUME NEW step \in 1..100, NEW pct \in 0..100, NEW steps \in Nat, NEW made \in Nat,
         made <= steps, pct >= steps * step + step
  PROVE  /\ pct - (pct % step) \in 0..100
         /\ \E more \in Nat : pct - (pct % step) = more * step /\ made + 1 <= more
<1>. DEFINE q == pct \div step
<1>1. q \in Nat /\ pct % step \in 0..(step - 1) /\ pct = q * step + (pct % step)
  OBVIOUS
<1>. HIDE DEF q
<1>2. pct - (pct % step) = q * step /\ q * step \in Nat /\ q * step <= pct
  BY <1>1
<1>3. steps + 1 <= q
  <2>. SUFFICES ASSUME q <= steps PROVE FALSE
    BY <1>1
  <2>1. q * step <= steps * step
    BY <1>1
  <2>. QED
    BY <1>1, <2>1
<1>4. pct - (pct % step) \in 0..100
  BY <1>2
<1>5. made + 1 <= q
  BY <1>1, <1>3
<1>6. \E more \in Nat : pct - (pct % step) = more * step /\ made + 1 <= more
  BY <1>1, <1>2, <1>5, Zenon
<1>. QED
  BY <1>4, <1>6

(* Both taken together: what maybe_progress keeps. *)
LEMMA ProgressKeepsReports ==
  ASSUME ExtractTyped, ReportsOK, NEW r, r.bytes_total \in Nat, r.bytes_done \in Nat,
         r.entries_total \in Nat, r.entries_done \in Nat, MaybeProgress(r)
  PROVE  last_pct' \in 0..100 /\ calls' \in Nat /\ ReportsOK'
<1>1. CASE IsStep(r)
  <2>1. /\ progress_percent_step \in 1..100 /\ Percent(r) \in 0..100 /\ calls \in Nat
        /\ Percent(r) >= last_pct + progress_percent_step
    <3>1. progress_percent_step \in 1..100 /\ Percent(r) >= last_pct + progress_percent_step
      BY <1>1, LimitAssumption DEF IsStep
    <3>2. Percent(r) \in 0..100
      BY PercentFacts
    <3>. QED
      BY <3>1, <3>2 DEF ExtractTyped
  <2>2. PICK steps \in Nat : last_pct = steps * progress_percent_step /\ calls <= steps
    BY DEF ReportsOK
  <2>3. /\ last_pct' = Percent(r) - (Percent(r) % progress_percent_step)
        /\ calls' = calls + 1
    BY <1>1 DEF MaybeProgress
  <2>4. /\ last_pct' \in 0..100
        /\ \E more \in Nat : last_pct' = more * progress_percent_step /\ calls' <= more
    <3>1. Percent(r) >= steps * progress_percent_step + progress_percent_step
      BY <2>1, <2>2
    <3>. QED
      BY <2>1, <2>2, <2>3, <3>1, StepRounds
  <2>5. ReportsOK'
    BY <2>4, Zenon DEF ReportsOK
  <2>. QED
    BY <2>1, <2>3, <2>4, <2>5
<1>2. CASE ~IsStep(r)
  BY <1>2 DEF MaybeProgress, outputVars, ReportsOK, ExtractTyped
<1>. QED
  BY <1>1, <1>2

-------------------------------------------------------------------------------
(* A tally grows by the next weight. *)
LEMMA TallyGrows ==
  ASSUME NEW n \in Nat \ {0}, NEW w, NEW f, IsTally(f, w, n - 1), w[n] \in Nat
  PROVE  \E g : IsTally(g, w, n) /\ g[n] = f[n - 1] + w[n]
<1>. DEFINE g == [i \in 0..n |-> IF i = n THEN f[n - 1] + w[n] ELSE f[i]]
<1>1. f \in [0..(n - 1) -> Nat] /\ f[0] = 0 /\ \A i \in 1..(n - 1) : f[i] = f[i - 1] + w[i]
  BY DEF IsTally
<1>2. g \in [0..n -> Nat] /\ g[n] = f[n - 1] + w[n]
  BY <1>1
<1>3. \A i \in 0..(n - 1) : g[i] = f[i]
  OBVIOUS
<1>. HIDE DEF g
<1>4. \A i \in 1..n : g[i] = g[i - 1] + w[i]
  <2>. SUFFICES ASSUME NEW i \in 1..n PROVE g[i] = g[i - 1] + w[i]
    OBVIOUS
  <2>1. CASE i = n
    BY <1>2, <1>3, <2>1
  <2>2. CASE i # n
    <3>1. i \in 1..(n - 1) /\ i \in 0..(n - 1) /\ i - 1 \in 0..(n - 1)
      BY <2>2
    <3>. QED
      BY <1>1, <1>3, <3>1
  <2>. QED
    BY <2>1, <2>2
<1>5. g[0] = 0
  BY <1>1, <1>3
<1>. QED
  BY <1>2, <1>4, <1>5 DEF IsTally

(* The tally of a walk goes by the entries. *)
LEMMA TallyFacts ==
  ASSUME NEW n \in Nat, NEW w, NEW f, IsTally(f, w, n)
  PROVE  /\ \A i \in 0..n : f[i] \in Nat
         /\ \A i \in 1..n : f[i] = f[i - 1] + w[i]
BY DEF IsTally

-------------------------------------------------------------------------------
(* The steps. *)

(* An entry passes the preflight, and is counted. *)
LEMMA ScanKeepsInvariant ==
  ASSUME ExtractInv, ScanEntry
  PROVE  ExtractInv'
<1>. DEFINE e == entries[at]
            n == Len(entries)
<1>1. /\ pc = "scan" /\ pc' = pc /\ at <= n /\ at' = at + 1 /\ result' = result /\ base' = base
      /\ entries' = entries /\ free' = free /\ overwrite' = overwrite /\ before' = before
      /\ tree' = tree /\ last_pct' = last_pct /\ calls' = calls
      /\ rep' = Counted(e) /\ Acceptable(e)
  BY DEF ScanEntry, Unwritten, jobVars, outputVars
<1>2. n \in Nat /\ DOMAIN entries = 1..n /\ e \in Entry /\ at \in 1..n
  BY <1>1, ArchiveFacts DEF ExtractInv, ExtractTyped
<1>3. e.size \in Nat /\ (e.kind = "file" => e.size <= UINT64_MAX - rep.bytes_total) /\ Passed(at)
  BY <1>1, <1>2, EntryFacts DEF Acceptable, Passed
<1>. HIDE DEF n
<1>4. /\ rep' \in Report
      /\ rep'.entries_total = rep.entries_total + 1
      /\ rep'.bytes_total = rep.bytes_total + (IF e.kind = "file" THEN e.size ELSE 0)
      /\ rep'.files_expected = rep.files_expected + (IF e.kind = "file" THEN 1 ELSE 0)
      /\ rep'.entries_done = rep.entries_done /\ rep'.files_written = rep.files_written
      /\ rep'.bytes_done = rep.bytes_done
  <2>. DEFINE total == IF e.kind = "file" THEN rep.bytes_total + e.size ELSE rep.bytes_total
              count == IF e.kind = "file" THEN rep.files_expected + 1 ELSE rep.files_expected
  <2>1. rep \in Report
    BY DEF ExtractInv, ExtractTyped
  <2>2. /\ rep.bytes_total \in 0..UINT64_MAX /\ rep.files_expected \in Nat
        /\ rep.entries_total + 1 \in Nat /\ UINT64_MAX \in Nat
    BY <2>1, LimitAssumption DEF Report
  <2>3. total \in 0..UINT64_MAX /\ count \in Nat
    BY <1>3, <2>2
  <2>4. rep' = [rep EXCEPT !.entries_total = rep.entries_total + 1, !.bytes_total = total,
                           !.files_expected = count]
    BY <1>1 DEF Counted
  <2>5. /\ total = rep.bytes_total + (IF e.kind = "file" THEN e.size ELSE 0)
        /\ count = rep.files_expected + (IF e.kind = "file" THEN 1 ELSE 0)
    BY <2>2
  <2>. HIDE DEF total, count
  <2>6. /\ rep' \in Report
        /\ rep'.entries_total = rep.entries_total + 1 /\ rep'.bytes_total = total
        /\ rep'.files_expected = count /\ rep'.entries_done = rep.entries_done
        /\ rep'.files_written = rep.files_written /\ rep'.bytes_done = rep.bytes_done
    BY <2>1, <2>2, <2>3, <2>4 DEF Report
  <2>. QED
    BY <2>5, <2>6
<1>5. ExtractTyped'
  BY <1>1, <1>2, <1>4 DEF ExtractInv, ExtractTyped, Thing, n
<1>6. result = "none" /\ ~Extracting /\ ~Extracting' /\ ~InFile /\ ~InFile'
  BY <1>1 DEF ExtractInv, WalkOK, Extracting, InFile
<1>7. WalkOK'
  <2>1. \A i \in 1..at : Passed(i)
    BY <1>1, <1>2, <1>3 DEF ExtractInv, WalkOK
  <2>. QED
    BY <1>1, <1>2, <1>6, <2>1 DEF ExtractInv, WalkOK, Passed, LinkTarget
<1>8. TreeOK' /\ FileInHand' /\ FilesOK' /\ ReportsOK'
  BY <1>1, <1>6 DEF ExtractInv, TreeOK, BelowDirectories, NothingLost, FileInHand, FilesOK, ReportsOK
<1>9. CountersOK'
  <2>1. /\ Walked = at - 1 /\ Walked' = at /\ at \in Nat \ {0}
        /\ IsFile' = IsFile /\ Size' = Size
        /\ IsFile[at] = (IF e.kind = "file" THEN 1 ELSE 0) /\ IsFile[at] \in Nat
        /\ Size[at] = (IF e.kind = "file" THEN e.size ELSE 0) /\ Size[at] \in Nat
    BY <1>1, <1>2, <1>3 DEF Walked, IsFile, Size
  <2>2. /\ rep.entries_total = at - 1 /\ rep.entries_done = 0 /\ rep.files_written = 0
        /\ rep.bytes_done = 0
        /\ \E files : IsTally(files, IsFile, at - 1) /\ rep.files_expected = files[at - 1]
        /\ \E bytes : IsTally(bytes, Size, at - 1) /\ rep.bytes_total = bytes[at - 1]
    BY <1>1, <1>6, <2>1 DEF ExtractInv, CountersOK
  <2>3. \E files : IsTally(files, IsFile, at) /\ rep'.files_expected = files[at]
    <3>1. PICK files : IsTally(files, IsFile, at - 1) /\ rep.files_expected = files[at - 1]
      BY <2>2
    <3>2. \E g : IsTally(g, IsFile, at) /\ g[at] = files[at - 1] + IsFile[at]
      BY <2>1, <3>1, TallyGrows
    <3>. QED
      BY <1>4, <2>1, <3>1, <3>2
  <2>4. \E bytes : IsTally(bytes, Size, at) /\ rep'.bytes_total = bytes[at]
    <3>1. PICK bytes : IsTally(bytes, Size, at - 1) /\ rep.bytes_total = bytes[at - 1]
      BY <2>2
    <3>2. \E g : IsTally(g, Size, at) /\ g[at] = bytes[at - 1] + Size[at]
      BY <2>1, <3>1, TallyGrows
    <3>. QED
      BY <1>4, <2>1, <3>1, <3>2
  <2>5. /\ rep'.entries_total = Walked'
        /\ \E files : IsTally(files, IsFile', Walked') /\ rep'.files_expected = files[Walked']
        /\ \E bytes : IsTally(bytes, Size', Walked') /\ rep'.bytes_total = bytes[Walked']
    BY <1>4, <2>1, <2>2, <2>3, <2>4
  <2>. QED
    BY <1>4, <1>6, <2>2, <2>5 DEF CountersOK
<1>. QED
  BY <1>5, <1>7, <1>8, <1>9 DEF ExtractInv

(* The rest of the preflight, and making the destination. *)
LEMMA CheckKeepsInvariant ==
  ASSUME ExtractInv, ScanEnds \/ CheckPasses
  PROVE  ExtractInv'
<1>1. /\ rep' = rep /\ result' = result /\ base' = base
      /\ entries' = entries /\ free' = free /\ overwrite' = overwrite /\ before' = before
      /\ tree' = tree /\ last_pct' = last_pct /\ calls' = calls /\ at' = at
      /\ \/ pc = "scan" /\ pc' = "check" /\ at > Len(entries)
         \/ pc = "check" /\ pc' = "dest"
  BY DEF ScanEnds, CheckPasses, Unwritten, jobVars, outputVars
<1>2. Len(entries) \in Nat /\ DOMAIN entries = 1..Len(entries) /\ at \in 1..(Len(entries) + 1)
  BY ArchiveFacts DEF ExtractInv, ExtractTyped
<1>3. ~Extracting /\ ~Extracting' /\ ~InFile /\ ~InFile' /\ result = "none"
  BY <1>1 DEF ExtractInv, WalkOK, Extracting, InFile
<1>4. ExtractTyped'
  BY <1>1 DEF ExtractInv, ExtractTyped, Thing, Report
<1>5. WalkOK'
  <2>1. \A i \in DOMAIN entries : Passed(i)
    BY <1>1, <1>2 DEF ExtractInv, WalkOK
  <2>. QED
    BY <1>1, <1>3, <2>1 DEF ExtractInv, WalkOK, Passed, LinkTarget
<1>6. TreeOK' /\ FileInHand' /\ FilesOK' /\ ReportsOK'
  BY <1>1, <1>3 DEF ExtractInv, TreeOK, BelowDirectories, NothingLost, FileInHand, FilesOK, ReportsOK
<1>7. CountersOK'
  <2>1. Walked' = Walked /\ IsFile' = IsFile /\ Size' = Size
    BY <1>1, <1>2 DEF Walked, IsFile, Size
  <2>. QED
    BY <1>1, <1>3, <2>1 DEF ExtractInv, CountersOK
<1>. QED
  BY <1>4, <1>5, <1>6, <1>7 DEF ExtractInv

(* The destination itself is the first thing that is made. *)
LEMMA MakeDestKeepsInvariant ==
  ASSUME ExtractInv, MakeDest
  PROVE  ExtractInv'
<1>1. /\ rep' = rep /\ result' = result /\ base' = base
      /\ entries' = entries /\ free' = free /\ overwrite' = overwrite /\ before' = before
      /\ last_pct' = last_pct /\ calls' = calls /\ at' = 1
      /\ pc = "dest" /\ pc' = "next" /\ Passable({Dest}) /\ tree' = Made({Dest})
  BY DEF MakeDest, jobVars, outputVars
<1>2. Len(entries) \in Nat /\ DOMAIN entries = 1..Len(entries)
  BY ArchiveFacts DEF ExtractInv, ExtractTyped
<1>3. ~Extracting /\ Extracting' /\ ~InFile /\ ~InFile' /\ result = "none"
  BY <1>1 DEF ExtractInv, WalkOK, Extracting, InFile
<1>4. /\ tree' \in [Name -> Thing] /\ tree'[Dest] = Dir /\ BelowDirectories(tree')
      /\ \A n \in Name : before[n] # Nothing /\ tree'[n] # before[n]
                           => overwrite /\ before[n] = Old /\ tree'[n].kind = "file"
  <2>1. {Dest} \in SUBSET Name /\ \A a \in {Dest} : Above(a) \subseteq {Dest}
    BY ExtractAssumption, AboveFacts DEF Dest
  <2>. QED
    BY <1>1, <2>1, MadeFacts DEF ExtractInv
<1>5. ExtractTyped'
  <2>1. Thing' = Thing /\ 1 \in 1..(Len(entries) + 1)
    BY <1>1, <1>2 DEF Thing
  <2>. QED
    BY <1>1, <1>4, <2>1 DEF ExtractInv, ExtractTyped, Report
<1>6. WalkOK'
  BY <1>1, <1>2, <1>3 DEF ExtractInv, WalkOK, Passed, LinkTarget
<1>7. TreeOK'
  BY <1>1, <1>4 DEF TreeOK, BelowDirectories, NothingLost
<1>8. FileInHand' /\ FilesOK' /\ ReportsOK'
  BY <1>1, <1>3 DEF ExtractInv, FileInHand, FilesOK, ReportsOK
<1>9. CountersOK'
  <2>1. Walked' = Walked /\ IsFile' = IsFile /\ Size' = Size /\ at' - 1 = 0
    BY <1>1 DEF Walked, IsFile, Size
  <2>2. /\ rep.entries_total = Walked /\ rep.entries_done = 0
        /\ \E files : IsTally(files, IsFile, Walked) /\ rep.files_expected = files[Walked]
                      /\ rep.files_written = 0
        /\ \E bytes : IsTally(bytes, Size, Walked) /\ rep.bytes_total = bytes[Walked]
                      /\ rep.bytes_done = 0
    BY <1>1, <1>3 DEF ExtractInv, CountersOK
  <2>3. \A f, w : IsTally(f, w, Walked) => f[0] = 0
    BY DEF IsTally
  <2>. QED
    BY <1>1, <1>3, <2>1, <2>2, <2>3 DEF CountersOK
<1>. QED
  BY <1>5, <1>6, <1>7, <1>8, <1>9 DEF ExtractInv

(* Counting an entry as done keeps the counters right, if its file and its *)
(* bytes, when it is a file, are counted with it.                          *)
LEMMA DoneKeepsCounters ==
  ASSUME ExtractInv, pc \in {"next", "parallel", "file"}, at \in 1..Len(entries),
         pc' = "next", at' = at + 1, entries' = entries,
         rep'.entries_total = rep.entries_total, rep'.bytes_total = rep.bytes_total,
         rep'.files_expected = rep.files_expected, rep'.entries_done = rep.entries_done + 1,
         rep'.files_written = rep.files_written + IsFile[at],
         rep'.bytes_done = (IF InFile THEN base ELSE rep.bytes_done) + Size[at]
  PROVE  CountersOK'
<1>1. /\ Len(entries) \in Nat /\ DOMAIN entries = 1..Len(entries) /\ at - 1 \in Nat
      /\ at' - 1 = at /\ at - 1 \in 0..Len(entries) /\ (at - 1) + 1 = at
  BY ArchiveFacts DEF ExtractInv, ExtractTyped
<1>2. /\ Extracting /\ Extracting' /\ ~InFile' /\ Walked = Len(entries) /\ Walked' = Len(entries)
      /\ IsFile' = IsFile /\ Size' = Size
  BY DEF Extracting, InFile, Walked, IsFile, Size
<1>3. /\ rep.entries_total = Walked /\ rep.entries_done = at - 1
      /\ \E files : /\ IsTally(files, IsFile, Walked)
                    /\ rep.files_expected = files[Walked]
                    /\ rep.files_written = files[at - 1]
      /\ \E bytes : /\ IsTally(bytes, Size, Walked)
                    /\ rep.bytes_total = bytes[Walked]
                    /\ (IF InFile THEN base ELSE rep.bytes_done) = bytes[at - 1]
  BY <1>2 DEF ExtractInv, CountersOK
<1>4. \E files : /\ IsTally(files, IsFile, Walked)
                 /\ rep'.files_expected = files[Walked]
                 /\ rep'.files_written = files[at]
  <2>1. PICK files : /\ IsTally(files, IsFile, Walked)
                     /\ rep.files_expected = files[Walked]
                     /\ rep.files_written = files[at - 1]
    BY <1>3
  <2>2. files[at] = files[at - 1] + IsFile[at]
    BY <1>1, <1>2, <2>1, TallyFacts
  <2>. QED
    BY <2>1, <2>2
<1>5. \E bytes : /\ IsTally(bytes, Size, Walked)
                 /\ rep'.bytes_total = bytes[Walked]
                 /\ rep'.bytes_done = bytes[at]
  <2>1. PICK bytes : /\ IsTally(bytes, Size, Walked)
                     /\ rep.bytes_total = bytes[Walked]
                     /\ (IF InFile THEN base ELSE rep.bytes_done) = bytes[at - 1]
    BY <1>3
  <2>2. bytes[at] = bytes[at - 1] + Size[at]
    BY <1>1, <1>2, <2>1, TallyFacts
  <2>. QED
    BY <2>1, <2>2
<1>6. /\ rep'.entries_total = Walked' /\ rep'.entries_done = at' - 1
      /\ \E files : /\ IsTally(files, IsFile', Walked')
                    /\ rep'.files_expected = files[Walked']
                    /\ rep'.files_written = files[at' - 1]
      /\ \E bytes : /\ IsTally(bytes, Size', Walked')
                    /\ rep'.bytes_total = bytes[Walked']
                    /\ rep'.bytes_done = bytes[at' - 1]
  BY <1>1, <1>2, <1>3, <1>4, <1>5
<1>. QED
  BY <1>2, <1>6 DEF CountersOK

(* An entry that is no file: whatever it makes is made where nothing was.  *)
LEMMA PassedOverKeepsInvariant ==
  ASSUME ExtractInv, IsNext({"dir", "link", "other"}), EntryDone(rep),
         UNCHANGED jobVars, UNCHANGED <<pc, base, result>>,
         tree' \in [Name -> Thing], BelowDirectories(tree'),
         \A n \in Name : tree'[n] = tree[n] \/ tree[n] = Nothing
  PROVE  ExtractInv'
<1>. DEFINE e == entries[at]
            n == Len(entries)
<1>1. /\ pc = "next" /\ pc' = "next" /\ at <= n /\ at' = at + 1 /\ result' = result
      /\ base' = base /\ entries' = entries /\ free' = free /\ overwrite' = overwrite
      /\ before' = before /\ e.kind \in {"dir", "link", "other"}
      /\ rep' = [rep EXCEPT !.entries_done = rep.entries_done + 1] /\ MaybeProgress(rep')
  BY DEF IsNext, EntryDone, jobVars
<1>2. n \in Nat /\ DOMAIN entries = 1..n /\ at \in 1..n /\ at' \in 1..(n + 1)
  BY <1>1, ArchiveFacts DEF ExtractInv, ExtractTyped
<1>3. Extracting /\ Extracting' /\ ~InFile /\ ~InFile' /\ result = "none"
  BY <1>1 DEF ExtractInv, WalkOK, Extracting, InFile
<1>4. /\ rep' \in Report /\ rep'.entries_total = rep.entries_total
      /\ rep'.bytes_total = rep.bytes_total /\ rep'.files_expected = rep.files_expected
      /\ rep'.files_written = rep.files_written /\ rep'.bytes_done = rep.bytes_done
      /\ rep'.entries_done = rep.entries_done + 1
  <2>1. rep \in Report
    BY DEF ExtractInv, ExtractTyped
  <2>2. rep.entries_done + 1 \in Nat
    BY <2>1 DEF Report
  <2>. QED
    BY <1>1, <2>1, <2>2 DEF Report
<1>5. last_pct' \in 0..100 /\ calls' \in Nat /\ ReportsOK'
  <2>1. /\ rep'.bytes_total \in Nat /\ rep'.bytes_done \in Nat /\ rep'.entries_total \in Nat
        /\ rep'.entries_done \in Nat
    BY <1>4, LimitAssumption DEF Report
  <2>. QED
    BY <1>1, <2>1, ProgressKeepsReports DEF ExtractInv
<1>6. ExtractTyped'
  BY <1>1, <1>2, <1>4, <1>5 DEF ExtractInv, ExtractTyped, Thing, Report
<1>7. WalkOK'
  BY <1>1, <1>2, <1>3 DEF ExtractInv, WalkOK, Passed, LinkTarget
<1>8. /\ tree[Dest] = Dir /\ Dest \in Name /\ Dir # Nothing /\ Nothing.kind # "file"
      /\ \A i \in 1..n : PlaceOf(entries[i]) \in Name
  <2>1. \A i \in 1..n : Passed(i) /\ entries[i] \in Entry
    BY <1>2, <1>3, ArchiveFacts DEF ExtractInv, ExtractTyped, WalkOK
  <2>2. \A i \in 1..n : PlaceOf(entries[i]) \in Name
    BY <2>1, EntryFacts DEF Passed
  <2>. QED
    BY <1>3, <2>2, ThingFacts, ExtractAssumption
    DEF ExtractInv, TreeOK, Dest, ExtractTyped, Nothing, Dir
<1>9. TreeOK'
  <2>1. tree'[Dest] = Dir
    BY <1>8
  <2>2. ASSUME NEW m \in Name, before[m] # Nothing, tree'[m] # before[m]
        PROVE  overwrite /\ before[m] = Old /\ tree'[m].kind = "file"
    <3>1. tree[m] # before[m] => overwrite /\ before[m] = Old /\ tree[m].kind = "file"
      BY <2>2 DEF ExtractInv, TreeOK, NothingLost
    <3>. QED
      BY <1>8, <2>2, <3>1
  <2>. QED
    BY <1>1, <2>1, <2>2 DEF TreeOK, BelowDirectories, NothingLost
<1>10. FilesOK'
  <2>. SUFFICES ASSUME NEW i \in 1..at, entries[i].kind = "file" PROVE InPlace(i)'
    BY <1>1, <1>2 DEF FilesOK
  <2>1. i \in 1..(at - 1) /\ i \in 1..n
    BY <1>1, <1>2
  <2>2. InPlace(i)
    BY <1>3, <2>1 DEF ExtractInv, FilesOK
  <2>3. tree'[PlaceOf(entries[i])] = tree[PlaceOf(entries[i])]
    BY <1>8, <2>1, <2>2 DEF InPlace
  <2>4. tree[PlaceOf(entries[i])].by \in Nat
    BY <1>8, <2>1 DEF ExtractInv, ExtractTyped, Thing
  <2>. QED
    BY <1>1, <1>2, <1>3, <2>2, <2>3, <2>4 DEF InPlace, PlaceOf
<1>11. CountersOK'
  <2>1. IsFile[at] = 0 /\ Size[at] = 0
    BY <1>1, <1>2 DEF IsFile, Size
  <2>2. rep.files_written \in Nat /\ rep.bytes_done \in Nat
    BY DEF ExtractInv, ExtractTyped, Report
  <2>. QED
    BY <1>1, <1>2, <1>3, <1>4, <2>1, <2>2, DoneKeepsCounters
<1>12. FileInHand'
  BY <1>3 DEF FileInHand
<1>. QED
  BY <1>5, <1>6, <1>7, <1>9, <1>10, <1>11, <1>12 DEF ExtractInv

(* The place of the entry in hand, once all entries have been looked at. *)
LEMMA HereFacts ==
  ASSUME ExtractInv, pc \in {"next", "parallel", "file"}, at <= Len(entries)
  PROVE  /\ at \in 1..Len(entries) /\ entries[at] \in Entry /\ Here \in Name
         /\ Above(Here) \in SUBSET Name /\ Here \notin Above(Here)
         /\ \A a \in Above(Here) : Above(a) \subseteq Above(Here)
         /\ entries[at].kind = "link" => Above(Here) = {Dest}
         /\ \A i \in 1..Len(entries) : PlaceOf(entries[i]) \in Name
<1>1. /\ at \in 1..Len(entries) /\ DOMAIN entries = 1..Len(entries)
      /\ \A i \in 1..Len(entries) : entries[i] \in Entry
  BY ArchiveFacts DEF ExtractInv, ExtractTyped
<1>2. \A i \in 1..Len(entries) : Passed(i)
  BY <1>1 DEF ExtractInv, WalkOK, Extracting
<1>3. \A i \in 1..Len(entries) : PlaceOf(entries[i]) \in Name
  BY <1>1, <1>2, EntryFacts DEF Passed
<1>4. Here \in Name /\ (entries[at].kind = "link" => Len(Here) = 1)
  BY <1>1, <1>3, EntryFacts DEF Here
<1>. QED
  BY <1>1, <1>3, <1>4, AboveFacts

(* A directory, with those above it; an entry that is skipped; a link,     *)
(* which is only made where nothing is.                                    *)
LEMMA EntryKeepsInvariant ==
  ASSUME ExtractInv, ExtractDir \/ SkipEntry \/ MakeLink
  PROVE  ExtractInv'
<1>1. /\ IsNext({"dir", "link", "other"}) /\ EntryDone(rep) /\ UNCHANGED jobVars
      /\ UNCHANGED <<pc, base, result>>
  BY DEF ExtractDir, SkipEntry, MakeLink, IsNext
<1>2. /\ at \in 1..Len(entries) /\ Here \in Name /\ Above(Here) \in SUBSET Name
      /\ Here \notin Above(Here)
      /\ \A a \in Above(Here) : Above(a) \subseteq Above(Here)
      /\ entries[at].kind = "link" => Above(Here) = {Dest}
  BY <1>1, HereFacts DEF IsNext
<1>3. /\ tree' \in [Name -> Thing] /\ BelowDirectories(tree')
      /\ \A n \in Name : tree'[n] = tree[n] \/ tree[n] = Nothing
  <2>1. CASE ExtractDir
    <3>. DEFINE P == Above(Here) \cup {Here}
    <3>1. Passable(P) /\ tree' = Made(P)
      BY <2>1 DEF ExtractDir
    <3>2. P \in SUBSET Name /\ \A a \in P : Above(a) \subseteq P
      BY <1>2
    <3>. HIDE DEF P
    <3>. QED
      BY <3>1, <3>2, MadeFacts DEF ExtractInv
  <2>2. CASE SkipEntry
    BY <2>2 DEF SkipEntry, ExtractInv, ExtractTyped, TreeOK
  <2>3. CASE MakeLink
    <3>1. /\ tree' = [tree EXCEPT ![Here] = OurLink(at)] /\ tree[Here] = Nothing
          /\ entries[at].kind = "link" /\ pc = "next"
      BY <2>3 DEF MakeLink, IsNext
    <3>2. /\ tree \in [Name -> Thing] /\ OurLink(at) \in Thing /\ tree[Dest] = Dir
          /\ BelowDirectories(tree) /\ Dir # Nothing
      BY <1>2, <3>1, ThingFacts DEF ExtractInv, ExtractTyped, TreeOK, Extracting, Dir, Nothing
    <3>3. /\ tree' \in [Name -> Thing]
          /\ \A n \in Name : n # Here => tree'[n] = tree[n]
      BY <1>2, <3>1, <3>2
    <3>4. ASSUME NEW n \in Name, tree'[n] # Nothing, NEW a \in Above(n) PROVE tree'[a] = Dir
      <4>1. tree[a] = Dir
        <5>1. CASE n = Here
          BY <1>2, <3>1, <3>2, <3>4, <5>1
        <5>2. CASE n # Here
          BY <3>2, <3>3, <3>4, <5>2 DEF BelowDirectories
        <5>. QED
          BY <5>1, <5>2
      <4>2. a \in Name /\ a # Here
        BY <3>1, <3>2, <3>4, <4>1, AboveFacts
      <4>. QED
        BY <3>3, <4>1, <4>2
    <3>5. BelowDirectories(tree')
      BY <3>4 DEF BelowDirectories
    <3>. QED
      BY <3>1, <3>3, <3>5
  <2>. QED
    BY <2>1, <2>2, <2>3
<1>. QED
  BY <1>1, <1>3, PassedOverKeepsInvariant

(* A file is opened where nothing is, or in place of a file that may be    *)
(* overwritten, or that an earlier entry of the archive has made.          *)
LEMMA BeginKeepsInvariant ==
  ASSUME ExtractInv, BeginFile
  PROVE  ExtractInv'
<1>. DEFINE n == Here
            table == Made(Above(n))
<1>1. /\ pc = "next" /\ pc' \in {"parallel", "file"} /\ at <= Len(entries) /\ at' = at
      /\ entries[at].kind = "file" /\ result' = result /\ rep' = rep
      /\ entries' = entries /\ free' = free /\ overwrite' = overwrite /\ before' = before
      /\ last_pct' = last_pct /\ calls' = calls /\ base' = rep.bytes_done
      /\ Passable(Above(n))
      /\ tree[n].kind = "none" \/ (overwrite /\ tree[n].kind = "file")
      /\ tree' = [table EXCEPT ![n] = Ours(at, 0)]
  BY DEF BeginFile, IsNext, jobVars, outputVars
<1>2. /\ at \in 1..Len(entries) /\ entries[at] \in Entry /\ n \in Name
      /\ Above(n) \in SUBSET Name /\ n \notin Above(n)
      /\ \A a \in Above(n) : Above(a) \subseteq Above(n)
      /\ \A i \in 1..Len(entries) : PlaceOf(entries[i]) \in Name
  BY <1>1, HereFacts
<1>3. Extracting /\ Extracting' /\ ~InFile /\ InFile' /\ result = "none"
  BY <1>1 DEF ExtractInv, WalkOK, Extracting, InFile
<1>4. /\ table \in [Name -> Thing] /\ BelowDirectories(table)
      /\ \A a \in Above(n) : table[a] = Dir
      /\ \A m \in Name : table[m] = tree[m] \/ (tree[m] = Nothing /\ table[m] = Dir)
      /\ \A m \in Name : before[m] # Nothing /\ table[m] # before[m]
                           => overwrite /\ before[m] = Old /\ table[m].kind = "file"
  BY <1>1, <1>2, MadeFacts DEF ExtractInv
<1>5. /\ Ours(at, 0) \in Thing /\ Ours(at, 0).kind = "file" /\ Ours(at, 0).by = at
      /\ Ours(at, 0).bytes = 0 /\ Dir.kind = "dir" /\ Nothing.kind = "none"
      /\ OldLink.kind = "link" /\ tree[Dest] = Dir /\ Dest \in Name
      /\ tree \in [Name -> Thing]
  BY <1>2, <1>3, ThingFacts, ExtractAssumption DEF ExtractInv, ExtractTyped, TreeOK, Dest
<1>6. n # Dest
  BY <1>1, <1>5
<1>. DEFINE now == tree'
<1>7. /\ tree' \in [Name -> Thing] /\ tree'[n] = Ours(at, 0)
      /\ \A m \in Name : m # n => tree'[m] = table[m]
  BY <1>1, <1>2, <1>4, <1>5
<1>. HIDE DEF n, table
<1>8. BelowDirectories(tree')
  <2>. SUFFICES ASSUME NEW m \in Name, tree'[m] # Nothing, NEW a \in Above(m)
                PROVE  tree'[a] = Dir
    BY DEF BelowDirectories
  <2>1. a \in Name
    BY AboveFacts
  <2>2. table[a] = Dir
    <3>1. CASE m = n
      BY <1>4, <3>1
    <3>2. CASE m # n
      BY <1>4, <1>7, <3>2 DEF BelowDirectories
    <3>. QED
      BY <3>1, <3>2
  <2>3. a # n
    <3>1. CASE m = n
      BY <1>2, <3>1
    <3>2. CASE m # n
      <4>. SUFFICES ASSUME a = n PROVE FALSE
        OBVIOUS
      <4>1. table[n] = Dir /\ tree[n] = Nothing
        BY <1>1, <1>2, <1>4, <1>5, <2>2
      <4>2. table[n] = tree[n]
        BY <1>2 DEF table, Made
      <4>. QED
        BY <1>5, <4>1, <4>2
    <3>. QED
      BY <3>1, <3>2
  <2>. QED
    BY <1>7, <2>1, <2>2, <2>3
<1>9. NothingLost'
  <2>. SUFFICES ASSUME NEW m \in Name, before[m] # Nothing, tree'[m] # before[m]
                PROVE  overwrite /\ before[m] = Old /\ tree'[m].kind = "file"
    BY <1>1 DEF NothingLost
  <2>1. CASE m # n
    BY <1>4, <1>7, <2>1
  <2>2. CASE m = n
    <3>1. before[n] \in {Nothing, Dir, Old, OldLink}
      BY <1>2, TreesFacts DEF ExtractInv, ExtractTyped
    <3>2. tree[n] # before[n] => overwrite /\ before[n] = Old /\ tree[n].kind = "file"
      BY <1>2, <2>2 DEF ExtractInv, TreeOK, NothingLost
    <3>3. tree[n] = before[n] => overwrite /\ before[n] = Old
      <4>. SUFFICES ASSUME tree[n] = before[n] PROVE overwrite /\ before[n] = Old
        OBVIOUS
      <4>1. before[n] # Nothing /\ before[n].kind = tree[n].kind
        BY <2>2
      <4>2. before[n] \in {Dir, Old, OldLink} /\ Dir.kind = "dir" /\ OldLink.kind = "link"
            /\ Old.kind = "file"
        BY <3>1, <4>1 DEF Dir, OldLink, Old
      <4>3. tree[n].kind = "none" \/ (overwrite /\ tree[n].kind = "file")
        BY <1>1
      <4>. QED
        BY <4>1, <4>2, <4>3
    <3>. QED
      BY <1>5, <1>7, <2>2, <3>2, <3>3
  <2>. QED
    BY <2>1, <2>2
<1>10. TreeOK'
  <2>1. tree'[Dest] = Dir
    BY <1>4, <1>5, <1>6, <1>7
  <2>. QED
    BY <1>1, <1>8, <1>9, <2>1 DEF TreeOK, BelowDirectories
<1>11. ExtractTyped'
  <2>1. rep.bytes_done \in Nat /\ Thing' = Thing
    BY <1>1 DEF ExtractInv, ExtractTyped, Report, Thing
  <2>. QED
    BY <1>1, <1>7, <2>1 DEF ExtractInv, ExtractTyped, Report
<1>12. WalkOK'
  BY <1>1, <1>3 DEF ExtractInv, WalkOK, Passed, LinkTarget
<1>13. FileInHand'
  <2>1. Here' = n /\ entries[at].size \in Nat /\ rep.bytes_done \in Nat
    BY <1>1, <1>2, EntryFacts DEF Here, PlaceOf, n, ExtractInv, ExtractTyped, Report
  <2>. QED
    BY <1>1, <1>5, <1>7, <2>1 DEF FileInHand, File
<1>14. FilesOK'
  <2>. SUFFICES ASSUME NEW i \in 1..(at - 1), entries[i].kind = "file" PROVE InPlace(i)'
    BY <1>1 DEF FilesOK
  <2>. DEFINE m == PlaceOf(entries[i])
  <2>1. i \in 1..Len(entries) /\ i <= at /\ m \in Name
    BY <1>2
  <2>2. Here' = n /\ m' = m
    BY <1>1 DEF Here, PlaceOf, n
  <2>3. InPlace(i)
    BY <1>3, <2>1 DEF ExtractInv, FilesOK
  <2>4. CASE m = n
    BY <1>1, <1>2, <1>3, <1>5, <1>7, <2>1, <2>2, <2>4 DEF InPlace
  <2>5. CASE m # n
    <3>1. tree[m].kind = "file" /\ tree[m].by # at
      BY <1>3, <2>3 DEF InPlace
    <3>2. tree'[m] = tree[m]
      BY <1>4, <1>5, <1>7, <2>1, <2>5, <3>1
    <3>. QED
      BY <1>1, <2>2, <2>3, <3>1, <3>2 DEF InPlace
  <2>. QED
    BY <2>4, <2>5
<1>15. CountersOK'
  <2>1. Walked' = Walked /\ IsFile' = IsFile /\ Size' = Size
    BY <1>1 DEF Walked, IsFile, Size
  <2>. QED
    BY <1>1, <1>3, <2>1 DEF ExtractInv, CountersOK
<1>16. ReportsOK'
  BY <1>1 DEF ExtractInv, ReportsOK
<1>. QED
  BY <1>10, <1>11, <1>12, <1>13, <1>14, <1>15, <1>16 DEF ExtractInv

(* Whatever goes on inside the file in hand: it grows, is truncated, is    *)
(* reported on, alone or by several threads.                               *)
LEMMA InsideKeepsInvariant ==
  ASSUME ExtractInv, BeyondInv, WriteUnit \/ WorkersWrite \/ PollWorkers \/ StartOver
  PROVE  ExtractInv'
<1>. DEFINE n == Here
<1>1. /\ InFile /\ InFile' /\ at' = at /\ result' = result /\ base' = base
      /\ entries' = entries /\ free' = free /\ overwrite' = overwrite /\ before' = before
      /\ pc \in {"parallel", "file"} /\ pc' \in {"parallel", "file"}
  BY DEF WriteUnit, WorkersWrite, PollWorkers, StartOver, InFile, walkVars, jobVars
<1>2. /\ at \in 1..Len(entries) /\ entries[at] \in Entry /\ n \in Name
      /\ \A i \in 1..Len(entries) : PlaceOf(entries[i]) \in Name
  BY <1>1, HereFacts DEF ExtractInv, WalkOK
<1>3. /\ tree \in [Name -> Thing] /\ tree[n].kind = "file" /\ tree[n].by = at
      /\ tree[n].bytes \in Nat /\ tree[n].bytes <= entries[at].size /\ entries[at].size \in Nat
      /\ base \in Nat /\ base <= rep.bytes_done /\ rep \in Report /\ rep.bytes_done \in Nat
  <2>1. tree \in [Name -> Thing] /\ rep \in Report /\ base \in Nat
    BY DEF ExtractInv, ExtractTyped
  <2>2. tree[n] \in Thing /\ rep.bytes_done \in Nat
    BY <1>2, <2>1 DEF Report
  <2>3. tree[n].bytes \in Nat
    BY <2>2 DEF Thing
  <2>. QED
    BY <1>1, <1>2, <2>1, <2>2, <2>3, EntryFacts DEF ExtractInv, FileInHand, File
<1>4. /\ tree' \in [Name -> Thing]
      /\ \A m \in Name : m # n => tree'[m] = tree[m]
      /\ tree'[n].kind = "file" /\ tree'[n].by = at
      /\ tree'[n].bytes \in 0..entries[at].size
  <2>1. CASE tree' = tree
    BY <1>3, <2>1
  <2>2. ASSUME NEW size \in 0..entries[at].size, tree' = [tree EXCEPT ![n].bytes = size]
        PROVE  /\ tree' \in [Name -> Thing]
               /\ \A m \in Name : m # n => tree'[m] = tree[m]
               /\ tree'[n].kind = "file" /\ tree'[n].by = at
               /\ tree'[n].bytes \in 0..entries[at].size
    <3>1. tree[n] \in Thing /\ size \in Nat
      BY <1>2, <1>3, <2>2
    <3>2. tree' = [tree EXCEPT ![n] = [tree[n] EXCEPT !.bytes = size]]
      BY <2>2
    <3>3. /\ [tree[n] EXCEPT !.bytes = size] \in Thing
          /\ [tree[n] EXCEPT !.bytes = size].kind = tree[n].kind
          /\ [tree[n] EXCEPT !.bytes = size].by = tree[n].by
          /\ [tree[n] EXCEPT !.bytes = size].bytes = size
      BY <3>1, ResizedThing
    <3>. QED
      BY <1>2, <1>3, <3>2, <3>3
  <2>3. CASE Written /\ CanWrite
    <3>1. /\ tree' = [tree EXCEPT ![n].bytes = tree[n].bytes + 1]
          /\ tree[n].bytes < entries[at].size
      BY <2>3 DEF Written, CanWrite, File
    <3>2. tree[n].bytes + 1 \in 0..entries[at].size
      BY <1>3, <3>1
    <3>. QED
      BY <2>2, <3>1, <3>2
  <2>4. CASE StartOver
    <3>1. tree' = [tree EXCEPT ![n].bytes = 0] /\ 0 \in 0..entries[at].size
      BY <1>3, <2>4 DEF StartOver
    <3>. QED
      BY <2>2, <3>1
  <2>. QED
    BY <2>1, <2>3, <2>4 DEF WriteUnit, WorkersWrite, PollWorkers
<1>5. /\ rep' \in Report /\ base <= rep'.bytes_done
      /\ rep'.entries_total = rep.entries_total /\ rep'.bytes_total = rep.bytes_total
      /\ rep'.files_expected = rep.files_expected /\ rep'.entries_done = rep.entries_done
      /\ rep'.files_written = rep.files_written
      /\ MaybeProgress(rep') \/ UNCHANGED outputVars
  <2>1. ASSUME NEW done \in Nat, base <= done, rep' = [rep EXCEPT !.bytes_done = done]
        PROVE  /\ rep' \in Report /\ base <= rep'.bytes_done
               /\ rep'.entries_total = rep.entries_total /\ rep'.bytes_total = rep.bytes_total
               /\ rep'.files_expected = rep.files_expected
               /\ rep'.entries_done = rep.entries_done
               /\ rep'.files_written = rep.files_written
    BY <1>3, <2>1 DEF Report
  <2>2. CASE WriteUnit
    <3>1. /\ rep' = [rep EXCEPT !.bytes_done = base + (tree[n].bytes + 1)]
          /\ MaybeProgress(rep')
      BY <2>2 DEF WriteUnit, Reported, File
    <3>2. base + (tree[n].bytes + 1) \in Nat /\ base <= base + (tree[n].bytes + 1)
      BY <1>3
    <3>. QED
      BY <2>1, <3>1, <3>2
  <2>3. CASE WorkersWrite
    BY <1>3, <2>3 DEF WorkersWrite
  <2>4. CASE PollWorkers
    <3>1. PICK m \in (rep.bytes_done - base)..(tree[n].bytes + beyond) :
            rep' = [rep EXCEPT !.bytes_done = base + m] /\ MaybeProgress(rep')
      BY <2>4 DEF PollWorkers, Reported, File
    <3>2. base + m \in Nat /\ base <= base + m
      BY <1>3, <3>1 DEF BeyondInv
    <3>. QED
      BY <2>1, <3>1, <3>2
  <2>5. CASE StartOver
    <3>1. rep' = [rep EXCEPT !.bytes_done = base] /\ UNCHANGED outputVars
      BY <2>5 DEF StartOver
    <3>. QED
      BY <1>3, <2>1, <3>1
  <2>. QED
    BY <2>2, <2>3, <2>4, <2>5
<1>. HIDE DEF n
<1>6. last_pct' \in 0..100 /\ calls' \in Nat /\ ReportsOK'
  <2>1. /\ rep'.bytes_total \in Nat /\ rep'.bytes_done \in Nat /\ rep'.entries_total \in Nat
        /\ rep'.entries_done \in Nat
    BY <1>5, LimitAssumption DEF Report
  <2>2. CASE MaybeProgress(rep')
    BY <2>1, <2>2, ProgressKeepsReports DEF ExtractInv
  <2>3. CASE UNCHANGED outputVars
    BY <2>3 DEF outputVars, ExtractInv, ExtractTyped, ReportsOK
  <2>. QED
    BY <1>5, <2>2, <2>3
<1>7. ExtractTyped'
  <2>1. Thing' = Thing
    BY <1>1 DEF Thing
  <2>. QED
    BY <1>1, <1>4, <1>5, <1>6, <2>1 DEF ExtractInv, ExtractTyped, Report
<1>8. result = "none" /\ Extracting /\ Extracting' /\ Here' = n
  BY <1>1 DEF ExtractInv, WalkOK, Extracting, Here, PlaceOf, n
<1>9. WalkOK'
  BY <1>1, <1>8 DEF ExtractInv, WalkOK, Passed, LinkTarget
<1>10. TreeOK'
  <2>1. /\ Dir.kind = "dir" /\ Nothing.kind = "none" /\ Dest \in Name /\ Old.by = 0
        /\ \A m \in Name : before[m].by = 0
    <3>1. before \in Trees /\ entries \in Archives /\ Dest \in Name
      BY ExtractAssumption DEF ExtractInv, ExtractTyped, Dest
    <3>2. \A m \in Name : before[m] \in {Nothing, Dir, Old, OldLink}
      BY <3>1, TreesFacts
    <3>. QED
      BY <3>1, <3>2, ThingFacts
  <2>2. /\ tree[n] # Dir /\ tree[n] # Nothing /\ tree'[n] # Dir /\ tree[n] # before[n]
    BY <1>2, <1>3, <1>4, <2>1
  <2>3. tree'[Dest] = Dir
    BY <1>4, <1>8, <2>1, <2>2 DEF ExtractInv, TreeOK
  <2>4. ASSUME NEW m \in Name, tree'[m] # Nothing, NEW a \in Above(m) PROVE tree'[a] = Dir
    <3>1. tree[m] # Nothing
      BY <1>4, <2>2, <2>4
    <3>2. tree[a] = Dir /\ a \in Name
      BY <3>1, AboveFacts DEF ExtractInv, TreeOK, BelowDirectories
    <3>. QED
      BY <1>4, <2>2, <3>2
  <2>5. ASSUME NEW m \in Name, before[m] # Nothing, tree'[m] # before[m]
        PROVE  overwrite /\ before[m] = Old /\ tree'[m].kind = "file"
    <3>1. tree[m] # before[m]
      BY <1>4, <2>2, <2>5
    <3>. QED
      BY <1>4, <2>5, <3>1 DEF ExtractInv, TreeOK, NothingLost
  <2>. QED
    BY <1>1, <2>3, <2>4, <2>5 DEF TreeOK, BelowDirectories, NothingLost
<1>11. FileInHand'
  BY <1>1, <1>3, <1>4, <1>5, <1>8 DEF FileInHand, File
<1>12. FilesOK'
  <2>. SUFFICES ASSUME NEW i \in 1..(at - 1), entries[i].kind = "file" PROVE InPlace(i)'
    BY <1>1 DEF FilesOK
  <2>. DEFINE m == PlaceOf(entries[i])
  <2>1. i \in 1..Len(entries) /\ i <= at /\ m \in Name /\ m' = m
    BY <1>1, <1>2 DEF PlaceOf
  <2>2. InPlace(i)
    BY <1>8 DEF ExtractInv, FilesOK
  <2>. HIDE DEF m
  <2>3. CASE m = n
    BY <1>1, <1>2, <1>4, <1>8, <2>1, <2>3 DEF InPlace, m
  <2>4. CASE m # n
    BY <1>1, <1>4, <1>8, <2>1, <2>2, <2>4 DEF InPlace, m, n
  <2>. QED
    BY <2>3, <2>4
<1>13. CountersOK'
  <2>1. Walked' = Walked /\ IsFile' = IsFile /\ Size' = Size
    BY <1>1 DEF Walked, IsFile, Size
  <2>. QED
    BY <1>1, <1>5, <1>8, <2>1 DEF ExtractInv, CountersOK
<1>. QED
  BY <1>6, <1>7, <1>9, <1>10, <1>11, <1>12, <1>13 DEF ExtractInv

(* A file is complete, and counted: from here on a later entry may take    *)
(* over its place, and nothing else touches it.                            *)
LEMMA EndKeepsInvariant ==
  ASSUME ExtractInv, EndFile
  PROVE  ExtractInv'
<1>. DEFINE n == Here
<1>1. /\ pc \in {"parallel", "file"} /\ pc' = "next" /\ at' = at + 1 /\ result' = result
      /\ base' = base /\ tree' = tree
      /\ entries' = entries /\ free' = free /\ overwrite' = overwrite /\ before' = before
      /\ tree[n].bytes = entries[at].size /\ MaybeProgress(rep')
      /\ rep' = [[rep EXCEPT !.files_written = rep.files_written + 1,
                             !.bytes_done = base + tree[n].bytes]
                   EXCEPT !.entries_done = @ + 1]
  BY DEF EndFile, EntryDone, File, jobVars
<1>2. InFile /\ ~InFile' /\ Extracting /\ Extracting' /\ result = "none"
  BY <1>1 DEF ExtractInv, WalkOK, Extracting, InFile
<1>3. /\ at \in 1..Len(entries) /\ entries[at] \in Entry /\ n \in Name
      /\ \A i \in 1..Len(entries) : PlaceOf(entries[i]) \in Name
      /\ Len(entries) \in Nat /\ DOMAIN entries = 1..Len(entries)
      /\ entries[at].kind = "file" /\ entries[at].size \in Nat
      /\ tree[n].kind = "file" /\ tree[n].by = at
  BY <1>1, <1>2, HereFacts, EntryFacts, ArchiveFacts
  DEF ExtractInv, ExtractTyped, WalkOK, FileInHand, File
<1>4. /\ rep' \in Report /\ rep'.entries_total = rep.entries_total
      /\ rep'.bytes_total = rep.bytes_total /\ rep'.files_expected = rep.files_expected
      /\ rep'.files_written = rep.files_written + 1
      /\ rep'.bytes_done = base + entries[at].size
      /\ rep'.entries_done = rep.entries_done + 1
  <2>1. rep \in Report /\ base \in Nat
    BY DEF ExtractInv, ExtractTyped
  <2>2. /\ rep.entries_done + 1 \in Nat /\ rep.files_written + 1 \in Nat
        /\ base + entries[at].size \in Nat
    BY <1>3, <2>1 DEF Report
  <2>3. rep' = [rep EXCEPT !.files_written = rep.files_written + 1,
                           !.bytes_done = base + entries[at].size,
                           !.entries_done = rep.entries_done + 1]
    BY <1>1, <2>1 DEF Report
  <2>. QED
    BY <2>1, <2>2, <2>3 DEF Report
<1>5. last_pct' \in 0..100 /\ calls' \in Nat /\ ReportsOK'
  <2>1. /\ rep'.bytes_total \in Nat /\ rep'.bytes_done \in Nat /\ rep'.entries_total \in Nat
        /\ rep'.entries_done \in Nat
    BY <1>4, LimitAssumption DEF Report
  <2>. QED
    BY <1>1, <2>1, ProgressKeepsReports DEF ExtractInv
<1>. HIDE DEF n
<1>6. ExtractTyped'
  <2>1. Thing' = Thing /\ at' \in 1..(Len(entries) + 1)
    BY <1>1, <1>3 DEF Thing
  <2>. QED
    BY <1>1, <1>4, <1>5, <2>1 DEF ExtractInv, ExtractTyped, Report
<1>7. WalkOK'
  BY <1>1, <1>2, <1>3 DEF ExtractInv, WalkOK, Passed, LinkTarget
<1>8. TreeOK' /\ FileInHand'
  BY <1>1, <1>2 DEF ExtractInv, TreeOK, BelowDirectories, NothingLost, FileInHand
<1>9. FilesOK'
  <2>. SUFFICES ASSUME NEW i \in 1..at, entries[i].kind = "file" PROVE InPlace(i)'
    BY <1>1, <1>3 DEF FilesOK
  <2>. DEFINE m == PlaceOf(entries[i])
  <2>1. /\ i \in 1..Len(entries) /\ i <= at /\ m \in Name /\ m' = m /\ at' # at /\ at <= at'
        /\ tree[m].by \in Nat
    <3>1. i \in 1..Len(entries) /\ m \in Name
      BY <1>3
    <3>2. tree[m] \in Thing
      BY <3>1 DEF ExtractInv, ExtractTyped
    <3>. QED
      BY <1>1, <1>3, <3>1, <3>2 DEF PlaceOf, Thing
  <2>2. i # at => InPlace(i)
    <3>1. i # at => i \in 1..(at - 1)
      BY <1>3
    <3>. QED
      BY <1>2, <3>1 DEF ExtractInv, FilesOK
  <2>3. /\ tree[m].kind = "file" /\ i <= tree[m].by /\ tree[m].by <= at
        /\ tree[m].bytes = entries[tree[m].by].size
    <3>1. CASE i = at
      <4>1. m = n
        BY <3>1 DEF n, Here
      <4>. QED
        BY <1>1, <1>3, <3>1, <4>1 DEF n
    <3>2. CASE i # at
      <4>1. CASE tree[m].by = at
        <5>1. m = n
          BY <2>2, <3>2, <4>1 DEF InPlace, n
        <5>. QED
          BY <1>1, <1>3, <2>1, <4>1, <5>1 DEF n
      <4>2. CASE tree[m].by # at
        BY <2>2, <3>2, <4>2 DEF InPlace
      <4>. QED
        BY <4>1, <4>2
    <3>. QED
      BY <3>1, <3>2
  <2>4. tree[m].by <= at' /\ tree[m].by # at'
    BY <1>1, <1>3, <2>1, <2>3
  <2>. HIDE DEF m
  <2>. QED
    BY <1>1, <2>1, <2>3, <2>4 DEF InPlace, m
<1>10. CountersOK'
  <2>1. IsFile[at] = 1 /\ Size[at] = entries[at].size
    BY <1>3 DEF IsFile, Size
  <2>. QED
    BY <1>1, <1>2, <1>3, <1>4, <2>1, DoneKeepsCounters
<1>. QED
  BY <1>5, <1>6, <1>7, <1>8, <1>9, <1>10 DEF ExtractInv

(* The job ends: after the last entry, or with whatever went wrong.        *)
(* CannotMake may have made some of the directories on the way.            *)
LEMMA FinishKeepsInvariant ==
  ASSUME ExtractInv, EntryRejected \/ PreflightFails \/ JobDone \/ CannotMake \/ JobFails
  PROVE  ExtractInv'
<1>1. /\ pc # "done" /\ pc' = "done" /\ at' = at /\ rep' = rep
      /\ result' \in {"ok", "rejected", "failed"} /\ base' = base
      /\ entries' = entries /\ free' = free /\ overwrite' = overwrite /\ before' = before
      /\ last_pct' = last_pct /\ calls' = calls
      /\ result' = "ok" => pc = "next" /\ at > Len(entries) /\ tree' = tree
  BY DEF EntryRejected, PreflightFails, JobDone, CannotMake, JobFails, Finish, IsNext, Unwritten,
         jobVars, outputVars
<1>2. Len(entries) \in Nat /\ DOMAIN entries = 1..Len(entries) /\ at \in 1..(Len(entries) + 1)
  BY ArchiveFacts DEF ExtractInv, ExtractTyped
<1>3. /\ tree' \in [Name -> Thing] /\ BelowDirectories(tree') /\ NothingLost'
      /\ tree' # tree => \A i \in DOMAIN entries : Passed(i)
  <2>1. CASE tree' = tree
    BY <1>1, <2>1 DEF ExtractInv, ExtractTyped, TreeOK, NothingLost
  <2>2. CASE CannotMake
    <3>1. /\ pc = "next" /\ at <= Len(entries)
          /\ \E m \in Above(Here) \cup {Here} : Passable(Above(m)) /\ tree' = Made(Above(m))
      BY <2>2 DEF CannotMake, IsNext
    <3>2. PICK m \in Above(Here) \cup {Here} : Passable(Above(m)) /\ tree' = Made(Above(m))
      BY <3>1
    <3>3. m \in Name
      BY <3>1, HereFacts
    <3>4. Above(m) \in SUBSET Name /\ \A a \in Above(m) : Above(a) \subseteq Above(m)
      BY <3>3, AboveFacts
    <3>5. /\ Made(Above(m)) \in [Name -> Thing] /\ BelowDirectories(Made(Above(m)))
          /\ \A x \in Name : before[x] # Nothing /\ Made(Above(m))[x] # before[x]
                               => overwrite /\ before[x] = Old /\ Made(Above(m))[x].kind = "file"
      BY <3>2, <3>4, MadeFacts DEF ExtractInv
    <3>6. \A i \in DOMAIN entries : Passed(i)
      BY <3>1 DEF ExtractInv, WalkOK, Extracting
    <3>. QED
      BY <1>1, <3>2, <3>5, <3>6 DEF NothingLost
  <2>. QED
    BY <2>1, <2>2 DEF EntryRejected, PreflightFails, JobDone, JobFails, Unwritten
<1>4. result = "none" /\ ~InFile' /\ (Extracting' <=> result' = "ok")
      /\ (result' = "ok" => Extracting /\ ~InFile /\ at = Len(entries) + 1 /\ tree' = tree)
  BY <1>1, <1>2 DEF ExtractInv, WalkOK, Extracting, InFile
<1>5. ExtractTyped'
  <2>1. Thing' = Thing
    BY <1>1 DEF Thing
  <2>. QED
    BY <1>1, <1>3, <2>1 DEF ExtractInv, ExtractTyped, Report
<1>6. WalkOK'
  <2>1. Extracting' \/ tree' # before => \A i \in DOMAIN entries : Passed(i)
    BY <1>3, <1>4 DEF ExtractInv, WalkOK
  <2>. QED
    BY <1>1, <1>4, <2>1 DEF WalkOK, Passed, LinkTarget
<1>7. TreeOK'
  BY <1>3, <1>4 DEF ExtractInv, TreeOK, BelowDirectories
<1>8. FileInHand' /\ ReportsOK'
  BY <1>1, <1>4 DEF ExtractInv, FileInHand, ReportsOK
<1>9. FilesOK'
  <2>. SUFFICES ASSUME result' = "ok", NEW i \in 1..(at - 1), entries[i].kind = "file"
                PROVE  InPlace(i)'
    BY <1>1, <1>4 DEF FilesOK
  <2>1. InPlace(i) /\ ~InFile
    BY <1>4 DEF ExtractInv, FilesOK
  <2>. QED
    BY <1>1, <1>4, <2>1 DEF InPlace, PlaceOf
<1>10. CountersOK'
  <2>. SUFFICES ASSUME result' = "ok" PROVE CountersOK'
    BY <1>1, <1>4 DEF CountersOK
  <2>1. Walked' = Walked /\ IsFile' = IsFile /\ Size' = Size
    BY <1>1 DEF Walked, IsFile, Size
  <2>. QED
    BY <1>1, <1>4, <2>1 DEF ExtractInv, CountersOK
<1>. QED
  BY <1>5, <1>6, <1>7, <1>8, <1>9, <1>10 DEF ExtractInv

-------------------------------------------------------------------------------
(* The invariant, and what it is for. *)

(* The job has counted and touched nothing yet. *)
LEMMA ExtractInitInvariant == ExtractInit => ExtractInv
<1>. SUFFICES ASSUME ExtractInit PROVE ExtractInv
  OBVIOUS
<1>1. /\ entries \in Archives /\ free \in Free /\ overwrite \in Overwrites /\ tree \in Trees
      /\ before = tree /\ pc = "scan" /\ at = 1 /\ base = 0 /\ last_pct = 0 /\ calls = 0
      /\ result = "none"
      /\ rep = [entries_total |-> 0, bytes_total |-> 0, files_expected |-> 0,
                entries_done |-> 0, files_written |-> 0, bytes_done |-> 0]
  BY DEF ExtractInit
<1>2. Len(entries) \in Nat
  BY <1>1, ArchiveFacts
<1>3. ExtractTyped
  <2>1. tree \in [Name -> Thing]
    BY <1>1, TreesFacts, ThingFacts
  <2>2. rep \in Report
    BY <1>1, LimitAssumption DEF Report
  <2>. QED
    BY <1>1, <1>2, <2>1, <2>2 DEF ExtractTyped
<1>4. ~Extracting /\ ~InFile
  BY <1>1 DEF Extracting, InFile
<1>5. WalkOK /\ FileInHand /\ FilesOK
  BY <1>1, <1>4 DEF WalkOK, FileInHand, FilesOK
<1>6. TreeOK
  BY <1>1, <1>4, TreesFacts DEF TreeOK, NothingLost
<1>7. ReportsOK
  <2>1. 0 = 0 * progress_percent_step
    <3>1. progress_percent_step \in Nat
      BY LimitAssumption
    <3>. QED
      BY <3>1
  <2>. QED
    BY <1>1, <2>1 DEF ReportsOK
<1>8. CountersOK
  <2>1. Walked = 0
    BY <1>1 DEF Walked
  <2>2. \A w : IsTally([i \in 0..0 |-> 0], w, 0) /\ [i \in 0..0 |-> 0][0] = 0
    BY DEF IsTally
  <2>. QED
    BY <1>1, <1>4, <2>1, <2>2 DEF CountersOK
<1>. QED
  BY <1>3, <1>5, <1>6, <1>7, <1>8 DEF ExtractInv

(* Workers alone write past the end of a file.  To start over is to cut    *)
(* that off, and to go on without starting over takes a file that has      *)
(* nothing there.                                                          *)
THEOREM BeyondInvariant == ExtractSpec => []BeyondInv
<1>1. ExtractInit => BeyondInv
  BY DEF ExtractInit, BeyondInv
<1>2. BeyondInv /\ [ExtractNext]_extractVars => BeyondInv'
  <2>. SUFFICES ASSUME BeyondInv, [ExtractNext]_extractVars PROVE BeyondInv'
    OBVIOUS
  <2>1. CASE ScanEntry \/ ScanEnds \/ CheckPasses \/ EntryRejected \/ PreflightFails
    BY <2>1
    DEF ScanEntry, ScanEnds, CheckPasses, EntryRejected, PreflightFails, Unwritten, BeyondInv
  <2>2. CASE MakeDest \/ ExtractDir \/ SkipEntry \/ MakeLink \/ BeginFile \/ JobDone
    BY <2>2 DEF MakeDest, ExtractDir, SkipEntry, MakeLink, BeginFile, JobDone, IsNext, BeyondInv
  <2>3. CASE WriteUnit \/ PollWorkers \/ EndFile
    BY <2>3 DEF WriteUnit, PollWorkers, EndFile, walkVars, BeyondInv
  <2>4. CASE WorkersWrite
    BY <2>4 DEF WorkersWrite, walkVars, BeyondInv
  <2>5. CASE StartOver
    BY <2>5 DEF StartOver, BeyondInv
  <2>6. CASE CannotMake \/ JobFails
    BY <2>6 DEF CannotMake, JobFails, Finish, BeyondInv
  <2>7. CASE UNCHANGED extractVars
    BY <2>7 DEF extractVars, walkVars, BeyondInv
  <2>. QED
    BY <2>1, <2>2, <2>3, <2>4, <2>5, <2>6, <2>7 DEF ExtractNext
<1>. QED
  BY <1>1, <1>2, PTL DEF ExtractSpec

(* Every step keeps it. *)
LEMMA ExtractNextInvariant ==
  ExtractInv /\ BeyondInv /\ [ExtractNext]_extractVars => ExtractInv'
<1>. SUFFICES ASSUME ExtractInv, BeyondInv, [ExtractNext]_extractVars PROVE ExtractInv'
  OBVIOUS
<1>1. CASE ScanEntry
  BY <1>1, ScanKeepsInvariant
<1>2. CASE ScanEnds \/ CheckPasses
  BY <1>2, CheckKeepsInvariant
<1>3. CASE MakeDest
  BY <1>3, MakeDestKeepsInvariant
<1>4. CASE ExtractDir \/ SkipEntry \/ MakeLink
  BY <1>4, EntryKeepsInvariant
<1>5. CASE BeginFile
  BY <1>5, BeginKeepsInvariant
<1>6. CASE WriteUnit \/ WorkersWrite \/ PollWorkers \/ StartOver
  BY <1>6, InsideKeepsInvariant
<1>7. CASE EndFile
  BY <1>7, EndKeepsInvariant
<1>8. CASE EntryRejected \/ PreflightFails \/ JobDone \/ CannotMake \/ JobFails
  BY <1>8, FinishKeepsInvariant
<1>9. CASE UNCHANGED extractVars
  <2>1. /\ entries' = entries /\ free' = free /\ overwrite' = overwrite /\ before' = before
        /\ tree' = tree /\ rep' = rep /\ result' = result /\ pc' = pc /\ at' = at /\ base' = base
        /\ last_pct' = last_pct /\ calls' = calls
    BY <1>9 DEF extractVars, jobVars, walkVars, outputVars
  <2>2. /\ Thing' = Thing /\ (Extracting' <=> Extracting) /\ (InFile' <=> InFile) /\ Here' = Here
        /\ Walked' = Walked /\ IsFile' = IsFile /\ Size' = Size
    BY <2>1 DEF Thing, Extracting, InFile, Here, PlaceOf, Walked, IsFile, Size
  <2>3. ExtractTyped' /\ WalkOK'
    BY <2>1, <2>2 DEF ExtractInv, ExtractTyped, Report, WalkOK, Passed, LinkTarget
  <2>4. TreeOK' /\ FileInHand' /\ ReportsOK'
    BY <2>1, <2>2
    DEF ExtractInv, TreeOK, BelowDirectories, NothingLost, FileInHand, File, ReportsOK
  <2>5. FilesOK'
    BY <2>1, <2>2 DEF ExtractInv, FilesOK, InPlace, PlaceOf
  <2>6. CountersOK'
    BY <2>1, <2>2 DEF ExtractInv, CountersOK
  <2>. QED
    BY <2>3, <2>4, <2>5, <2>6 DEF ExtractInv
<1>. QED
  BY <1>1, <1>2, <1>3, <1>4, <1>5, <1>6, <1>7, <1>8, <1>9 DEF ExtractNext

(* The invariant holds throughout every job. *)
THEOREM ExtractInvariant == ExtractSpec => []ExtractInv
BY ExtractInitInvariant, ExtractNextInvariant, BeyondInvariant, PTL DEF ExtractSpec

(* The type invariant of a job: among others, that the sum of the declared *)
(* sizes never wraps (scan_archive).                                       *)
THEOREM ExtractTypes == ExtractSpec => []ExtractTypeOK
<1>1. ExtractInv /\ BeyondInv => ExtractTypeOK
  BY DEF ExtractInv, ExtractTyped, ExtractTypeOK, Thing, Report, BeyondInv
<1>. QED
  BY <1>1, ExtractInvariant, BeyondInvariant, PTL

(* Nothing at all is written unless every entry has passed its checks, in  *)
(* its place and, for a link, in its target.  A backend that does not read *)
(* targets has every link refused, so nothing depends on what it says.     *)
THEOREM PreflightIsAllOrNothing == ExtractSpec => []AllOrNothing
<1>1. ExtractInv => AllOrNothing
  <2>. SUFFICES ASSUME ExtractInv, tree # before, NEW i \in DOMAIN entries
                PROVE  Placeable(entries[i], entries[i].target)
    BY DEF AllOrNothing
  <2>1. Placeable(entries[i], LinkTarget(entries[i]))
    BY DEF ExtractInv, WalkOK, Passed
  <2>2. CASE TargetsAreRead
    BY <2>1, <2>2 DEF LinkTarget
  <2>3. CASE ~TargetsAreRead
    <3>1. entries[i].kind # "link"
      BY <2>1, <2>3 DEF LinkTarget, Placeable, CheckSymlink, Path
    <3>. QED
      BY <2>1, <3>1 DEF Placeable
  <2>. QED
    BY <2>2, <2>3
<1>. QED
  BY <1>1, ExtractInvariant, PTL

(* UA_OK comes with the counters that extraction_is_verified compares,     *)
(* whatever was skipped, written by workers or started over.               *)
THEOREM OkJobsAreVerified == ExtractSpec => []OkIsVerified
<1>1. ExtractInv => OkIsVerified
  <2>. SUFFICES ASSUME ExtractInv, result = "ok"
                PROVE  /\ rep.entries_done = rep.entries_total
                       /\ rep.files_written = rep.files_expected
                       /\ rep.bytes_done = rep.bytes_total
    BY DEF OkIsVerified
  <2>1. Extracting /\ ~InFile /\ Walked = Len(entries) /\ at - 1 = Len(entries)
    <3>1. Len(entries) \in Nat
      BY ArchiveFacts DEF ExtractInv, ExtractTyped
    <3>. QED
      BY <3>1 DEF ExtractInv, WalkOK, Extracting, InFile, Walked
  <2>. QED
    BY <2>1 DEF ExtractInv, CountersOK
<1>. QED
  BY <1>1, ExtractInvariant, PTL

(* After UA_OK every file of the archive is in its place, complete, or has *)
(* been replaced by a later entry that is (extract_one_file).              *)
THEOREM OkJobsExtractAll == ExtractSpec => []OkMeansExtracted
<1>1. ExtractInv => OkMeansExtracted
  <2>. SUFFICES ASSUME ExtractInv, result = "ok", NEW i \in DOMAIN entries,
                       entries[i].kind = "file"
                PROVE  LET there == tree[PlaceOf(entries[i])]
                       IN  /\ there.kind = "file" /\ there.by >= i
                           /\ there.bytes = entries[there.by].size
    BY DEF OkMeansExtracted
  <2>1. Len(entries) \in Nat /\ DOMAIN entries = 1..Len(entries) /\ at = Len(entries) + 1
    BY ArchiveFacts DEF ExtractInv, ExtractTyped, WalkOK
  <2>2. Extracting /\ ~InFile /\ i \in 1..(at - 1)
    BY <2>1 DEF ExtractInv, WalkOK, Extracting, InFile
  <2>3. InPlace(i)
    BY <2>2 DEF ExtractInv, FilesOK
  <2>4. \A a, b : a <= b <=> b >= a
    OBVIOUS
  <2>. QED
    BY <2>2, <2>3, <2>4 DEF InPlace
<1>. QED
  BY <1>1, ExtractInvariant, PTL

(* What the job did not make itself is at most replaced, file by file, and *)
(* only if overwriting is allowed (ua_plat_open_write, ua_plat_mkdirs).    *)
THEOREM OthersAreKept == ExtractSpec => []NothingLost
BY ExtractInvariant, PTL DEF ExtractInv, TreeOK

(* Everything that is written lies below directories, never beyond a link, *)
(* wherever the link came from (ua_plat_mkdirs, ua_plat_open_write).       *)
THEOREM WritesStayBelow == ExtractSpec => []NothingThroughLinks
BY ExtractInvariant, PTL DEF ExtractInv, TreeOK, NothingThroughLinks

(* No more reports are made than there are steps in a hundred percent      *)
(* (maybe_progress).                                                       *)
THEOREM ReportsAreLimited == ExtractSpec => []RateLimited
<1>1. ExtractInv => RateLimited
  <2>. SUFFICES ASSUME ExtractInv PROVE RateLimited
    OBVIOUS
  <2>1. PICK steps \in Nat : last_pct = steps * progress_percent_step /\ calls <= steps
    BY DEF ExtractInv, ReportsOK
  <2>2. calls \in Nat /\ progress_percent_step \in Nat /\ last_pct \in 0..100
    BY LimitAssumption DEF ExtractInv, ExtractTyped
  <2>3. calls * progress_percent_step <= steps * progress_percent_step
    BY <2>1, <2>2
  <2>4. calls * progress_percent_step \in Nat /\ steps * progress_percent_step \in Nat
    BY <2>1, <2>2
  <2>. QED
    BY <2>1, <2>2, <2>3, <2>4 DEF RateLimited
<1>. QED
  BY <1>1, ExtractInvariant, PTL

-------------------------------------------------------------------------------
(* The margin.  What the job's files take together is a sum over places,   *)
(* defined by recursion; of it only this is needed, that it changes with   *)
(* one place as much as the place does.  That follows by induction over    *)
(* finite sets, in the form that a smallest counterexample does not exist. *)

(* A set of sets of places has a smallest one. *)
LEMMA SmallestPlaces ==
  ASSUME NEW F, F \subseteq SUBSET Name, F # {}
  PROVE  \E T \in F : \A U \in F : U \subseteq T => U = T
<1>1. F \subseteq FiniteSubsetsOf(Name)
  BY ExtractAssumption, FS_Subset DEF FiniteSubsetsOf
<1>. QED
  BY <1>1, SmallestSet

First(s) == CHOOSE m \in s : TRUE
Sizes(t) == \A n \in Name : t[n].bytes \in Nat

(* F is the sum of the sizes in t for every set of places. *)
IsSum(F, t) ==
  /\ F \in [SUBSET Name -> Nat]
  /\ \A s \in SUBSET Name : F[s] = IF s = {} THEN 0 ELSE t[First(s)].bytes + F[s \ {First(s)}]

(* The recursion in Used has a solution. *)
LEMMA SumExists ==
  ASSUME NEW t, Sizes(t)
  PROVE  \E F : IsSum(F, t)
<1>. DEFINE pick == [s \in SUBSET Name |-> First(s)]
            step == [p \in Name \X Nat |-> t[p[1]].bytes + p[2]]
<1>1. \A s \in SUBSET Name : s # {} => pick[s] \in s /\ First(s) \in s
  BY DEF First
<1>2. step \in [Name \X Nat -> Nat]
  BY DEF Sizes
<1>3. \A n \in Name, k \in Nat : step[<<n, k>>] = t[n].bytes + k
  OBVIOUS
<1>4. \A s \in SUBSET Name : pick[s] = First(s)
  OBVIOUS
<1>5. IsFiniteSet(Name)
  BY ExtractAssumption
<1>. HIDE DEF pick, step
<1>6. PICK F : Solves(F, Name, Nat, pick, 0, step)
  BY <1>1, <1>2, <1>5, SolutionExists
<1>7. F \in [SUBSET Name -> Nat]
  BY <1>6 DEF Solves
<1>8. ASSUME NEW s \in SUBSET Name, s # {} PROVE F[s] = t[First(s)].bytes + F[s \ {First(s)}]
  <2>1. F[s] = step[<<First(s), F[s \ {First(s)}]>>]
    BY <1>4, <1>6, <1>8 DEF Solves
  <2>2. First(s) \in Name /\ F[s \ {First(s)}] \in Nat
    BY <1>1, <1>7, <1>8
  <2>. QED
    BY <1>3, <2>1, <2>2
<1>. QED
  BY <1>6, <1>7, <1>8 DEF IsSum, Solves

(* What Used is. *)
LEMMA UsedIsSum ==
  ASSUME NEW t, Sizes(t)
  PROVE  \E F : IsSum(F, t) /\ Used(t) = F[Name]
<1>1. PICK F : IsSum(F, t)
  BY SumExists
<1>2. F = [s \in SUBSET Name |->
             IF s = {} THEN 0
             ELSE LET n == CHOOSE m \in s : TRUE IN t[n].bytes + F[s \ {n}]]
  BY <1>1 DEF IsSum, First
<1>. DEFINE Sum == CHOOSE G : G = [s \in SUBSET Name |->
             IF s = {} THEN 0
             ELSE LET n == CHOOSE m \in s : TRUE IN t[n].bytes + G[s \ {n}]]
<1>3. Sum = [s \in SUBSET Name |->
             IF s = {} THEN 0
             ELSE LET n == CHOOSE m \in s : TRUE IN t[n].bytes + Sum[s \ {n}]]
  BY <1>2
<1>4. Used(t) = Sum[Name]
  BY DEF Used
<1>. HIDE DEF Sum
<1>5. \A s \in SUBSET Name : Sum[s] = IF s = {} THEN 0 ELSE t[First(s)].bytes + Sum[s \ {First(s)}]
  BY <1>3 DEF First
<1>6. \A s \in SUBSET Name : Sum[s] \in Nat
  <2>. DEFINE Bad == {s \in SUBSET Name : Sum[s] \notin Nat}
  <2>. SUFFICES ASSUME Bad # {} PROVE FALSE
    OBVIOUS
  <2>1. PICK s \in Bad : \A u \in Bad : u \subseteq s => u = s
    <3>1. Bad \subseteq SUBSET Name
      OBVIOUS
    <3>. HIDE DEF Bad
    <3>. QED
      BY <3>1, SmallestPlaces
  <2>2. s \in SUBSET Name /\ Sum[s] \notin Nat
    BY <2>1
  <2>3. Sum[s] = IF s = {} THEN 0 ELSE t[First(s)].bytes + Sum[s \ {First(s)}]
    BY <1>5, <2>2
  <2>4. s # {}
    BY <2>2, <2>3
  <2>5. First(s) \in s
    BY <2>4 DEF First
  <2>6. Sum[s \ {First(s)}] \in Nat /\ t[First(s)].bytes \in Nat
    BY <2>1, <2>2, <2>5 DEF Sizes
  <2>. QED
    BY <2>2, <2>3, <2>4, <2>6
<1>7. Sum \in [SUBSET Name -> Nat]
  BY <1>3, <1>6
<1>. QED
  BY <1>4, <1>5, <1>7 DEF IsSum

(* With one place changed the sum changes as much. *)
LEMMA UsedChanges ==
  ASSUME NEW t, NEW u, Sizes(t), Sizes(u), NEW k \in Name,
         \A n \in Name \ {k} : u[n].bytes = t[n].bytes
  PROVE  /\ Used(t) \in Nat /\ Used(u) \in Nat
         /\ Used(u) + t[k].bytes = Used(t) + u[k].bytes
<1>1. PICK F : IsSum(F, t) /\ Used(t) = F[Name]
  BY UsedIsSum
<1>2. PICK G : IsSum(G, u) /\ Used(u) = G[Name]
  BY UsedIsSum
<1>. DEFINE Moved(s) == IF k \in s THEN G[s] + t[k].bytes = F[s] + u[k].bytes ELSE G[s] = F[s]
            Bad == {s \in SUBSET Name : ~Moved(s)}
<1>3. Bad = {}
  <2>. SUFFICES ASSUME Bad # {} PROVE FALSE
    OBVIOUS
  <2>1. PICK s \in Bad : \A v \in Bad : v \subseteq s => v = s
    <3>1. Bad \subseteq SUBSET Name
      OBVIOUS
    <3>. HIDE DEF Bad
    <3>. QED
      BY <3>1, SmallestPlaces
  <2>2. s # {} /\ s \in SUBSET Name
    BY <1>1, <1>2 DEF IsSum
  <2>. DEFINE c == First(s)
              r == s \ {c}
  <2>3. c \in s /\ c \in Name
    BY <2>2 DEF First
  <2>4. r \in SUBSET Name /\ Moved(r)
    BY <2>1, <2>2, <2>3
  <2>5. F[s] = t[c].bytes + F[r] /\ G[s] = u[c].bytes + G[r]
    BY <1>1, <1>2, <2>2 DEF IsSum
  <2>6. F[r] \in Nat /\ G[r] \in Nat /\ t[c].bytes \in Nat /\ u[c].bytes \in Nat
        /\ t[k].bytes \in Nat /\ u[k].bytes \in Nat
    BY <1>1, <1>2, <2>3, <2>4 DEF IsSum, Sizes
  <2>7. ~Moved(s)
    BY <2>1
  <2>8. CASE c = k
    BY <2>3, <2>4, <2>5, <2>6, <2>7, <2>8
  <2>9. CASE c # k
    <3>1. u[c].bytes = t[c].bytes /\ (k \in r <=> k \in s)
      BY <2>3, <2>9
    <3>. QED
      BY <2>4, <2>5, <2>6, <2>7, <3>1
  <2>. QED
    BY <2>8, <2>9
<1>4. Moved(Name)
  BY <1>3
<1>. QED
  BY <1>1, <1>2, <1>4 DEF IsSum

(* With every size the same the sum is. *)
LEMMA UsedStays ==
  ASSUME NEW t, NEW u, Sizes(t), \A n \in Name : u[n].bytes = t[n].bytes
  PROVE  Used(t) \in Nat /\ Used(u) = Used(t)
<1>1. <<>> \in Name /\ Sizes(u) /\ t[<<>>].bytes \in Nat
  BY ExtractAssumption DEF Sizes
<1>. QED
  BY <1>1, UsedChanges

(* Where nothing takes space the sum is 0. *)
LEMMA NothingUsed ==
  ASSUME NEW t, \A n \in Name : t[n].bytes = 0
  PROVE  Used(t) = 0
<1>1. PICK F : IsSum(F, t) /\ Used(t) = F[Name]
  BY UsedIsSum DEF Sizes
<1>. DEFINE Bad == {s \in SUBSET Name : F[s] # 0}
<1>2. Bad = {}
  <2>. SUFFICES ASSUME Bad # {} PROVE FALSE
    OBVIOUS
  <2>1. PICK s \in Bad : \A v \in Bad : v \subseteq s => v = s
    <3>1. Bad \subseteq SUBSET Name
      OBVIOUS
    <3>. HIDE DEF Bad
    <3>. QED
      BY <3>1, SmallestPlaces
  <2>2. s # {} /\ s \in SUBSET Name
    BY <1>1 DEF IsSum
  <2>3. First(s) \in s
    BY <2>2 DEF First
  <2>4. F[s \ {First(s)}] = 0
    BY <2>1, <2>2, <2>3
  <2>. QED
    BY <1>1, <2>1, <2>2, <2>3, <2>4 DEF IsSum
<1>. QED
  BY <1>1, <1>2
-------------------------------------------------------------------------------
(* What is in the files is what has been counted, or less, where an entry  *)
(* has taken over the place of an earlier one.                             *)
SpaceInv ==
  /\ pc \in {"dest", "next", "parallel", "file"} \/ tree # before
       => rep.bytes_total + margin <= free
  /\ pc = "next" => Used(tree) <= rep.bytes_done
  /\ InFile => Used(tree) <= base + File.bytes
  /\ pc = "done" => tree = before \/ Used(tree) <= rep.bytes_total

(* A tally does not go down. *)
LEMMA TallyBelow ==
  ASSUME NEW n \in Nat, NEW f, NEW w, IsTally(f, w, n), \A i \in 1..n : w[i] \in Nat
  PROVE  \A k \in 0..n : f[k] \in Nat /\ f[k] <= f[n]
<1>. DEFINE Bad == {j \in 0..n : ~(f[n - j] <= f[n])}
<1>1. \A k \in 0..n : f[k] \in Nat
  BY DEF IsTally
<1>2. Bad = {}
  <2>. SUFFICES ASSUME Bad # {} PROVE FALSE
    OBVIOUS
  <2>1. PICK j \in Bad : \A m \in Bad : j <= m
    <3>1. Bad \in SUBSET Nat
      OBVIOUS
    <3>. HIDE DEF Bad
    <3>. QED
      BY <3>1, LeastNumber
  <2>2. j \in 1..n
    BY <1>1
  <2>3. j - 1 \in 0..n /\ j - 1 \notin Bad /\ n - (j - 1) = (n - j) + 1
        /\ n - j \in 0..n /\ (n - j) + 1 \in 1..n /\ ((n - j) + 1) - 1 = n - j
    BY <2>1, <2>2
  <2>4. f[(n - j) + 1] <= f[n]
    BY <2>3
  <2>5. f[(n - j) + 1] = f[n - j] + w[(n - j) + 1] /\ w[(n - j) + 1] \in Nat
    BY <2>3 DEF IsTally
  <2>. QED
    BY <1>1, <2>1, <2>3, <2>4, <2>5
<1>3. ASSUME NEW k \in 0..n PROVE f[k] <= f[n]
  <2>1. n - k \in 0..n /\ n - (n - k) = k
    OBVIOUS
  <2>2. f[n - (n - k)] <= f[n]
    BY <1>2, <2>1
  <2>. QED
    BY <2>1, <2>2
<1>. QED
  BY <1>1, <1>3

(* What has been counted is no more than what was announced, and neither   *)
(* is it with all of the file in hand.                                     *)
LEMMA CountedIsAnnounced ==
  ASSUME ExtractInv, pc \in {"next", "parallel", "file"}
  PROVE  /\ rep.bytes_done \in Nat /\ rep.bytes_total \in Nat
         /\ pc = "next" => rep.bytes_done <= rep.bytes_total
         /\ InFile => base + File.bytes <= rep.bytes_total
<1>1. /\ rep.bytes_done \in Nat /\ rep.bytes_total \in Nat /\ base \in Nat
      /\ tree \in [Name -> Thing]
  BY LimitAssumption DEF ExtractInv, ExtractTyped, Report
<1>2. /\ Len(entries) \in Nat /\ DOMAIN entries = 1..Len(entries)
      /\ \A i \in 1..Len(entries) : entries[i] \in Entry /\ Size[i] \in Nat
      /\ at \in 1..(Len(entries) + 1)
  BY ArchiveFacts, EntryFacts DEF ExtractInv, ExtractTyped, Size
<1>3. Extracting /\ Walked = Len(entries) /\ (InFile <=> pc # "next")
  BY DEF Extracting, InFile, Walked
<1>4. PICK bytes : /\ IsTally(bytes, Size, Len(entries))
                   /\ rep.bytes_total = bytes[Len(entries)]
                   /\ InFile => base = bytes[at - 1]
                   /\ ~InFile => rep.bytes_done = bytes[at - 1]
  BY <1>3 DEF ExtractInv, CountersOK
<1>5. \A k \in 0..Len(entries) : bytes[k] \in Nat /\ bytes[k] <= bytes[Len(entries)]
  BY <1>2, <1>4, TallyBelow
<1>6. at - 1 \in 0..Len(entries)
  BY <1>2
<1>7. InFile => base + File.bytes <= rep.bytes_total
  <2>. SUFFICES ASSUME InFile PROVE base + File.bytes <= rep.bytes_total
    OBVIOUS
  <2>1. /\ at \in 1..Len(entries) /\ entries[at].kind = "file" /\ entries[at].size \in Nat
        /\ File.bytes <= entries[at].size
    BY <1>2, EntryFacts DEF ExtractInv, WalkOK, FileInHand
  <2>2. Size[at] = entries[at].size
    BY <1>2, <2>1 DEF Size
  <2>3. bytes[at] = bytes[at - 1] + Size[at]
    BY <1>4, <2>1 DEF IsTally
  <2>4. Here \in Name
    BY <2>1, HereFacts
  <2>5. File.bytes \in Nat
    <3>1. File \in Thing
      BY <1>1, <2>4 DEF File
    <3>. QED
      BY <3>1 DEF Thing
  <2>. QED
    BY <1>1, <1>4, <1>5, <2>1, <2>2, <2>3, <2>5
<1>. QED
  BY <1>1, <1>3, <1>4, <1>5, <1>6, <1>7

(* What is at a place has a size; directories and links take no space.     *)
LEMMA SizesFacts ==
  ASSUME ExtractInv
  PROVE  /\ Sizes(tree) /\ Used(tree) \in Nat
         /\ \A P \in SUBSET Name : Sizes(Made(P)) /\ Used(Made(P)) = Used(tree)
<1>1. \A n \in Name : tree[n].bytes \in Nat
  <2>1. \A n \in Name : tree[n] \in Thing
    BY DEF ExtractInv, ExtractTyped
  <2>. QED
    BY <2>1 DEF Thing
<1>2. ASSUME NEW P \in SUBSET Name
      PROVE  \A n \in Name : Made(P)[n].bytes = tree[n].bytes
  BY DEF Made, Nothing, Dir
<1>3. Sizes(tree)
  BY <1>1 DEF Sizes
<1>. QED
  BY <1>1, <1>2, <1>3, UsedStays DEF Sizes

(* As long as a job goes on, its files take no more than was announced.    *)
LEMMA UsedIsAnnounced ==
  ASSUME ExtractInv, SpaceInv, pc \in {"next", "parallel", "file"}
  PROVE  Used(tree) <= rep.bytes_total
<1>1. Used(tree) \in Nat /\ base \in Nat
  BY SizesFacts DEF ExtractInv, ExtractTyped
<1>2. CASE pc = "next"
  BY <1>1, <1>2, CountedIsAnnounced DEF SpaceInv
<1>3. CASE InFile
  <2>1. File.bytes \in Nat
    <3>1. at <= Len(entries)
      BY <1>3 DEF ExtractInv, WalkOK
    <3>. QED
      BY <3>1, HereFacts, SizesFacts DEF File, Sizes
  <2>. QED
    BY <1>1, <1>3, <2>1, CountedIsAnnounced DEF SpaceInv
<1>. QED
  BY <1>2, <1>3 DEF InFile

(* The file in hand is begun empty, where a larger one may have been, and  *)
(* changes in its own place only.                                          *)
LEMMA SpaceOfFile ==
  ASSUME ExtractInv, ExtractInv', SpaceInv,
         BeginFile \/ WriteUnit \/ WorkersWrite \/ PollWorkers \/ StartOver \/ EndFile
  PROVE  SpaceInv'
<1>. DEFINE n == Here
<1>1. /\ pc \in {"next", "parallel", "file"} /\ at <= Len(entries) /\ n \in Name
      /\ Above(n) \in SUBSET Name /\ n \notin Above(n)
      /\ pc' \in {"next", "parallel", "file"}
  <2>1. pc \in {"next", "parallel", "file"} /\ at <= Len(entries)
        /\ pc' \in {"next", "parallel", "file"}
    BY DEF BeginFile, IsNext, WriteUnit, WorkersWrite, PollWorkers, StartOver, EndFile,
           ExtractInv, WalkOK, InFile, walkVars
  <2>. QED
    BY <2>1, HereFacts
<1>2. /\ Sizes(tree) /\ tree[n].bytes \in Nat /\ Used(tree) \in Nat /\ base \in Nat
      /\ rep.bytes_done \in Nat /\ rep \in Report /\ tree \in [Name -> Thing]
  BY <1>1, SizesFacts DEF Sizes, ExtractInv, ExtractTyped, Report
<1>3. /\ rep'.bytes_total = rep.bytes_total /\ free' = free
      /\ rep.bytes_total + margin <= free
  <2>1. rep'.bytes_total = rep.bytes_total
    BY <1>2 DEF BeginFile, WriteUnit, WorkersWrite, PollWorkers, StartOver, EndFile, Reported,
                EntryDone, Report
  <2>. QED
    BY <1>1, <2>1 DEF SpaceInv, BeginFile, WriteUnit, WorkersWrite, PollWorkers, StartOver,
                      EndFile, jobVars
<1>4. CASE BeginFile
  <2>1. /\ Above(n) \in SUBSET Name /\ Sizes(Made(Above(n))) /\ Used(Made(Above(n))) = Used(tree)
    BY <1>1, SizesFacts
  <2>. DEFINE table == Made(Above(n))
  <2>2. /\ pc = "next" /\ tree' = [table EXCEPT ![n] = Ours(at, 0)] /\ Here' = n
        /\ base' = rep.bytes_done /\ pc' \in {"parallel", "file"}
    BY <1>4 DEF BeginFile, IsNext, Here, PlaceOf, jobVars
  <2>3. DOMAIN table = Name
    BY DEF Made
  <2>. HIDE DEF n, table
  <2>4. tree'[n] = Ours(at, 0) /\ \A m \in Name \ {n} : tree'[m].bytes = table[m].bytes
    BY <1>1, <2>2, <2>3
  <2>5. tree'[n].bytes = 0 /\ Sizes(tree') /\ table[n].bytes \in Nat
    BY <1>1, <2>1, <2>4 DEF Ours, Sizes, table
  <2>6. Used(tree') \in Nat /\ Used(tree') + table[n].bytes = Used(table) + 0
    BY <1>1, <2>1, <2>4, <2>5, UsedChanges DEF table
  <2>7. Used(tree)' = Used(tree')
    BY DEF Used
  <2>8. Used(tree') <= base' + 0
    BY <1>2, <2>1, <2>2, <2>5, <2>6 DEF SpaceInv, table
  <2>9. File' = tree'[n]
    BY <2>2 DEF File
  <2>. QED
    BY <1>3, <2>2, <2>5, <2>7, <2>8, <2>9 DEF SpaceInv, InFile
<1>5. ASSUME NEW b \in Nat, tree' = [tree EXCEPT ![n].bytes = b]
      PROVE  /\ tree'[n].bytes = b
             /\ Used(tree') \in Nat /\ Used(tree') + tree[n].bytes = Used(tree) + b
  <2>. HIDE DEF n
  <2>1. tree'[n].bytes = b /\ \A m \in Name \ {n} : tree'[m].bytes = tree[m].bytes
    <3>1. tree[n] \in Thing /\ tree' = [tree EXCEPT ![n] = [tree[n] EXCEPT !.bytes = b]]
      BY <1>1, <1>2, <1>5
    <3>2. [tree[n] EXCEPT !.bytes = b].bytes = b
      BY <3>1, <1>5, ResizedThing
    <3>. QED
      BY <1>1, <1>2, <3>1, <3>2
  <2>2. Sizes(tree')
    BY <1>2, <1>5, <2>1 DEF Sizes
  <2>. QED
    BY <1>1, <1>2, <2>1, <2>2, UsedChanges
<1>. HIDE DEF n
<1>6. CASE Written /\ (WriteUnit \/ WorkersWrite)
  <2>1. /\ InFile /\ base' = base /\ Here' = n /\ pc' = pc
        /\ tree' = [tree EXCEPT ![n].bytes = tree[n].bytes + 1]
    BY <1>6 DEF WriteUnit, WorkersWrite, Written, InFile, walkVars, Here, PlaceOf, jobVars, n, File
  <2>2. tree'[n].bytes = tree[n].bytes + 1 /\ Used(tree') = Used(tree) + 1
    <3>1. tree[n].bytes + 1 \in Nat
      BY <1>2
    <3>2. /\ tree'[n].bytes = tree[n].bytes + 1 /\ Used(tree') \in Nat
          /\ Used(tree') + tree[n].bytes = Used(tree) + (tree[n].bytes + 1)
      BY <1>5, <2>1, <3>1
    <3>. QED
      BY <1>2, <3>2
  <2>3. Used(tree)' = Used(tree') /\ File' = tree'[n] /\ File = tree[n]
    BY <2>1 DEF Used, File, n
  <2>4. Used(tree') <= base' + File'.bytes
    BY <1>2, <2>1, <2>2, <2>3 DEF SpaceInv
  <2>. QED
    BY <1>3, <2>1, <2>3, <2>4 DEF SpaceInv, InFile
<1>7. CASE tree' = tree /\ (PollWorkers \/ WorkersWrite)
  <2>1. /\ InFile /\ base' = base /\ File' = File /\ pc' = pc /\ tree' = tree
    BY <1>7 DEF PollWorkers, WorkersWrite, InFile, walkVars, File, Here, PlaceOf, jobVars
  <2>2. Used(tree)' = Used(tree)
    BY <2>1 DEF Used
  <2>. QED
    BY <1>3, <2>1, <2>2 DEF SpaceInv, InFile
<1>8. CASE StartOver
  <2>1. /\ InFile /\ base' = base /\ Here' = n /\ pc' = "file"
        /\ tree' = [tree EXCEPT ![n].bytes = 0]
    BY <1>8 DEF StartOver, InFile, Here, PlaceOf, jobVars, n
  <2>2. tree'[n].bytes = 0 /\ Used(tree') \in Nat /\ Used(tree') + tree[n].bytes = Used(tree) + 0
    BY <1>5, <2>1
  <2>3. Used(tree)' = Used(tree') /\ File' = tree'[n] /\ File = tree[n]
    BY <2>1 DEF Used, File, n
  <2>4. Used(tree') <= base' + File'.bytes
    BY <1>2, <2>1, <2>2, <2>3 DEF SpaceInv
  <2>. QED
    BY <1>3, <2>1, <2>3, <2>4 DEF SpaceInv, InFile
<1>9. CASE EndFile
  <2>1. /\ InFile /\ pc' = "next" /\ tree' = tree
        /\ rep' = [[rep EXCEPT !.files_written = rep.files_written + 1,
                               !.bytes_done = base + File.bytes]
                     EXCEPT !.entries_done = @ + 1]
    BY <1>9 DEF EndFile, EntryDone, InFile
  <2>2. rep'.bytes_done = base + File.bytes
    BY <1>2, <2>1 DEF Report
  <2>3. Used(tree)' = Used(tree)
    BY <2>1 DEF Used
  <2>. QED
    BY <1>3, <2>1, <2>2, <2>3 DEF SpaceInv, InFile
<1>. QED
  BY <1>4, <1>6, <1>7, <1>8, <1>9 DEF WriteUnit, WorkersWrite, PollWorkers

(* Directories and links take no space, and what is skipped takes none.    *)
LEMMA SpaceOfOthers ==
  ASSUME ExtractInv, SpaceInv, MakeDest \/ ExtractDir \/ SkipEntry \/ MakeLink
  PROVE  SpaceInv'
<1>1. /\ pc \in {"dest", "next"} /\ pc' = "next" /\ free' = free
      /\ rep'.bytes_total = rep.bytes_total /\ rep'.bytes_done = rep.bytes_done
  <2>1. rep \in Report
    BY DEF ExtractInv, ExtractTyped
  <2>. QED
    BY <2>1 DEF MakeDest, ExtractDir, SkipEntry, MakeLink, IsNext, EntryDone, jobVars, Report
<1>2. Used(tree') = Used(tree)
  <2>1. CASE MakeDest
    <3>1. {Dest} \in SUBSET Name
      BY ExtractAssumption DEF Dest
    <3>. QED
      BY <2>1, <3>1, SizesFacts DEF MakeDest
  <2>2. CASE ExtractDir
    <3>. DEFINE P == Above(Here) \cup {Here}
    <3>1. tree' = Made(P) /\ P \in SUBSET Name
      BY <2>2, HereFacts DEF ExtractDir, IsNext
    <3>. HIDE DEF P
    <3>. QED
      BY <3>1, SizesFacts
  <2>3. CASE SkipEntry
    BY <2>3 DEF SkipEntry
  <2>4. CASE MakeLink
    <3>1. /\ tree' = [tree EXCEPT ![Here] = OurLink(at)] /\ tree[Here] = Nothing
          /\ Here \in Name
      BY <2>4, HereFacts DEF MakeLink, IsNext
    <3>2. \A n \in Name : tree'[n].bytes = tree[n].bytes
      <4>1. tree \in [Name -> Thing] /\ OurLink(at).bytes = 0 /\ Nothing.bytes = 0
        BY DEF ExtractInv, ExtractTyped, OurLink, Nothing
      <4>. QED
        BY <3>1, <4>1
    <3>. QED
      BY <3>2, SizesFacts, UsedStays
  <2>. QED
    BY <2>1, <2>2, <2>3, <2>4
<1>3. Used(tree)' = Used(tree')
  BY DEF Used
<1>4. pc = "dest" => Used(tree) = 0 /\ rep.bytes_done = 0
  <2>. SUFFICES ASSUME pc = "dest" PROVE Used(tree) = 0 /\ rep.bytes_done = 0
    OBVIOUS
  <2>1. tree = before /\ before \in Trees /\ ~Extracting /\ ~InFile
    BY DEF ExtractInv, WalkOK, ExtractTyped, Extracting, InFile
  <2>2. \A n \in Name : tree[n].bytes = 0
    BY <2>1, TreesFacts DEF Nothing, Dir, Old, OldLink
  <2>. QED
    BY <2>1, <2>2, NothingUsed DEF ExtractInv, CountersOK
<1>. QED
  BY <1>1, <1>2, <1>3, <1>4 DEF SpaceInv, InFile

(* When the job ends, directories at most have come to what was there.     *)
LEMMA SpaceAtEnd ==
  ASSUME ExtractInv, SpaceInv,
         EntryRejected \/ PreflightFails \/ JobDone \/ CannotMake \/ JobFails
  PROVE  SpaceInv'
<1>1. /\ pc # "done" /\ pc' = "done" /\ rep' = rep /\ free' = free /\ before' = before
      /\ pc \in {"scan", "check", "dest"} => tree' = tree
  BY DEF EntryRejected, PreflightFails, JobDone, CannotMake, JobFails, Finish, IsNext, Unwritten,
         jobVars
<1>2. Used(tree') = Used(tree)
  <2>1. CASE CannotMake
    <3>1. PICK m \in Above(Here) \cup {Here} : tree' = Made(Above(m))
      BY <2>1 DEF CannotMake
    <3>2. m \in Name /\ Above(m) \in SUBSET Name
      BY <2>1, <3>1, HereFacts, AboveFacts DEF CannotMake, IsNext
    <3>. QED
      BY <3>1, <3>2, SizesFacts
  <2>2. CASE tree' = tree
    BY <2>2
  <2>. QED
    BY <2>1, <2>2 DEF EntryRejected, PreflightFails, JobDone, JobFails, Unwritten
<1>3. Used(tree)' = Used(tree')
  BY DEF Used
<1>4. CASE pc \in {"scan", "check", "dest"}
  BY <1>1, <1>4 DEF SpaceInv, InFile, ExtractInv, WalkOK
<1>5. CASE pc \in {"next", "parallel", "file"}
  BY <1>1, <1>2, <1>3, <1>5, UsedIsAnnounced DEF SpaceInv, InFile
<1>. QED
  BY <1>1, <1>4, <1>5 DEF ExtractInv, ExtractTyped

(* The invariant about space holds throughout every job. *)
THEOREM SpaceInvariant == ExtractSpec => []SpaceInv
<1>1. ExtractInit => SpaceInv
  BY DEF ExtractInit, SpaceInv, InFile
<1>2. ExtractInv /\ ExtractInv' /\ SpaceInv /\ [ExtractNext]_extractVars => SpaceInv'
  <2>. SUFFICES ASSUME ExtractInv, ExtractInv', SpaceInv, [ExtractNext]_extractVars
                PROVE  SpaceInv'
    OBVIOUS
  <2>1. CASE ScanEntry \/ ScanEnds
    BY <2>1 DEF ScanEntry, ScanEnds, Unwritten, jobVars, ExtractInv, WalkOK, SpaceInv, InFile
  <2>2. CASE CheckPasses
    <3>1. rep.bytes_total + margin <= free
      <4>1. free \in Nat /\ margin \in Nat /\ rep.bytes_total \in Nat
        BY LimitAssumption DEF ExtractInv, ExtractTyped, Report
      <4>. QED
        BY <2>2, <4>1 DEF CheckPasses, Fits
    <3>. QED
      BY <2>2, <3>1 DEF CheckPasses, Unwritten, jobVars, ExtractInv, WalkOK, SpaceInv, InFile
  <2>3. CASE MakeDest \/ ExtractDir \/ SkipEntry \/ MakeLink
    BY <2>3, SpaceOfOthers
  <2>4. CASE BeginFile \/ WriteUnit \/ WorkersWrite \/ PollWorkers \/ StartOver \/ EndFile
    BY <2>4, SpaceOfFile
  <2>5. CASE EntryRejected \/ PreflightFails \/ JobDone \/ CannotMake \/ JobFails
    BY <2>5, SpaceAtEnd
  <2>6. CASE UNCHANGED extractVars
    <3>1. Used(tree)' = Used(tree) /\ File' = File
      BY <2>6 DEF Used, File, Here, PlaceOf, extractVars, jobVars, walkVars
    <3>. QED
      BY <2>6, <3>1 DEF SpaceInv, InFile, extractVars, jobVars, walkVars
  <2>. QED
    BY <2>1, <2>2, <2>3, <2>4, <2>5, <2>6 DEF ExtractNext
<1>. QED
  BY <1>1, <1>2, ExtractInvariant, PTL DEF ExtractSpec

(* Up to their declared ends the files of a job never take more than the   *)
(* preflight compared with the free space, whatever their streams hold;    *)
(* what workers write past the end of one is gone before the next one is   *)
(* begun (check_space, file_sink_write, extract_one_file).                 *)
THEOREM MarginStaysFree == ExtractSpec => []MarginKept
<1>1. ExtractInv /\ BeyondInv /\ SpaceInv => MarginKept
  <2>. SUFFICES ASSUME ExtractInv, SpaceInv, tree # before PROVE Used(tree) + margin <= free
    BY DEF MarginKept, BeyondInv
  <2>1. rep.bytes_total + margin <= free /\ Used(tree) \in Nat
    BY SizesFacts DEF SpaceInv
  <2>2. rep.bytes_total \in Nat /\ margin \in Nat /\ free \in Nat
    BY LimitAssumption DEF ExtractInv, ExtractTyped, Report
  <2>3. Used(tree) <= rep.bytes_total
    <3>1. pc \notin {"scan", "check", "dest"}
      BY DEF ExtractInv, WalkOK
    <3>2. CASE pc = "done"
      BY <3>2 DEF SpaceInv
    <3>3. CASE pc # "done"
      BY <3>1, <3>3, UsedIsAnnounced DEF ExtractInv, ExtractTyped
    <3>. QED
      BY <3>2, <3>3
  <2>. QED
    BY <2>1, <2>2, <2>3
<1>. QED
  BY <1>1, ExtractInvariant, BeyondInvariant, SpaceInvariant, PTL

-------------------------------------------------------------------------------
(* Links.  What ua_path_check_symlink counts is how deep below the         *)
(* destination the path is that the link leads along.                      *)

(* A sequence that gets longer. *)
LEMMA AppendFacts ==
  ASSUME NEW S, NEW s \in Seq(S), NEW e \in S
  PROVE  Append(s, e) \in Seq(S) /\ Len(Append(s, e)) = Len(s) + 1
OBVIOUS

(* The two folds, as sequences of what they have reached. *)
Levels(f, d, parts) ==
  f[0] = d /\ \A i \in 1..Len(parts) : f[i] = Level(f[i - 1], parts[i])
Places(g, from, parts) ==
  g[0] = from /\ \A i \in 1..Len(parts) : g[i] = WalkOn(g[i - 1], parts[i])

(* The depth that is counted is what the fold has counted at its end. *)
LEMMA LevelsExist ==
  ASSUME NEW parts \in Seq(STRING), NEW d \in 0..UA_MAX_PATH_COMPONENTS
  PROVE  \E f : Levels(f, d, parts) /\ FoldLeft(Level, d, parts) = f[Len(parts)]
<1>. DEFINE n == Len(parts)
            D == 0..(UA_MAX_PATH_COMPONENTS + 2)
            step == [p \in (1..n) \X D |-> Level(p[2], parts[p[1]])]
<1>1. UA_MAX_PATH_COMPONENTS \in Nat \ {0} /\ n \in Nat /\ DOMAIN parts = 1..n /\ d \in D
  BY PathAssumption
<1>2. step \in [(1..n) \X D -> D]
  <2>1. \A k \in D : \A c : Level(k, c) \in D
    BY <1>1 DEF Level, Escaped, TooDeep
  <2>. QED
    BY <2>1
<1>3. \A i \in 1..n, k \in D : step[<<i, k>>] = Level(k, parts[i])
  OBVIOUS
<1>. HIDE DEF D, step, n
<1>4. PICK F : GoesLeft(F, n, D, d, step)
  BY <1>1, <1>2, LastFirst
<1>5. ASSUME NEW s \in SUBSET (1..n)
      PROVE  F[s] = IF s = {} THEN d ELSE Level(F[s \ {Max(s)}], parts[Max(s)])
  <2>1. CASE s = {}
    BY <1>4, <2>1 DEF GoesLeft
  <2>2. CASE s # {}
    <3>1. s \in SUBSET (0..n)
      OBVIOUS
    <3>2. Max(s) \in 1..n /\ F[s \ {Max(s)}] \in D
      BY <1>1, <1>4, <2>2, <3>1, MaxFacts DEF GoesLeft
    <3>3. F[s] = step[<<Max(s), F[s \ {Max(s)}]>>]
      BY <1>4, <2>2 DEF GoesLeft
    <3>. QED
      BY <1>3, <2>2, <3>2, <3>3
  <2>. QED
    BY <2>1, <2>2
<1>6. F = [s \in SUBSET DOMAIN parts |->
             IF s = {} THEN d ELSE Level(F[s \ {Max(s)}], parts[Max(s)])]
  BY <1>1, <1>4, <1>5 DEF GoesLeft
<1>7. PICK G : /\ G = [s \in SUBSET DOMAIN parts |->
                         IF s = {} THEN d ELSE Level(G[s \ {Max(s)}], parts[Max(s)])]
               /\ FoldLeft(Level, d, parts) = G[DOMAIN parts]
  BY <1>6 DEF FoldLeft, MapThenFoldSet
<1>. DEFINE f == [i \in 0..n |-> G[1..i]]
<1>8. f[0] = d
  BY <1>1, <1>7
<1>9. ASSUME NEW i \in 1..n PROVE f[i] = Level(f[i - 1], parts[i])
  <2>1. 1..i \in SUBSET (1..n) /\ 1..i # {} /\ Max(1..i) = i /\ (1..i) \ {i} = 1..(i - 1)
    BY <1>1, Unrolled
  <2>2. G[1..i] = Level(G[1..(i - 1)], parts[i])
    BY <1>1, <1>7, <2>1
  <2>. QED
    BY <1>1, <2>2
<1>. QED
  <2>1. Levels(f, d, parts)
    BY <1>8, <1>9 DEF Levels, n
  <2>2. FoldLeft(Level, d, parts) = f[Len(parts)]
    BY <1>1, <1>7 DEF n
  <2>. HIDE DEF f
  <2>. QED
    BY <2>1, <2>2

(* And where the path leads is where the fold has got at its end. *)
LEMMA PlacesExist ==
  ASSUME NEW parts \in Seq(STRING), NEW from \in Seq(STRING)
  PROVE  \E g : Places(g, from, parts) /\ FoldLeft(WalkOn, from, parts) = g[Len(parts)]
<1>. DEFINE n == Len(parts)
            D == Seq(STRING \cup {".."})
            step == [p \in (1..n) \X D |-> WalkOn(p[2], parts[p[1]])]
<1>1. n \in Nat /\ DOMAIN parts = 1..n /\ from \in D /\ \A i \in 1..n : parts[i] \in STRING
  <2>1. from \in D
    <3>1. Len(from) \in Nat /\ from \in [1..Len(from) -> STRING \cup {".."}]
      OBVIOUS
    <3>. QED
      BY <3>1
  <2>. QED
    BY <2>1
<1>2. step \in [(1..n) \X D -> D]
  <2>1. \A k \in D, c \in STRING : WalkOn(k, c) \in D
    <3>. TAKE k \in D, c \in STRING
    <3>1. Append(k, c) \in D /\ Outside \in D
      <4>1. c \in STRING \cup {".."}
        OBVIOUS
      <4>2. Append(k, c) \in D
        BY <4>1, AppendFacts
      <4>. QED
        BY <4>2 DEF Outside
    <3>2. k # <<>> => Front(k) \in D
      BY DEF Front
    <3>. HIDE DEF D
    <3>. QED
      BY <3>1, <3>2 DEF WalkOn, Follow
  <2>. QED
    BY <1>1, <2>1
<1>3. \A i \in 1..n, k \in D : step[<<i, k>>] = WalkOn(k, parts[i])
  OBVIOUS
<1>. HIDE DEF D, step, n
<1>4. PICK F : GoesLeft(F, n, D, from, step)
  BY <1>1, <1>2, LastFirst
<1>5. ASSUME NEW s \in SUBSET (1..n)
      PROVE  F[s] = IF s = {} THEN from ELSE WalkOn(F[s \ {Max(s)}], parts[Max(s)])
  <2>1. CASE s = {}
    BY <1>4, <2>1 DEF GoesLeft
  <2>2. CASE s # {}
    <3>1. s \in SUBSET (0..n)
      OBVIOUS
    <3>2. Max(s) \in 1..n /\ F[s \ {Max(s)}] \in D
      BY <1>1, <1>4, <2>2, <3>1, MaxFacts DEF GoesLeft
    <3>3. F[s] = step[<<Max(s), F[s \ {Max(s)}]>>]
      BY <1>4, <2>2 DEF GoesLeft
    <3>. QED
      BY <1>3, <2>2, <3>2, <3>3
  <2>. QED
    BY <2>1, <2>2
<1>6. F = [s \in SUBSET DOMAIN parts |->
             IF s = {} THEN from ELSE WalkOn(F[s \ {Max(s)}], parts[Max(s)])]
  BY <1>1, <1>4, <1>5 DEF GoesLeft
<1>7. PICK G : /\ G = [s \in SUBSET DOMAIN parts |->
                         IF s = {} THEN from ELSE WalkOn(G[s \ {Max(s)}], parts[Max(s)])]
               /\ FoldLeft(WalkOn, from, parts) = G[DOMAIN parts]
  BY <1>6 DEF FoldLeft, MapThenFoldSet
<1>. DEFINE g == [i \in 0..n |-> G[1..i]]
<1>8. g[0] = from
  BY <1>1, <1>7
<1>9. ASSUME NEW i \in 1..n PROVE g[i] = WalkOn(g[i - 1], parts[i])
  <2>1. 1..i \in SUBSET (1..n) /\ 1..i # {} /\ Max(1..i) = i /\ (1..i) \ {i} = 1..(i - 1)
    BY <1>1, Unrolled
  <2>2. G[1..i] = WalkOn(G[1..(i - 1)], parts[i])
    BY <1>1, <1>7, <2>1
  <2>. QED
    BY <1>1, <2>2
<1>. QED
  <2>1. Places(g, from, parts)
    BY <1>8, <1>9 DEF Places, n
  <2>2. FoldLeft(WalkOn, from, parts) = g[Len(parts)]
    BY <1>1, <1>7 DEF n
  <2>. HIDE DEF g
  <2>. QED
    BY <2>1, <2>2

(* One component more: as long as the count has neither escaped nor run    *)
(* too deep, it is the depth of the place.                                 *)
Inside == Seq(STRING \ {".."})
Counts(depth, place) ==
  depth \notin {Escaped, TooDeep} => place \in Inside /\ Len(place) = depth

(* A place inside is not outside. *)
LEMMA InsideIsBelow ==
  ASSUME NEW place \in Inside
  PROVE  place # Outside
<1>. SUFFICES ASSUME place = Outside PROVE FALSE
  OBVIOUS
<1>1. Len(place) = 1 /\ place[1] = ".."
  BY DEF Outside
<1>2. place[1] \in STRING \ {".."}
  BY <1>1 DEF Inside
<1>. QED
  BY <1>1, <1>2

(* The count goes on as the path does. *)
LEMMA CountsOn ==
  ASSUME NEW depth \in 0..(UA_MAX_PATH_COMPONENTS + 2), NEW place, NEW c \in STRING,
         Counts(depth, place)
  PROVE  Counts(Level(depth, c), Follow(place, c))
<1>1. UA_MAX_PATH_COMPONENTS \in Nat \ {0}
  BY PathAssumption
<1>. SUFFICES ASSUME Level(depth, c) \notin {Escaped, TooDeep}
              PROVE  Follow(place, c) \in Inside /\ Len(Follow(place, c)) = Level(depth, c)
  BY DEF Counts
<1>2. depth \notin {Escaped, TooDeep}
  BY DEF Level
<1>3. place \in Inside /\ Len(place) = depth
  BY <1>2 DEF Counts
<1>4. place # Outside
  BY <1>3, InsideIsBelow
<1>5. CASE c \in {"", "."}
  BY <1>2, <1>3, <1>5 DEF Level, Follow, IsName
<1>6. CASE c = ".."
  <2>1. depth # 0 /\ Level(depth, c) = depth - 1
    BY <1>2, <1>6 DEF Level, IsName
  <2>2. place # <<>> /\ Follow(place, c) = Front(place)
    BY <1>3, <1>4, <1>6, <2>1 DEF Follow
  <2>3. Front(place) \in Inside /\ Len(Front(place)) = Len(place) - 1
    BY <1>3, <2>2 DEF Front, Inside
  <2>. QED
    BY <1>3, <2>1, <2>2, <2>3
<1>7. CASE c \notin {"", ".", ".."}
  <2>1. Level(depth, c) = depth + 1
    BY <1>2, <1>7 DEF Level, IsName
  <2>2. Follow(place, c) = Append(place, c)
    BY <1>4, <1>7 DEF Follow
  <2>3. Append(place, c) \in Inside /\ Len(Append(place, c)) = Len(place) + 1
    <3>1. c \in STRING \ {".."} /\ place \in Seq(STRING \ {".."})
      BY <1>3, <1>7 DEF Inside
    <3>. QED
      BY <3>1, AppendFacts DEF Inside
  <2>. QED
    BY <1>3, <2>1, <2>2, <2>3
<1>. QED
  BY <1>5, <1>6, <1>7

(* A target that ua_path_check_symlink accepts leads to where it may, or   *)
(* to another link.                                                        *)
LEMMA CheckedStaysBelow ==
  ASSUME NEW link, LinkDepth(link) \in 0..UA_MAX_PATH_COMPONENTS,
         Front(link) \in Inside, Len(Front(link)) = LinkDepth(link),
         NEW target \in [parts : Seq(STRING), anchored : BOOLEAN],
         CheckSymlink(link, target)
  PROVE  StaysBelow(LeadsTo(Front(link), target))
<1>. DEFINE parts == target.parts
            n == Len(parts)
            d == LinkDepth(link)
<1>1. /\ UA_MAX_PATH_COMPONENTS \in Nat \ {0} /\ parts \in Seq(STRING) /\ n \in Nat
      /\ \A i \in 1..n : parts[i] \in STRING
      /\ Front(link) \in Seq(STRING)
  BY PathAssumption DEF Inside
<1>2. PICK f : Levels(f, d, parts) /\ FoldLeft(Level, d, parts) = f[n]
  BY <1>1, LevelsExist
<1>3. PICK g : Places(g, Front(link), parts) /\ FoldLeft(WalkOn, Front(link), parts) = g[n]
  BY <1>1, PlacesExist
<1>. DEFINE OK(i) == /\ f[i] \in 0..(UA_MAX_PATH_COMPONENTS + 2)
                     /\ Counts(f[i], g[i]) \/ IsLink(g[i])
            Bad == {i \in 0..n : ~OK(i)}
<1>. HIDE DEF parts, n, d
<1>4. Bad = {}
  <2>. SUFFICES ASSUME Bad # {} PROVE FALSE
    OBVIOUS
  <2>1. PICK i \in Bad : \A j \in Bad : i <= j
    <3>1. Bad \in SUBSET Nat
      BY <1>1
    <3>. HIDE DEF Bad
    <3>. QED
      BY <3>1, LeastNumber
  <2>2. i # 0
    <3>1. OK(0)
      BY <1>1, <1>2, <1>3 DEF Levels, Places, Counts, d
    <3>. QED
      BY <2>1, <3>1
  <2>3. i \in 1..n /\ i - 1 \in 0..n /\ OK(i - 1)
    BY <1>1, <2>1, <2>2
  <2>4. f[i] = Level(f[i - 1], parts[i]) /\ g[i] = WalkOn(g[i - 1], parts[i])
        /\ parts[i] \in STRING
    BY <1>1, <1>2, <1>3, <2>3 DEF Levels, Places, n
  <2>5. \A k \in 0..(UA_MAX_PATH_COMPONENTS + 2) : \A c :
          Level(k, c) \in 0..(UA_MAX_PATH_COMPONENTS + 2)
    BY <1>1 DEF Level, Escaped, TooDeep
  <2>6. OK(i)
    <3>1. CASE IsLink(g[i - 1])
      BY <2>3, <2>4, <2>5, <3>1 DEF WalkOn
    <3>2. CASE ~IsLink(g[i - 1])
      <4>1. g[i] = Follow(g[i - 1], parts[i]) /\ Counts(f[i - 1], g[i - 1])
        BY <2>3, <2>4, <3>2 DEF WalkOn
      <4>. QED
        BY <2>3, <2>4, <2>5, <4>1, CountsOn
    <3>. QED
      BY <3>1, <3>2
  <2>. QED
    BY <2>1, <2>6
<1>5. OK(n)
  BY <1>1, <1>4
<1>6. ~target.anchored /\ f[n] \notin {Escaped, TooDeep}
  BY <1>2 DEF CheckSymlink, parts, n, d
<1>7. g[n] \in Inside \/ IsLink(g[n])
  BY <1>5, <1>6 DEF Counts
<1>8. g[n] # Outside
  BY <1>7, InsideIsBelow DEF IsLink
<1>. QED
  BY <1>3, <1>6, <1>8 DEF LeadsTo, StaysBelow, parts, n

(* The links that the job has made have been checked. *)
LinkInv ==
  \A n \in Name : tree[n].kind = "link" /\ tree[n] # OldLink =>
     /\ tree[n].by \in DOMAIN entries /\ Len(n) = 1
     /\ CheckSymlink(n, entries[tree[n].by].target)

(* Every step but one leaves at each place what was there, or something    *)
(* that is not a link; MakeLink checks the target again.                   *)
LEMMA LinkStep ==
  ASSUME ExtractInv, LinkInv, [ExtractNext]_extractVars
  PROVE  LinkInv'
<1>1. entries' = entries
  BY DEF ExtractNext, ScanEntry, ScanEnds, CheckPasses, EntryRejected, PreflightFails, MakeDest,
         ExtractDir, SkipEntry, MakeLink, BeginFile, WriteUnit, WorkersWrite, PollWorkers,
         StartOver, EndFile, JobDone, CannotMake, JobFails, Unwritten, jobVars, extractVars
<1>2. tree \in [Name -> Thing]
  BY DEF ExtractInv, ExtractTyped
<1>3. ASSUME \A n \in Name : tree'[n] = tree[n] \/ tree'[n].kind # "link"
      PROVE  LinkInv'
  BY <1>1, <1>3 DEF LinkInv
<1>4. ASSUME NEW P, tree' = Made(P) PROVE LinkInv'
  <2>1. \A n \in Name : tree'[n] = tree[n] \/ tree'[n].kind # "link"
    BY <1>4 DEF Made, Dir
  <2>. QED
    BY <1>3, <2>1
<1>5. CASE tree' = tree
  BY <1>3, <1>5
<1>6. CASE MakeDest \/ ExtractDir \/ CannotMake
  BY <1>4, <1>6 DEF MakeDest, ExtractDir, CannotMake
<1>7. CASE BeginFile
  <2>1. /\ tree' = [Made(Above(Here)) EXCEPT ![Here] = Ours(at, 0)] /\ Here \in Name
    BY <1>7, HereFacts DEF BeginFile, IsNext
  <2>2. \A n \in Name : tree'[n] = tree[n] \/ tree'[n].kind # "link"
    BY <2>1 DEF Made, Dir, Ours
  <2>. QED
    BY <1>3, <2>2
<1>8. CASE (Written /\ (WriteUnit \/ WorkersWrite)) \/ StartOver
  <2>1. InFile /\ Here \in Name /\ tree[Here] \in Thing /\ tree[Here].kind = "file"
    <3>1. InFile
      BY <1>8 DEF WriteUnit, WorkersWrite, StartOver, InFile
    <3>2. at <= Len(entries)
      BY <3>1 DEF ExtractInv, WalkOK
    <3>. QED
      BY <1>2, <3>1, <3>2, HereFacts DEF InFile, ExtractInv, FileInHand, File
  <2>2. \E b \in Nat : tree' = [tree EXCEPT ![Here] = [tree[Here] EXCEPT !.bytes = b]]
    <3>1. tree[Here].bytes \in Nat
      BY <2>1 DEF Thing
    <3>2. CASE Written
      <4>1. tree' = [tree EXCEPT ![Here] = [tree[Here] EXCEPT !.bytes = tree[Here].bytes + 1]]
        BY <3>2 DEF Written
      <4>2. tree[Here].bytes + 1 \in Nat
        BY <3>1
      <4>. QED
        BY <4>1, <4>2
    <3>3. CASE StartOver
      <4>1. tree' = [tree EXCEPT ![Here] = [tree[Here] EXCEPT !.bytes = 0]]
        BY <3>3 DEF StartOver
      <4>. QED
        BY <4>1
    <3>. QED
      BY <1>8, <3>2, <3>3
  <2>3. \A n \in Name : tree'[n] = tree[n] \/ tree'[n].kind # "link"
    BY <1>2, <2>1, <2>2, ResizedThing
  <2>. QED
    BY <1>3, <2>3
<1>9. CASE MakeLink
  <2>1. /\ at \in 1..Len(entries) /\ Here \in Name /\ entries[at].kind = "link"
        /\ entries[at] \in Entry /\ CheckSymlink(Here, LinkTarget(entries[at]))
        /\ tree' = [tree EXCEPT ![Here] = OurLink(at)]
    BY <1>9, HereFacts DEF MakeLink, IsNext
  <2>2. Len(Here) = 1 /\ DOMAIN entries = 1..Len(entries)
    BY <2>1, EntryFacts, ArchiveFacts DEF Here, ExtractInv, ExtractTyped
  <2>3. CheckSymlink(Here, entries[at].target)
    BY <2>1 DEF LinkTarget, CheckSymlink, Path
  <2>. SUFFICES ASSUME NEW n \in Name, tree'[n].kind = "link", tree'[n] # OldLink
                PROVE  /\ tree'[n].by \in DOMAIN entries /\ Len(n) = 1
                       /\ CheckSymlink(n, entries[tree'[n].by].target)
    BY <1>1 DEF LinkInv, OldLink
  <2>4. CASE n = Here
    BY <1>2, <2>1, <2>2, <2>3, <2>4 DEF OurLink
  <2>5. CASE n # Here
    BY <1>2, <2>1, <2>5 DEF LinkInv
  <2>. QED
    BY <2>4, <2>5
<1>. QED
  BY <1>5, <1>6, <1>7, <1>8, <1>9
  DEF ExtractNext, ScanEntry, ScanEnds, CheckPasses, EntryRejected, PreflightFails, SkipEntry,
      WriteUnit, WorkersWrite, PollWorkers, EndFile, JobDone, JobFails, Unwritten, extractVars

(* No link that a job makes leads out of the destination by itself,        *)
(* whatever is written in its target and whatever other links there are:   *)
(* followed until it ends or meets one, it stays inside                    *)
(* (ua_path_check_symlink).                                                *)
THEOREM LinksStayInside == ExtractSpec => []LinksLeadInside
<1>1. ExtractInit => LinkInv
  BY TreesFacts DEF ExtractInit, LinkInv, Nothing, Dir, Old
<1>2. ExtractInv /\ LinkInv => LinksLeadInside
  <2>. SUFFICES ASSUME ExtractInv, LinkInv, NEW n \in Name,
                       tree[n].kind = "link", tree[n] # OldLink
                PROVE  StaysBelow(LeadsTo(Front(n), entries[tree[n].by].target))
    BY DEF LinksLeadInside, IsOurLink, TargetOf
  <2>. DEFINE target == entries[tree[n].by].target
  <2>1. /\ tree[n].by \in DOMAIN entries /\ Len(n) = 1 /\ CheckSymlink(n, target)
    BY DEF LinkInv
  <2>2. target \in [parts : Seq(STRING), anchored : BOOLEAN]
    <3>1. entries[tree[n].by] \in Entry
      BY <2>1, ArchiveFacts DEF ExtractInv, ExtractTyped
    <3>. QED
      BY <3>1, ExtractAssumption
  <2>3. n \in Seq(STRING)
    BY ExtractAssumption
  <2>4. Front(n) = <<>>
    BY <2>1, <2>3 DEF Front
  <2>5. /\ Front(n) \in Inside /\ Len(Front(n)) = 0 /\ LinkDepth(n) = 0
        /\ 0 \in 0..UA_MAX_PATH_COMPONENTS
    BY <2>1, <2>4, PathAssumption DEF Inside, LinkDepth
  <2>. HIDE DEF target
  <2>6. StaysBelow(LeadsTo(Front(n), target))
    BY <2>1, <2>2, <2>5, CheckedStaysBelow
  <2>. QED
    BY <2>6 DEF target
<1>. QED
  BY <1>1, <1>2, LinkStep, ExtractInvariant, PTL DEF ExtractSpec
===============================================================================
