------------------------------ MODULE ExtractJob ------------------------------
(***************************************************************************)
(* One extraction job (src/core/ua_extract.c): a preflight that walks all  *)
(* entries and writes nothing, then a second walk that extracts them one   *)
(* by one, enforcing each declared size.  Whatever fails ends the job and  *)
(* leaves what is already extracted.                                       *)
(*                                                                         *)
(* An entry is what the checks of module PathRules and of the job can tell *)
(* apart: its path, its kind, for a link its target, its declared size and *)
(* the size its stream really has.  Links are entries directly below the   *)
(* destination.  A file may be attempted by the parallel decoder first;    *)
(* module ParallelDecode has the inside of that, and the one wrong UA_OK   *)
(* that can come of it.                                                    *)
(***************************************************************************)
EXTENDS PathRules

CONSTANTS
  Name,           \* places at and below the destination
  Entry,          \* the entries an archive can have
  TargetsAreRead, \* does the backend fill in link_target?
  allow_symlinks,
  MaxEntries,     \* bound: the longest archive
  Overwrites,     \* the values of the overwrite option to look at
  max_entries,
  progress_percent_step,
  archive_size, max_expansion_ratio, expansion_floor_bytes,
  margin,         \* min_free_margin_mb in bytes
  Free,           \* the free space the job may find
  UINT64_MAX

(* The directories that a place lies below. *)
Above(n) == {SubSeq(n, 1, k) : k \in 0..(Len(n) - 1)}

ASSUME ExtractAssumption ==
  /\ IsFiniteSet(Name) /\ Name \subseteq Seq(STRING) /\ <<>> \in Name
  /\ \A n \in Name : Above(n) \subseteq Name
  /\ \A e \in Entry :
       /\ DOMAIN e = {"path", "kind", "target", "size", "actual"}
       /\ {e.path, e.target} \subseteq [parts : Seq(STRING), anchored : BOOLEAN]
       /\ e.kind \in {"file", "dir", "link", "other"} /\ {e.size, e.actual} \subseteq Nat
       /\ e.kind = "link" => Len(Sanitized(e.path)) = 1
       /\ SanitizeEntry(e.path) /\ Len(Sanitized(e.path)) <= LongestBelow
            => Sanitized(e.path) \in Name

ASSUME LimitAssumption ==
  /\ {TargetsAreRead, allow_symlinks} \subseteq BOOLEAN
  /\ {MaxEntries, max_entries, archive_size, max_expansion_ratio,
      expansion_floor_bytes, margin, UINT64_MAX} \subseteq Nat
  /\ progress_percent_step \in 0..100 /\ Free \subseteq Nat
  /\ Overwrites \subseteq BOOLEAN

VARIABLES
  entries,   \* what the backend lists, the same on both walks
  free,      \* free_before
  overwrite, \* opt.overwrite
  tree,      \* what is at each place
  before,    \* history: the tree as the job found it
  pc,        \* "scan" | "check" | "dest" | "next" | "parallel" | "file" | "done"
  at,        \* the entry the walk has reached
  rep,       \* the counters of ua_job_report
  base,      \* rep.bytes_done when the current file was begun
  beyond,    \* what workers have put into it past its declared end
  last_pct,
  calls,     \* history: progress callbacks made
  result     \* "none" | "ok" | "failed"

walkVars    == <<pc, at, base>>
outputVars  == <<last_pct, calls>>
jobVars     == <<entries, free, overwrite, before>>
extractVars == <<jobVars, tree, beyond, rep, result, walkVars, outputVars>>

Dest       == <<>>
PlaceOf(e) == Sanitized(e.path)

Nothing == [kind |-> "none", by |-> 0, bytes |-> 0]
Dir     == [kind |-> "dir", by |-> 0, bytes |-> 0]
Old     == [kind |-> "file", by |-> 0, bytes |-> 0]   \* somebody else's
OldLink == [kind |-> "link", by |-> 0, bytes |-> 0]
Ours(i, n) == [kind |-> "file", by |-> i, bytes |-> n]
OurLink(i) == [kind |-> "link", by |-> i, bytes |-> 0]

(* A file system: what lies below a directory only. *)
BelowDirectories(t) == \A n \in Name : t[n] # Nothing => \A a \in Above(n) : t[a] = Dir
Trees == {t \in [Name -> {Nothing, Dir, Old, OldLink}] : BelowDirectories(t)}

Archives == UNION {[1..n -> Entry] : n \in 0..MaxEntries}

ExtractInit ==
  /\ entries \in Archives
  /\ free \in Free /\ overwrite \in Overwrites
  /\ tree \in Trees
  /\ before = tree
  /\ pc = "scan" /\ at = 1
  /\ rep = [entries_total |-> 0, bytes_total |-> 0, files_expected |-> 0,
            entries_done |-> 0, files_written |-> 0, bytes_done |-> 0]
  /\ base = 0 /\ beyond = 0
  /\ last_pct = 0 /\ calls = 0
  /\ result = "none"

Here == PlaceOf(entries[at])
File == tree[Here]

Finish(r) == pc' = "done" /\ result' = r

Unwritten == UNCHANGED <<jobVars, tree, outputVars, base, beyond>>

-------------------------------------------------------------------------------
(* Preflight: scan_archive, then the ratio and the space. *)

Counted(e) == [rep EXCEPT !.entries_total = @ + 1,
                          !.bytes_total = IF e.kind = "file" THEN @ + e.size ELSE @,
                          !.files_expected = IF e.kind = "file" THEN @ + 1 ELSE @]

(* A backend that does not read a link's target reports an empty one. *)
LinkTarget(e) == IF TargetsAreRead THEN e.target ELSE Path(<<>>)

Placeable(e, target) == /\ SanitizeEntry(e.path) /\ JoinChecked(PlaceOf(e))
                        /\ e.kind = "link" => CheckSymlink(PlaceOf(e), target)

(* Mutants of Acceptable: the sum may wrap, the path is not checked. *)
AcceptableUnbounded(e) ==
  rep.entries_total < max_entries /\ Placeable(e, LinkTarget(e))
AcceptableUnsafe(e) ==
  /\ rep.entries_total < max_entries
  /\ e.kind = "file" => e.size <= UINT64_MAX - rep.bytes_total

Acceptable(e) == /\ rep.entries_total < max_entries
                 /\ Placeable(e, LinkTarget(e))
                 /\ e.kind = "file" => e.size <= UINT64_MAX - rep.bytes_total

ScanEntry == /\ pc = "scan" /\ at <= Len(entries)
             /\ Acceptable(entries[at])
             /\ rep' = Counted(entries[at])
             /\ at' = at + 1
             /\ UNCHANGED <<pc, result>>
             /\ Unwritten

ScanEnds == /\ pc = "scan" /\ at > Len(entries)
            /\ pc' = "check"
            /\ UNCHANGED <<at, rep, result>>
            /\ Unwritten

IsBomb == /\ max_expansion_ratio > 0 /\ archive_size > 0
          /\ rep.bytes_total > expansion_floor_bytes
          /\ rep.bytes_total \div archive_size > max_expansion_ratio

(* Mutant of Fits: the margin is not added. *)
FitsExactly == free >= rep.bytes_total

Fits == /\ rep.bytes_total <= UINT64_MAX - margin
        /\ free >= rep.bytes_total + margin

CheckPasses == /\ pc = "check"
               /\ rep.entries_total > 0 /\ ~IsBomb /\ Fits
               /\ pc' = "dest"
               /\ UNCHANGED <<at, rep, result>>
               /\ Unwritten

EntryRejected == /\ pc = "scan" /\ at <= Len(entries)
                 /\ ~Acceptable(entries[at])
                 /\ Finish("rejected")
                 /\ UNCHANGED <<at, rep>>
                 /\ Unwritten

(* A failed check, or an archive that cannot be read. *)
PreflightFails == /\ pc \in {"scan", "check"}
                  /\ Finish("failed")
                  /\ UNCHANGED <<at, rep>>
                  /\ Unwritten

-------------------------------------------------------------------------------
(* Extraction *)

(* Mutant of Passable: a link is taken for what it leads to. *)
PassableLinks(places) == \A n \in places : tree[n] = Nothing \/ tree[n].kind \in {"dir", "link"}

(* ua_plat_mkdirs goes through directories only, and makes missing ones. *)
Passable(places) == \A n \in places : tree[n] \in {Nothing, Dir}
Made(places) == [n \in Name |-> IF n \in places /\ tree[n] = Nothing THEN Dir ELSE tree[n]]

(* maybe_progress, called with the counters as they have just become. *)
Percent(r) ==
  LET pct == IF r.bytes_total > 0 THEN (r.bytes_done * 100) \div r.bytes_total
             ELSE IF r.entries_total > 0 THEN (r.entries_done * 100) \div r.entries_total
             ELSE 0
  IN  IF pct > 100 THEN 100 ELSE pct

IsStep(r) == /\ progress_percent_step # 0
             /\ Percent(r) >= last_pct + progress_percent_step

MaybeProgress(r) ==
  IF IsStep(r)
  THEN /\ last_pct' = Percent(r) - (Percent(r) % progress_percent_step)
       /\ calls' = calls + 1
  ELSE UNCHANGED outputVars

MakeDest == /\ pc = "dest"
            /\ Passable({Dest})
            /\ tree' = Made({Dest})
            /\ pc' = "next" /\ at' = 1
            /\ UNCHANGED <<rep, base, outputVars, result>>
            /\ UNCHANGED <<jobVars, beyond>>

(* The entry is done with: ++entries_done and a progress report. *)
EntryDone(r) == /\ rep' = [r EXCEPT !.entries_done = @ + 1]
                /\ MaybeProgress(rep')
                /\ at' = at + 1

IsNext(kinds) == pc = "next" /\ at <= Len(entries) /\ entries[at].kind \in kinds

ExtractDir == /\ IsNext({"dir"})
              /\ LET places == Above(Here) \cup {Here}
                 IN  Passable(places) /\ tree' = Made(places)
              /\ EntryDone(rep)
              /\ UNCHANGED <<pc, base, result>>
              /\ UNCHANGED <<jobVars, beyond>>

(* Mutant of SkipEntry: a skipped entry is not counted as done. *)
SkipUncounted == /\ IsNext({"link", "other"})
                 /\ at' = at + 1
                 /\ UNCHANGED <<pc, base, tree, rep, outputVars, result>>
                 /\ UNCHANGED <<jobVars, beyond>>

SkipEntry == /\ IsNext({"link", "other"})
             /\ EntryDone(rep)
             /\ UNCHANGED <<pc, base, tree, result>>
             /\ UNCHANGED <<jobVars, beyond>>

(* ua_plat_symlink never replaces anything; where the platform has no links *)
(* or allow_symlinks is 0, the entry is skipped.                           *)
MakeLink == /\ IsNext({"link"})
            /\ allow_symlinks /\ CheckSymlink(Here, LinkTarget(entries[at]))
            /\ tree[Here] = Nothing
            /\ tree' = [tree EXCEPT ![Here] = OurLink(at)]
            /\ EntryDone(rep)
            /\ UNCHANGED <<pc, base, result>>
            /\ UNCHANGED <<jobVars, beyond>>

(* Mutant of BeginFile: the open is never exclusive. *)
BeginFileTruncating ==
  /\ IsNext({"file"})
  /\ LET n == Here
     IN  /\ Passable(Above(n))
         /\ tree[n].kind # "dir"
         /\ tree' = [Made(Above(n)) EXCEPT ![n] = Ours(at, 0)]
  /\ pc' \in {"parallel", "file"}
  /\ base' = rep.bytes_done
  /\ UNCHANGED <<at, rep, outputVars, result>>
  /\ UNCHANGED <<jobVars, beyond>>

(* extract_one_file: directories, then an exclusive or a truncating open. *)
BeginFile == /\ IsNext({"file"})
             /\ LET n == Here
                IN  /\ Passable(Above(n))
                    /\ tree[n].kind = "none" \/ (overwrite /\ tree[n].kind = "file")
                    /\ tree' = [Made(Above(n)) EXCEPT ![n] = Ours(at, 0)]
             /\ pc' \in {"parallel", "file"}
             /\ base' = rep.bytes_done
             /\ UNCHANGED <<at, rep, outputVars, result>>
             /\ UNCHANGED <<jobVars, beyond>>

(* A unit more in the file: file_sink_write refuses what goes past the     *)
(* declared size, and counts and reports what it has written.              *)
CanWrite == File.bytes < entries[at].size /\ File.bytes < entries[at].actual
Written  == tree' = [tree EXCEPT ![Here].bytes = @ + 1]
Reported(n) == rep' = [rep EXCEPT !.bytes_done = base + n] /\ MaybeProgress(rep')

WriteUnit == /\ pc = "file"
             /\ CanWrite
             /\ Written
             /\ Reported(File.bytes + 1)
             /\ UNCHANGED <<walkVars, result>>
             /\ UNCHANGED <<jobVars, beyond>>

(* Workers write on their own, where the stream sends them: nothing checks *)
(* that against the declared size while they do.  on_parallel_bytes        *)
(* reports what the poll has found, all of it or less.                     *)
WorkersWrite == /\ pc = "parallel"
                /\ \/ CanWrite /\ Written /\ UNCHANGED beyond
                   \/ /\ beyond + entries[at].size < entries[at].actual
                      /\ beyond' = beyond + 1
                      /\ UNCHANGED tree
                /\ UNCHANGED <<rep, outputVars, walkVars, result>>
                /\ UNCHANGED jobVars

PollWorkers == /\ pc = "parallel"
               /\ \E n \in (rep.bytes_done - base)..(File.bytes + beyond) : Reported(n)
               /\ UNCHANGED <<tree, walkVars, result>>
               /\ UNCHANGED <<jobVars, beyond>>

(* Mutant of StartOver: the reported percentage is taken back as well. *)
StartOverReporting ==
  /\ pc = "parallel"
  /\ pc' = "file"
  /\ tree' = [tree EXCEPT ![Here].bytes = 0]
  /\ beyond' = 0
  /\ rep' = [rep EXCEPT !.bytes_done = base]
  /\ last_pct' = 0
  /\ UNCHANGED <<at, base, calls, result>>
  /\ UNCHANGED jobVars

(* The parallel decoder failed or declined: truncate, take the count back, *)
(* start over.  last_pct stays where it was.                               *)
StartOver == /\ pc = "parallel"
             /\ pc' = "file"
             /\ tree' = [tree EXCEPT ![Here].bytes = 0]
             /\ beyond' = 0
             /\ rep' = [rep EXCEPT !.bytes_done = base]
             /\ UNCHANGED <<at, base, outputVars, result>>
             /\ UNCHANGED jobVars

(* Mutant of EndFile: a stream that ends early is accepted. *)
EndFileEarly == /\ pc \in {"parallel", "file"}
                /\ entries[at].actual <= File.bytes /\ beyond = 0
                /\ pc' = "next"
                /\ EntryDone([rep EXCEPT !.files_written = @ + 1,
                                      !.bytes_done = base + File.bytes])
                /\ UNCHANGED <<base, tree, result>>
                /\ UNCHANGED <<jobVars, beyond>>

(* All of the declared size is there.  A zip stream that goes on past it   *)
(* has failed the job by then; a 7z one is not read any further.           *)
EndFile == /\ pc \in {"parallel", "file"}
           /\ File.bytes = entries[at].size /\ beyond = 0
           /\ pc' = "next"
           /\ EntryDone([rep EXCEPT !.files_written = @ + 1,
                                 !.bytes_done = base + File.bytes])
           /\ UNCHANGED <<base, tree, result>>
           /\ UNCHANGED <<jobVars, beyond>>

JobDone == /\ pc = "next" /\ at > Len(entries)
           /\ Finish("ok")
           /\ UNCHANGED <<at, base, tree, rep, outputVars>>
           /\ UNCHANGED <<jobVars, beyond>>

(* A directory or the file cannot be made; those above it have been.  *)
CannotMake == /\ IsNext({"dir", "file"})
              /\ \E n \in Above(Here) \cup {Here} :
                   Passable(Above(n)) /\ tree' = Made(Above(n))
              /\ Finish("failed")
              /\ UNCHANGED <<at, base, rep, outputVars>>
              /\ UNCHANGED <<jobVars, beyond>>

(* The archive cannot be read, a stream is too short or too long, a write  *)
(* or a close fails: rep_fail, and what is there stays.                    *)
JobFails == /\ pc \in {"dest", "next", "parallel", "file"}
            /\ Finish("failed")
            /\ UNCHANGED <<at, base, tree, rep, outputVars>>
            /\ UNCHANGED <<jobVars, beyond>>

ExtractNext == \/ ScanEntry \/ ScanEnds \/ CheckPasses \/ EntryRejected \/ PreflightFails
               \/ MakeDest \/ ExtractDir \/ SkipEntry \/ MakeLink \/ BeginFile \/ WriteUnit
               \/ WorkersWrite \/ PollWorkers \/ StartOver \/ EndFile \/ JobDone
               \/ CannotMake \/ JobFails

ExtractSpec == ExtractInit /\ [][ExtractNext]_extractVars

-------------------------------------------------------------------------------
ExtractTypeOK ==
  /\ entries \in Archives /\ free \in Free /\ overwrite \in Overwrites
  /\ tree \in [Name -> [kind : {"none", "file", "dir", "link"}, by : 0..Len(entries), bytes : Nat]]
  /\ pc \in {"scan", "check", "dest", "next", "parallel", "file", "done"}
  /\ at \in 1..(Len(entries) + 1)
  /\ rep \in [entries_total : Nat, bytes_total : 0..UINT64_MAX, files_expected : Nat,
              entries_done : Nat, files_written : Nat, bytes_done : Nat]
  /\ base \in Nat /\ beyond \in Nat /\ last_pct \in 0..100 /\ calls \in Nat
  /\ result \in {"none", "ok", "rejected", "failed"}

(* ua_extract.h:96-97: "nothing is written at all when preflight fails".   *)
(* As soon as anything at the destination differs from before, every       *)
(* entry, the last one included, has passed its checks.                    *)
AllOrNothing == tree # before => \A i \in DOMAIN entries : Placeable(entries[i], entries[i].target)

(* FR-6, ua_driver.c:341-368: a job that ends with UA_OK satisfies what    *)
(* extraction_is_verified asks for, through skipped entries and files that *)
(* were started over, so that a verified delete is never withheld from it. *)
OkIsVerified ==
  result = "ok" => /\ rep.entries_done = rep.entries_total
                   /\ rep.files_written = rep.files_expected
                   /\ rep.bytes_done = rep.bytes_total

(* A job that ends with UA_OK has put every file of the archive in place   *)
(* with all of its bytes; of two entries for one path the later one.       *)
OkMeansExtracted ==
  result = "ok" =>
    \A i \in DOMAIN entries : entries[i].kind = "file" =>
      LET there == tree[PlaceOf(entries[i])]
      IN  there.kind = "file" /\ there.by >= i /\ there.bytes = entries[there.by].size

(* The space that the job's files take up to their declared ends.          *)
Used(t) ==
  LET Sum[s \in SUBSET Name] ==
        IF s = {} THEN 0
        ELSE LET n == CHOOSE m \in s : TRUE IN t[n].bytes + Sum[s \ {n}]
  IN  Sum[Name]

(* README.md:82, "It cannot fill your disk": nothing that the job writes   *)
(* ever goes into the margin that it was to leave free.                    *)
(* It fails of what workers write (README.md, disagreement 8).             *)
NeverFillsDisk == tree # before => Used(tree) + beyond + margin <= free

(* What the code does of that: the job goes into the margin only with what *)
(* workers write past the declared end of the one file that they are at,   *)
(* and that is gone again when they are done, unless the job ends there    *)
(* because the file cannot be reopened (check_space, file_sink_write, and  *)
(* extract_one_file, which truncates before it starts over).               *)
MarginKept == /\ tree # before => Used(tree) + margin <= free
              /\ beyond > 0 => pc = "parallel" \/ result = "failed"

(* A file the job did not create is only replaced when overwrite is set,   *)
(* and directories are never replaced (ua_plat_open_write, ua_plat_mkdirs).*)
NothingLost ==
  \A n \in Name : before[n] # Nothing /\ tree[n] # before[n]
                    => overwrite /\ before[n] = Old /\ tree[n].kind = "file"

(* docs/spec-gaps.md:128-130: "a planted link cannot redirect a write even *)
(* if it somehow got created".  Whatever links there were and whatever     *)
(* links entries have made, what the job writes lies below directories     *)
(* only (ua_plat_mkdirs, ua_plat_open_write).                              *)
NothingThroughLinks == BelowDirectories(tree)

(* ua_path.h:31-33: a link is made only if its target "stays inside the    *)
(* destination once resolved against the link's own directory".  So it     *)
(* does, as far as the target leads before it meets another link, whatever *)
(* other links there are by then (ua_path_check_symlink).                  *)
IsLink(place)         == place \in Name /\ place # Outside /\ tree[place].kind = "link"
WalkOn(place, c)      == IF IsLink(place) THEN place ELSE Follow(place, c)
LeadsTo(from, target) == IF target.anchored THEN Outside ELSE FoldLeft(WalkOn, from, target.parts)
TargetOf(n)           == entries[tree[n].by].target
IsOurLink(n)          == tree[n].kind = "link" /\ tree[n] # OldLink
LinksLeadInside ==
  \A n \in Name : IsOurLink(n) => StaysBelow(LeadsTo(Front(n), TargetOf(n)))

(* The same, with the links of the job that it meets resolved in their     *)
(* turn, as a file system does it, for LongestWalk components.             *)
(* LinksResolveInside fails (README.md, disagreement 9).                   *)
LongestWalk == 8
Resolve(walk, i) ==
  IF walk.rest = <<>> \/ walk.at = Outside THEN walk
  ELSE LET p == Follow(walk.at, Head(walk.rest))
       IN  IF IsLink(p) /\ IsOurLink(p)
           THEN [at |-> Front(p), rest |-> TargetOf(p).parts \o Tail(walk.rest)]
           ELSE [at |-> p, rest |-> Tail(walk.rest)]
ResolvesTo(n) == FoldLeft(Resolve, [at |-> Front(n), rest |-> TargetOf(n).parts],
                          [i \in 1..LongestWalk |-> i]).at
LinksResolveInside == \A n \in Name : IsOurLink(n) => StaysBelow(ResolvesTo(n))

(* docs/spec-gaps.md:116-122, ua_extract.c:183-186: an archive is refused  *)
(* for its entries only if one of them is really out of bounds; a link     *)
(* that stays inside is at most skipped.                                   *)
RefusedForCause ==
  result = "rejected" =>
    \/ Len(entries) > max_entries
    \/ \E i \in DOMAIN entries : ~Placeable(entries[i], entries[i].target)
    \/ rep.bytes_total + entries[at].size > UINT64_MAX

(* v2 4.6: progress is rate limited by percentage step, however many       *)
(* chunks and entries there are and however often a file is started over.  *)
RateLimited == calls * progress_percent_step <= 100
===============================================================================
