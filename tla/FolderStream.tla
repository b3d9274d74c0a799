----------------------------- MODULE FolderStream -----------------------------
(***************************************************************************)
(* The sequential 7z decoder (src/backend/ua_be_7z.c): a cursor over the   *)
(* entries, and one open folder whose stream is decoded a buffer at a time.*)
(*                                                                         *)
(* Several files share a folder, a decode round yields what it yields, and *)
(* there is no way back in a stream: a surplus is kept for the next file,  *)
(* skipped entries are decoded and dropped, and a folder is begun again    *)
(* when the file wanted lies behind.  The caller walks the entries, wants  *)
(* some of them, once each, and may start the walk again.  For each it may *)
(* try the parallel decoder first (module ParallelDecode), which looks for *)
(* its seams through the same file handle as the folder that is open.      *)
(*                                                                         *)
(* A unit of data is <<folder, offset>>: what it is worth is the decoder's *)
(* business, which place it comes from is this module's.                   *)
(***************************************************************************)
EXTENDS Naturals, Sequences

CONSTANTS
  File,      \* the entries: folder (0 when there is no stream) and size
  BufSize,   \* most units that a decode round yields
  MaxWalks   \* bound: how often the walk is started again

ASSUME FolderAssumption ==
  /\ File \in Seq([folder : Nat, size : Nat])
  /\ \A i \in DOMAIN File : File[i].size > 0 => File[i].folder # 0
  /\ \A i, j, k \in DOMAIN File :
       i < k /\ k < j /\ File[i].folder = File[j].folder
         => File[k].folder \in {0, File[i].folder}
  /\ BufSize \in Nat \ {0} /\ MaxWalks \in Nat

VARIABLES
  cursor,       \* the next entry, from 1
  current,      \* the entry that next returned last; 0 when have_current = 0
  folder_open, folder,
  produced,     \* folder_produced
  out_buf,      \* the first out_have units of out_buf
  out_pos,
  in_place,     \* the archive's file handle is where the open folder left it
  pc,           \* "idle" | "skip" | "copy"
  want,         \* units of the current file still to be handed out
  outcome,      \* of extract_current: "none" (not called yet) | "ok" | "failed"
  got,          \* history: what the sink has taken of the current file
  begun,        \* history: folders begun since the walk began
  walks

walkVars   == <<cursor, current, walks>>
streamVars == <<folder_open, folder, produced, out_buf, out_pos, in_place>>
folderVars == <<walkVars, streamVars, pc, want, outcome, got, begun>>

FolderInit == /\ cursor = 1 /\ current = 0 /\ walks = 0
              /\ folder_open = FALSE /\ folder = 0 /\ produced = 0
              /\ out_buf = <<>> /\ out_pos = 0 /\ in_place = FALSE
              /\ pc = "idle" /\ want = 0 /\ outcome = "none" /\ got = <<>>
              /\ begun = <<>>

-------------------------------------------------------------------------------
(* What the header says: a file's place in the unpacked streams. *)
UnpackPositions[i \in 1..(Len(File) + 1)] ==
  IF i = 1 THEN 0 ELSE UnpackPositions[i - 1] + File[i - 1].size

Members(f) == {i \in DOMAIN File : File[i].folder = f}
FolderToFile(f) == CHOOSE i \in Members(f) : \A j \in Members(f) : i <= j
LastOf(f)       == CHOOSE i \in Members(f) : \A j \in Members(f) : i >= j

FileStart(i)  == UnpackPositions[i] - UnpackPositions[FolderToFile(File[i].folder)]
FolderSize(f) == UnpackPositions[LastOf(f) + 1] - UnpackPositions[FolderToFile(f)]

Available == Len(out_buf) - out_pos

(* What has been handed out, as opposed to decoded. *)
FOLDER_POS == produced - Available

Least(m, n) == IF m < n THEN m ELSE n

-------------------------------------------------------------------------------
(* sevenz_reset and sevenz_next.  The caller (ua_extract_run) gives the    *)
(* archive up at the first failure.                                        *)

Between == pc = "idle" /\ outcome # "failed"

Reset == /\ Between /\ walks < MaxWalks
         /\ walks' = walks + 1
         /\ cursor' = 1 /\ current' = 0
         /\ folder_open' = FALSE
         /\ outcome' = "none" /\ got' = <<>> /\ begun' = <<>>
         /\ UNCHANGED <<folder, produced, out_buf, out_pos, in_place, pc, want>>

Next == /\ Between /\ cursor <= Len(File)
        /\ current' = cursor
        /\ cursor' = cursor + 1
        /\ outcome' = "none" /\ got' = <<>>
        /\ UNCHANGED <<walks, streamVars, pc, want, begun>>

(* The end, or an entry whose name or folder this build cannot handle. *)
NoNext == /\ Between /\ current # 0
          /\ current' = 0
          /\ outcome' = "none" /\ got' = <<>>
          /\ UNCHANGED <<cursor, walks, streamVars, pc, want, begun>>

-------------------------------------------------------------------------------
(* sevenz_extract_current: find the stream, skip to the file, hand it out. *)

Wanted == pc = "idle" /\ current # 0 /\ outcome = "none"
Leave(r) == pc' = "idle" /\ outcome' = r

NothingToExtract == /\ Wanted /\ File[current].size = 0
                    /\ Leave("ok")
                    /\ UNCHANGED <<walkVars, streamVars, want, got, begun>>

(* Mutant of Alone: the folder ends with this file. *)
LastOfFolder(i) == i < Len(File) => File[i + 1].folder \notin {0, File[i].folder}

(* A folder that holds this one file: the next file is not of it, and is   *)
(* the first one of the next folder if there is one.                       *)
Alone(i) == /\ FolderToFile(File[i].folder) = i
            /\ i < Len(File) => File[i + 1].folder \notin {0, File[i].folder}

(* sevenz_extract_parallel: once it has read chunk headers it may still    *)
(* decline or fail, and then the caller goes on to extract_current; or its *)
(* workers write the whole file.                                           *)
TryParallel == /\ Wanted /\ File[current].size > 0 /\ Alone(current)
               /\ in_place' = FALSE
               /\ \/ UNCHANGED <<outcome, got>>
                  \/ /\ outcome' = "ok"
                     /\ got' = [i \in 1..File[current].size |->
                                   <<File[current].folder, FileStart(current) + i - 1>>]
               /\ UNCHANGED <<walkVars, folder_open, folder, produced, out_buf, out_pos,
                              pc, want, begun>>

Elsewhere(i) == \/ ~folder_open
                \/ folder # File[i].folder
                \/ FOLDER_POS > FileStart(i)

(* folder_begin drops whatever was buffered of the folder before. *)
BeginFolder == /\ Wanted /\ File[current].size > 0
               /\ Elsewhere(current)
               /\ folder_open' = TRUE
               /\ folder' = File[current].folder
               /\ produced' = 0
               /\ out_buf' = <<>> /\ out_pos' = 0 /\ in_place' = TRUE
               /\ begun' = Append(begun, folder')
               /\ pc' = "skip" /\ want' = File[current].size
               /\ UNCHANGED <<walkVars, outcome, got>>

(* No memory for the dictionary, bad properties, a seek that fails. *)
CannotBegin == /\ Wanted /\ File[current].size > 0
               /\ Elsewhere(current)
               /\ folder_open' = FALSE
               /\ produced' = 0
               /\ out_buf' = <<>> /\ out_pos' = 0 /\ in_place' = FALSE
               /\ Leave("failed")
               /\ UNCHANGED <<walkVars, folder, want, got, begun>>

GoOn == /\ Wanted /\ File[current].size > 0
        /\ ~Elsewhere(current)
        /\ pc' = "skip" /\ want' = File[current].size
        /\ UNCHANGED <<walkVars, streamVars, outcome, got, begun>>

(* Packed data from another place of the archive is another folder's.      *)
Decoded(n) == <<IF in_place THEN folder ELSE 0, n>>

(* folder_fill, once the buffer has run out: rounds that yield nothing are *)
(* repeated, a round that yields something ends it.                        *)
Hungry == /\ Available = 0
          /\ \/ pc = "skip" /\ FOLDER_POS < FileStart(current)
             \/ pc = "copy" /\ want > 0

Fill == /\ Hungry /\ produced < FolderSize(folder)
        /\ \E n \in 1..Least(BufSize, FolderSize(folder) - produced) :
             /\ out_buf' = [i \in 1..n |-> Decoded(produced + i - 1)]
             /\ produced' = produced + n
        /\ out_pos' = 0
        /\ UNCHANGED <<walkVars, folder_open, folder, in_place, pc, want, outcome,
                       got, begun>>

(* The packed data ends early, is damaged, cannot be read or stalls; or    *)
(* the folder is at its end.                                               *)
FillFails == /\ Hungry
             /\ out_buf' = <<>> /\ out_pos' = 0
             /\ Leave("failed")
             /\ UNCHANGED <<walkVars, folder_open, folder, produced, in_place, want, got, begun>>

(* Mutants of Skip: it trusts the buffer to reach as far as the file, it   *)
(* stops one unit short of it.                                             *)
SkipPastBuffer ==
  /\ pc = "skip" /\ FOLDER_POS < FileStart(current) /\ Available > 0
  /\ out_pos' = out_pos + (FileStart(current) - FOLDER_POS)
  /\ UNCHANGED <<walkVars, folder_open, folder, produced, out_buf, in_place, pc, want,
                 outcome, got, begun>>

SkipShort ==
  /\ pc = "skip" /\ FOLDER_POS < FileStart(current) /\ Available > 0
  /\ out_pos' = out_pos + Least(Available, FileStart(current) - FOLDER_POS - 1)
  /\ UNCHANGED <<walkVars, folder_open, folder, produced, out_buf, in_place, pc, want,
                 outcome, got, begun>>

(* folder_skip_to *)
Skip == /\ pc = "skip" /\ FOLDER_POS < FileStart(current) /\ Available > 0
        /\ out_pos' = out_pos + Least(Available, FileStart(current) - FOLDER_POS)
        /\ UNCHANGED <<walkVars, folder_open, folder, produced, out_buf, in_place, pc, want,
                       outcome, got, begun>>

Skipped == /\ pc = "skip" /\ FOLDER_POS >= FileStart(current)
           /\ pc' = "copy"
           /\ UNCHANGED <<walkVars, streamVars, want, outcome, got, begun>>

(* Mutant of Copy: the surplus of a round is dropped. *)
CopyDroppingSurplus ==
  /\ pc = "copy" /\ want > 0 /\ Available > 0
  /\ LET n == Least(Available, want)
     IN  /\ got' = got \o SubSeq(out_buf, out_pos + 1, out_pos + n)
         /\ out_pos' = Len(out_buf)
         /\ want' = want - n
  /\ UNCHANGED <<walkVars, folder_open, folder, produced, out_buf, in_place, pc, outcome, begun>>

Copy == /\ pc = "copy" /\ want > 0 /\ Available > 0
        /\ LET n == Least(Available, want)
           IN  /\ got' = got \o SubSeq(out_buf, out_pos + 1, out_pos + n)
               /\ out_pos' = out_pos + n
               /\ want' = want - n
        /\ UNCHANGED <<walkVars, folder_open, folder, produced, out_buf, in_place, pc, outcome,
                       begun>>

(* A write error: nothing is consumed. *)
SinkRefuses == /\ pc = "copy" /\ want > 0 /\ Available > 0
               /\ Leave("failed")
               /\ UNCHANGED <<walkVars, streamVars, want, got, begun>>

Copied == /\ pc = "copy" /\ want = 0
          /\ Leave("ok")
          /\ UNCHANGED <<walkVars, streamVars, want, got, begun>>

Extraction == \/ Fill \/ FillFails \/ Skip \/ Skipped \/ Copy \/ SinkRefuses \/ Copied
Caller == \/ Reset \/ Next \/ NoNext \/ NothingToExtract \/ TryParallel
          \/ BeginFolder \/ CannotBegin \/ GoOn

FolderNext == Caller \/ Extraction

FolderSpec == FolderInit /\ [][FolderNext]_folderVars

-------------------------------------------------------------------------------
FolderTypeOK ==
  /\ cursor \in 1..(Len(File) + 1) /\ current \in 0..Len(File) /\ walks \in 0..MaxWalks
  /\ {folder_open, in_place} \subseteq BOOLEAN
  /\ {folder, produced, want} \subseteq Nat
  /\ {out_buf, got} \subseteq Seq(Nat \X Nat)
  /\ out_pos \in 0..Len(out_buf) /\ Len(out_buf) <= BufSize
  /\ pc \in {"idle", "skip", "copy"}
  /\ outcome \in {"none", "ok", "failed"}
  /\ begun \in Seq(Nat)

(* Whatever was extracted, skipped or refused before, and wherever decode  *)
(* rounds end, a file gets the units of its own place in its own folder,   *)
(* in order: all of them when extract_current says UA_OK, a first part of  *)
(* them at any other time (folder_fill, folder_skip_to, FOLDER_POS).       *)
OwnBytes ==
  current # 0 =>
    /\ Len(got) <= File[current].size
    /\ \A i \in DOMAIN got : got[i] = <<File[current].folder, FileStart(current) + i - 1>>
    /\ outcome = "ok" => Len(got) = File[current].size

(* There is no decoding twice: one walk begins each folder once at most,   *)
(* whichever of its files are wanted and wherever the rounds end (the test *)
(* before folder_begin in sevenz_extract_current).                         *)
BegunOnce == \A i, j \in DOMAIN begun : begun[i] = begun[j] => i = j

(* An extraction ends: no combination of buffered, skipped and missing     *)
(* data makes it wait or spin for ever (folder_fill, folder_skip_to).      *)
ExtractionEnds == pc # "idle" ~> pc = "idle"
===============================================================================
