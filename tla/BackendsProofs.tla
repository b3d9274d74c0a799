----------------------------- MODULE BackendsProofs -----------------------------
(***************************************************************************)
(* Proofs about the decoders behind the backend table, for every archive,  *)
(* any size of a decode round, and any order in which entries are wanted,  *)
(* skipped, refused or tried in parallel.                                  *)
(***************************************************************************)
EXTENDS Backends, Induction

-------------------------------------------------------------------------------
(* The header: files, folders, and places in the unpacked streams. *)

(* The entries are numbered from 1; one with data has a folder. *)
LEMMA FileFacts ==
  /\ Len(File) \in Nat /\ DOMAIN File = 1..Len(File)
  /\ \A i \in 1..Len(File) : /\ File[i].folder \in Nat /\ File[i].size \in Nat
                             /\ File[i].size > 0 => File[i].folder # 0
  /\ BufSize \in Nat \ {0} /\ MaxWalks \in Nat
<1>. DEFINE Item == [folder : Nat, size : Nat]
<1>1. \A x \in Item : x.folder \in Nat /\ x.size \in Nat
  OBVIOUS
<1>2. File \in Seq(Item)
  BY FolderAssumption
<1>. HIDE DEF Item
<1>3. /\ Len(File) \in Nat /\ DOMAIN File = 1..Len(File)
      /\ \A i \in 1..Len(File) : File[i] \in Item
  BY <1>2
<1>. QED
  BY <1>1, <1>3, FolderAssumption

(* f holds the first n places that the sizes come to. *)
Positions(f, n) ==
  /\ f \in [1..n -> Nat]
  /\ \A i \in 1..n : f[i] = IF i = 1 THEN 0 ELSE f[i - 1] + File[i - 1].size

(* So the recursion has a solution. *)
LEMMA PositionsExist == \E f : Positions(f, Len(File) + 1)
<1>. DEFINE S == {n \in Nat : n <= Len(File) => \E f : Positions(f, n + 1)}
<1>1. 0 \in S
  <2>1. Positions([i \in 1..1 |-> 0], 1)
    BY DEF Positions
  <2>. QED
    BY <2>1
<1>2. ASSUME NEW n \in Nat, n \in S PROVE n + 1 \in S
  <2>. SUFFICES ASSUME n + 1 <= Len(File) PROVE \E f : Positions(f, n + 2)
    OBVIOUS
  <2>1. PICK f : Positions(f, n + 1)
    BY <1>2, FileFacts
  <2>. DEFINE g == [i \in 1..(n + 2) |-> IF i <= n + 1 THEN f[i]
                                         ELSE f[n + 1] + File[n + 1].size]
  <2>2. g \in [1..(n + 2) -> Nat]
    BY <2>1, FileFacts DEF Positions
  <2>3. \A i \in 1..(n + 2) : g[i] = IF i = 1 THEN 0 ELSE g[i - 1] + File[i - 1].size
    BY <2>1, FileFacts DEF Positions
  <2>. QED
    BY <2>2, <2>3 DEF Positions
<1>3. Len(File) \in S
  <2>1. Nat \subseteq S
    BY <1>1, <1>2, AllNumbers
  <2>. QED
    BY <2>1, FileFacts
<1>. QED
  BY <1>3

(* The places are numbers, and each is the one before and that file's size. *)
LEMMA UnpackFacts ==
  /\ \A i \in 1..(Len(File) + 1) : UnpackPositions[i] \in Nat
  /\ \A i \in 1..Len(File) : UnpackPositions[i + 1] = UnpackPositions[i] + File[i].size
<1>1. PICK f : Positions(f, Len(File) + 1)
  BY PositionsExist
<1>2. f = [i \in 1..(Len(File) + 1) |-> IF i = 1 THEN 0 ELSE f[i - 1] + File[i - 1].size]
  BY <1>1 DEF Positions
<1>3. UnpackPositions = [i \in 1..(Len(File) + 1) |->
                           IF i = 1 THEN 0 ELSE UnpackPositions[i - 1] + File[i - 1].size]
  BY <1>2 DEF UnpackPositions
<1>4. \A i \in 1..Len(File) : UnpackPositions[i + 1] = UnpackPositions[i] + File[i].size
  <2>. TAKE i \in 1..Len(File)
  <2>1. i + 1 \in 1..(Len(File) + 1) /\ i + 1 # 1 /\ (i + 1) - 1 = i
    BY FileFacts
  <2>. QED
    BY <1>3, <2>1
<1>. DEFINE S == {n \in Nat : n <= Len(File) => UnpackPositions[n + 1] \in Nat}
<1>5. 0 \in S
  BY <1>3, FileFacts
<1>6. ASSUME NEW n \in Nat, n \in S PROVE n + 1 \in S
  <2>. SUFFICES ASSUME n + 1 <= Len(File) PROVE UnpackPositions[n + 2] \in Nat
    OBVIOUS
  <2>1. UnpackPositions[n + 1] \in Nat
    BY <1>6, FileFacts
  <2>2. UnpackPositions[n + 2] = UnpackPositions[n + 1] + File[n + 1].size
    BY <1>4, FileFacts
  <2>. QED
    BY <2>1, <2>2, FileFacts
<1>7. \A i \in 1..(Len(File) + 1) : UnpackPositions[i] \in Nat
  <2>1. Nat \subseteq S
    BY <1>5, <1>6, AllNumbers
  <2>. TAKE i \in 1..(Len(File) + 1)
  <2>2. i - 1 \in Nat /\ (i - 1) + 1 = i /\ i - 1 <= Len(File)
    BY FileFacts
  <2>. QED
    BY <2>1, <2>2
<1>. QED
  BY <1>4, <1>7

(* Later files lie further on. *)
LEMMA UnpackAscends ==
  ASSUME NEW i \in 1..(Len(File) + 1), NEW j \in 1..(Len(File) + 1), i <= j
  PROVE  UnpackPositions[i] <= UnpackPositions[j]
<1>. DEFINE S == {n \in Nat : i + n <= Len(File) + 1 => UnpackPositions[i] <= UnpackPositions[i + n]}
<1>1. 0 \in S
  BY UnpackFacts
<1>2. ASSUME NEW n \in Nat, n \in S PROVE n + 1 \in S
  <2>. SUFFICES ASSUME i + (n + 1) <= Len(File) + 1
                PROVE  UnpackPositions[i] <= UnpackPositions[i + (n + 1)]
    OBVIOUS
  <2>1. i + n \in 1..Len(File) /\ (i + n) + 1 = i + (n + 1) /\ i + n <= Len(File) + 1
    BY FileFacts
  <2>2. UnpackPositions[i + (n + 1)] = UnpackPositions[i + n] + File[i + n].size
    BY <2>1, UnpackFacts
  <2>3. UnpackPositions[i] \in Nat /\ UnpackPositions[i + n] \in Nat /\ File[i + n].size \in Nat
    BY <2>1, UnpackFacts, FileFacts
  <2>. QED
    BY <1>2, <2>1, <2>2, <2>3
<1>3. Nat \subseteq S
  BY <1>1, <1>2, AllNumbers
<1>4. j - i \in Nat /\ i + (j - i) = j /\ j <= Len(File) + 1
  BY FileFacts
<1>. QED
  BY <1>3, <1>4

(* A folder with files has a first and a last one. *)
LEMMA FolderFacts ==
  ASSUME NEW f, Members(f) # {}
  PROVE  /\ FolderToFile(f) \in Members(f) /\ \A i \in Members(f) : FolderToFile(f) <= i
         /\ LastOf(f) \in Members(f) /\ \A i \in Members(f) : i <= LastOf(f)
<1>1. Members(f) \in SUBSET Nat /\ Members(f) \subseteq 1..Len(File)
  BY FileFacts DEF Members
<1>2. \E i \in Members(f) : \A j \in Members(f) : i <= j
  BY <1>1, LeastNumber
<1>3. \E i \in Members(f) : \A j \in Members(f) : i >= j
  <2>. DEFINE T == {n \in Nat : Len(File) - n \in Members(f)}
  <2>1. \A j \in Members(f) : Len(File) - j \in T
    BY <1>1, FileFacts
  <2>2. PICK n \in T : \A m \in T : n <= m
    <3>1. T \in SUBSET Nat /\ T # {}
      BY <2>1
    <3>. HIDE DEF T
    <3>. QED
      BY <3>1, LeastNumber
  <2>3. \A j \in Members(f) : n <= Len(File) - j
    BY <2>1, <2>2
  <2>. QED
    BY <1>1, <2>2, <2>3, FileFacts
<1>. QED
  BY <1>1, <1>2, <1>3 DEF FolderToFile, LastOf

(* A file with data has a place in its folder, within the folder, and      *)
(* before any later file there.                                            *)
LEMMA PlaceFacts ==
  ASSUME NEW i \in 1..Len(File)
  PROVE  /\ FileStart(i) \in Nat
         /\ FolderSize(File[i].folder) \in Nat
         /\ FileStart(i) + File[i].size <= FolderSize(File[i].folder)
         /\ \A j \in Members(File[i].folder) :
              i < j => FileStart(i) + File[i].size <= FileStart(j)
<1>. DEFINE f     == File[i].folder
            first == FolderToFile(f)
            last  == LastOf(f)
<1>1. i \in Members(f) /\ Members(f) \subseteq 1..Len(File)
  BY FileFacts DEF Members
<1>2. first \in 1..Len(File) /\ first <= i /\ last \in 1..Len(File) /\ i <= last
  BY <1>1, FolderFacts
<1>3. \A j \in Members(f) : File[j].folder = f
  BY DEF Members
<1>4. UnpackPositions[first] <= UnpackPositions[i]
  BY <1>2, UnpackAscends, FileFacts
<1>5. \A j \in 1..(Len(File) + 1) :
        i < j => UnpackPositions[i] + File[i].size <= UnpackPositions[j]
  <2>. SUFFICES ASSUME NEW j \in 1..(Len(File) + 1), i < j
                PROVE  UnpackPositions[i + 1] <= UnpackPositions[j]
    BY UnpackFacts
  <2>. QED
    BY UnpackAscends, FileFacts
<1>6. /\ UnpackPositions[first] \in Nat /\ UnpackPositions[i] \in Nat
      /\ UnpackPositions[last + 1] \in Nat /\ File[i].size \in Nat
      /\ \A j \in Members(f) : UnpackPositions[j] \in Nat
  BY <1>1, <1>2, UnpackFacts, FileFacts
<1>7. UnpackPositions[i] + File[i].size <= UnpackPositions[last + 1]
  BY <1>2, <1>5, FileFacts
<1>8. FileStart(i) = UnpackPositions[i] - UnpackPositions[first]
  BY DEF FileStart
<1>9. FolderSize(f) = UnpackPositions[last + 1] - UnpackPositions[first]
  BY DEF FolderSize
<1>10. \A j \in Members(f) : FileStart(j) = UnpackPositions[j] - UnpackPositions[first]
  BY <1>3 DEF FileStart
<1>11. \A j \in Members(f) : i < j => UnpackPositions[i] + File[i].size <= UnpackPositions[j]
  BY <1>1, <1>5, FileFacts
<1>. HIDE DEF f, first, last
<1>12. /\ FileStart(i) \in Nat /\ FolderSize(f) \in Nat
       /\ FileStart(i) + File[i].size <= FolderSize(f)
  BY <1>4, <1>6, <1>7, <1>8, <1>9
<1>13. \A j \in Members(f) : i < j => FileStart(i) + File[i].size <= FileStart(j)
  BY <1>6, <1>8, <1>10, <1>11
<1>. QED
  BY <1>12, <1>13 DEF f

-------------------------------------------------------------------------------
(* The inductive invariant. *)

FolderTyped ==
  /\ cursor \in 1..(Len(File) + 1) /\ current \in 0..Len(File) /\ walks \in 0..MaxWalks
  /\ folder_open \in BOOLEAN /\ in_place \in BOOLEAN
  /\ folder \in Nat /\ produced \in Nat /\ want \in Nat
  /\ out_buf \in Seq(Nat \X Nat) /\ got \in Seq(Nat \X Nat)
  /\ out_pos \in 0..Len(out_buf) /\ Len(out_buf) <= BufSize
  /\ pc \in {"idle", "skip", "copy"}
  /\ outcome \in {"none", "ok", "failed"}
  /\ begun \in Seq(Nat)

BackendsTyped ==
  /\ FolderTyped
  /\ content \in Content
  /\ v \in {"none", "zip", "7z"}
  /\ opens \in 0..MaxOpens

(* The first entry that this walk can still extract. *)
Ahead == IF current # 0 /\ outcome = "none" THEN current ELSE cursor

(* The cursor is past the entry in hand, and an extraction is of that one. *)
WalkOK ==
  /\ current # 0 => cursor = current + 1
  /\ pc # "idle" => current # 0 /\ outcome = "none"
  /\ current = 0 => outcome = "none"
  /\ pc = "idle" /\ outcome = "none" => got = <<>>

(* The buffer holds the last units of what was decoded. *)
BufferOK ==
  /\ Len(out_buf) <= produced
  /\ \A k \in 1..Len(out_buf) : out_buf[k] = <<folder, produced - Len(out_buf) + k - 1>>

(* How far an extraction is in the stream of its folder. *)
PositionOK ==
  /\ pc # "idle" => /\ folder_open /\ in_place
                    /\ folder = File[current].folder /\ File[current].size > 0
  /\ pc = "skip" => want = File[current].size /\ got = <<>> /\ FOLDER_POS <= FileStart(current)
  /\ pc = "copy" => /\ Len(got) + want = File[current].size
                    /\ FOLDER_POS = FileStart(current) + Len(got)

(* Between two extractions, no file still to come lies behind; and once    *)
(* the file handle has been used for something else, none of this folder   *)
(* is to come.                                                             *)
AheadOK ==
  folder_open /\ pc = "idle" =>
    \A i \in Members(folder) : i >= Ahead =>
      /\ outcome # "failed" => FOLDER_POS <= FileStart(i)
      /\ in_place

(* The folders begun in this walk belong to entries of it, in order; the   *)
(* open one is the last of them.                                           *)
BegunFor(when) ==
  /\ \A k \in 1..Len(begun) : /\ File[when[k]].folder = begun[k] /\ File[when[k]].size > 0
                              /\ when[k] < cursor
                              /\ pc = "idle" => when[k] < Ahead
  /\ \A j, k \in 1..Len(begun) : j < k => when[j] < when[k]
BegunOK ==
  /\ \E when \in [1..Len(begun) -> 1..Len(File)] : BegunFor(when)
  /\ folder_open => begun # <<>> /\ begun[Len(begun)] = folder
  /\ begun # <<>> /\ outcome # "failed" => folder_open

SevenZipInv == WalkOK /\ BufferOK /\ PositionOK /\ AheadOK /\ BegunOK /\ OwnBytes

(* The walk of zip, and what its sink was given. *)
ZipInv ==
  /\ WalkOK
  /\ pc \in {"idle", "copy"}
  /\ \A k \in 1..Len(got) : got[k] = <<current, k - 1>>
  /\ outcome = "ok" => Len(got) = File[current].size

BackendsInv == /\ BackendsTyped
               /\ BegunOnce
               /\ v = "7z" => SevenZipInv
               /\ v = "zip" => ZipInv

-------------------------------------------------------------------------------
(* The folder decoder, one action at a time. *)

FolderInv == FolderTyped /\ SevenZipInv

(* Numbers of the state. *)
LEMMA StateFacts ==
  ASSUME FolderTyped
  PROVE  /\ cursor \in Nat /\ current \in Nat /\ Ahead \in Nat
         /\ Len(out_buf) \in Nat /\ out_pos \in Nat /\ Available \in Nat
         /\ FOLDER_POS \in Int /\ Len(got) \in Nat /\ Len(begun) \in Nat
         /\ current # 0 => current \in 1..Len(File)
BY FileFacts DEF FolderTyped, Ahead, Available, FOLDER_POS

(* When no folder is begun, what is known of the ones that were stays      *)
(* true as the walk goes on.                                               *)
LEMMA BegunStays ==
  ASSUME FolderTyped, BegunOK, UNCHANGED <<begun, folder, folder_open>>,
         outcome' # "failed" => outcome # "failed",
         \A n \in 1..Len(File) : n < cursor /\ (pc = "idle" => n < Ahead)
                                   => n < cursor' /\ (pc' = "idle" => n < Ahead')
  PROVE  BegunOK'
<1>1. PICK when \in [1..Len(begun) -> 1..Len(File)] : BegunFor(when)
  BY DEF BegunOK
<1>2. BegunFor(when)'
  <2>1. \A k \in 1..Len(begun) : when[k] \in 1..Len(File)
    OBVIOUS
  <2>. QED
    BY <1>1, <2>1 DEF BegunFor
<1>. QED
  BY <1>1, <1>2 DEF BegunOK

(* A step of the caller that leaves the decoder as it is and moves on.     *)
LEMMA MovesOn ==
  ASSUME FolderInv, FolderTyped', UNCHANGED <<streamVars, begun>>, pc = "idle", pc' = "idle",
         outcome' # "failed" => outcome # "failed",
         Ahead' >= Ahead, cursor' >= cursor
  PROVE  BufferOK' /\ PositionOK' /\ AheadOK' /\ BegunOK'
<1>1. BufferOK'
  BY DEF FolderInv, SevenZipInv, BufferOK, streamVars
<1>2. PositionOK'
  BY DEF FolderInv, PositionOK
<1>3. AheadOK'
  <2>1. FOLDER_POS' = FOLDER_POS
    BY DEF FOLDER_POS, Available, streamVars
  <2>2. Members(folder) \subseteq Nat
    BY FileFacts DEF Members
  <2>3. Ahead \in Nat /\ Ahead' \in Nat
    BY FileFacts DEF Ahead, FolderInv, FolderTyped
  <2>. QED
    BY <2>1, <2>2, <2>3 DEF FolderInv, SevenZipInv, AheadOK, streamVars
<1>4. BegunOK'
  <2>1. Ahead \in Nat /\ Ahead' \in Nat /\ cursor \in Nat /\ cursor' \in Nat
    BY FileFacts DEF Ahead, FolderInv, FolderTyped
  <2>. QED
    BY <2>1, BegunStays DEF FolderInv, SevenZipInv, streamVars
<1>. QED
  BY <1>1, <1>2, <1>3, <1>4

(* reset begins a walk anew, with no folder open. *)
LEMMA ResetStep ==
  ASSUME FolderInv, Reset
  PROVE  FolderInv'
<1>1. FolderTyped'
  <2>1. walks' \in 0..MaxWalks
    BY FileFacts DEF FolderInv, FolderTyped, Reset
  <2>2. cursor' \in 1..(Len(File) + 1) /\ current' \in 0..Len(File)
    BY FileFacts DEF Reset
  <2>3. <<>> \in Seq(Nat) /\ <<>> \in Seq(Nat \X Nat)
    OBVIOUS
  <2>. QED
    BY <2>1, <2>2, <2>3 DEF FolderInv, FolderTyped, Reset
<1>2. WalkOK' /\ BufferOK' /\ PositionOK' /\ AheadOK' /\ OwnBytes'
  BY DEF FolderInv, SevenZipInv, Reset, Between, WalkOK, BufferOK, PositionOK, AheadOK, OwnBytes
<1>3. BegunOK'
  <2>1. <<>> \in [1..0 -> 1..Len(File)]
    OBVIOUS
  <2>2. begun' = <<>> /\ folder_open' = FALSE /\ Len(begun') = 0
    BY DEF Reset
  <2>3. BegunFor(<<>>)'
    BY <2>2 DEF BegunFor
  <2>. QED
    BY <2>1, <2>2, <2>3 DEF BegunOK
<1>. QED
  BY <1>1, <1>2, <1>3 DEF FolderInv, SevenZipInv

(* next moves on to the following entry. *)
LEMMA NextStep ==
  ASSUME FolderInv, Next
  PROVE  FolderInv'
<1>1. FolderTyped'
  BY FileFacts DEF FolderInv, FolderTyped, Next, Between, streamVars
<1>2. WalkOK' /\ OwnBytes'
  BY FileFacts DEF FolderInv, FolderTyped, SevenZipInv, Next, Between, WalkOK, OwnBytes
<1>3. Ahead' >= Ahead /\ cursor' >= cursor
  BY FileFacts DEF FolderInv, FolderTyped, SevenZipInv, Next, WalkOK, Ahead
<1>. QED
  BY <1>1, <1>2, <1>3, MovesOn DEF FolderInv, SevenZipInv, Next, Between

(* next past the last entry leaves none current. *)
LEMMA NoNextStep ==
  ASSUME FolderInv, NoNext
  PROVE  FolderInv'
<1>1. FolderTyped'
  BY FileFacts DEF FolderInv, FolderTyped, NoNext, Between, streamVars
<1>2. WalkOK' /\ OwnBytes'
  BY FileFacts DEF FolderInv, FolderTyped, SevenZipInv, NoNext, Between, WalkOK, OwnBytes
<1>3. Ahead' >= Ahead /\ cursor' >= cursor
  BY FileFacts DEF FolderInv, FolderTyped, SevenZipInv, NoNext, WalkOK, Ahead
<1>. QED
  BY <1>1, <1>2, <1>3, MovesOn DEF FolderInv, SevenZipInv, NoNext, Between

(* A directory or an empty entry is extracted at once. *)
LEMMA NothingToExtractStep ==
  ASSUME FolderInv, NothingToExtract
  PROVE  FolderInv'
<1>1. FolderTyped'
  BY FileFacts DEF FolderInv, FolderTyped, NothingToExtract, Wanted, Leave, walkVars, streamVars
<1>2. WalkOK' /\ OwnBytes'
  BY FileFacts DEF FolderInv, FolderTyped, SevenZipInv, NothingToExtract, Wanted, Leave,
                   WalkOK, OwnBytes, walkVars
<1>3. Ahead' >= Ahead /\ cursor' >= cursor
  BY FileFacts DEF FolderInv, FolderTyped, SevenZipInv, NothingToExtract, Wanted, Leave,
                   WalkOK, Ahead, walkVars
<1>. QED
  BY <1>1, <1>2, <1>3, MovesOn DEF FolderInv, SevenZipInv, NothingToExtract, Wanted, Leave

(* The folder that is open was begun for an earlier entry of this walk.    *)
LEMMA OpenFolderFacts ==
  ASSUME FolderInv, Wanted, folder_open
  PROVE  /\ folder # 0
         /\ \E m \in 1..Len(File) : m < current /\ File[m].folder = folder
<1>1. PICK when \in [1..Len(begun) -> 1..Len(File)] : BegunFor(when)
  BY DEF FolderInv, SevenZipInv, BegunOK
<1>2. Len(begun) \in 1..Len(begun) /\ begun[Len(begun)] = folder
  <2>1. begun # <<>> /\ begun \in Seq(Nat)
    BY DEF FolderInv, SevenZipInv, BegunOK, FolderTyped
  <2>2. Len(begun) \in Nat /\ Len(begun) # 0
    BY <2>1
  <2>. QED
    BY <2>2 DEF FolderInv, SevenZipInv, BegunOK
<1>3. PICK m \in 1..Len(File) : m = when[Len(begun)]
  BY <1>1, <1>2
<1>4. File[m].folder = folder /\ File[m].size > 0 /\ m < Ahead
  BY <1>1, <1>2, <1>3 DEF BegunFor, Wanted
<1>5. Ahead = current
  BY DEF Ahead, Wanted
<1>. QED
  BY <1>4, <1>5, FileFacts

(* The files of a folder stand together, but for entries without data. *)
LEMMA FolderStandsTogether ==
  ASSUME NEW i \in 1..Len(File), NEW j \in 1..Len(File), NEW k \in 1..Len(File),
         i < k, k < j, File[i].folder = File[j].folder
  PROVE  File[k].folder \in {0, File[i].folder}
BY FolderAssumption, FileFacts

(* Looking for seams moves the file handle, not the open folder. *)
LEMMA TryParallelStep ==
  ASSUME FolderInv, TryParallel
  PROVE  FolderInv'
<1>1. current \in 1..Len(File) /\ File[current].size \in Nat /\ File[current].folder \in Nat
      /\ FileStart(current) \in Nat /\ cursor = current + 1 /\ pc = "idle" /\ outcome = "none"
      /\ File[current].size > 0 /\ File[current].folder # 0
      /\ got = <<>>
  BY FileFacts, StateFacts, PlaceFacts DEF FolderInv, SevenZipInv, TryParallel, Wanted, WalkOK
<1>2. UNCHANGED <<cursor, current, walks, folder_open, folder, produced, out_buf, out_pos,
                  pc, want, begun>> /\ in_place' = FALSE
  BY DEF TryParallel, walkVars
<1>3. \/ UNCHANGED <<outcome, got>>
      \/ outcome' = "ok" /\ got' \in Seq(Nat \X Nat) /\ Len(got') = File[current].size
         /\ \A i \in DOMAIN got' : got'[i] = <<File[current].folder, FileStart(current) + i - 1>>
  <2>1. CASE UNCHANGED <<outcome, got>>
    BY <2>1
  <2>2. CASE outcome' = "ok" /\ got' = [i \in 1..File[current].size |->
                                          <<File[current].folder, FileStart(current) + i - 1>>]
    <3>. DEFINE n == File[current].size
                f == File[current].folder
                b == FileStart(current)
    <3>1. n \in Nat /\ f \in Nat /\ b \in Nat /\ got' = [i \in 1..n |-> <<f, b + i - 1>>]
      BY <1>1, <2>2
    <3>. HIDE DEF n, f, b
    <3>2. \A i \in 1..n : <<f, b + i - 1>> \in Nat \X Nat
      BY <3>1
    <3>3. got' \in [1..n -> Nat \X Nat]
      BY <3>1, <3>2
    <3>4. got' \in Seq(Nat \X Nat) /\ Len(got') = n /\ DOMAIN got' = 1..n
      BY <3>1, <3>3
    <3>. QED
      BY <2>2, <3>1, <3>4 DEF n, f, b
  <2>. QED
    BY <2>1, <2>2 DEF TryParallel
<1>4. FolderTyped'
  BY <1>2, <1>3 DEF FolderInv, FolderTyped
<1>5. WalkOK'
  BY <1>1, <1>2, <1>3 DEF WalkOK
<1>6. BufferOK'
  BY <1>2 DEF FolderInv, SevenZipInv, BufferOK
<1>7. PositionOK'
  BY <1>1, <1>2 DEF PositionOK
<1>8. AheadOK'
  <2>. SUFFICES ASSUME folder_open, NEW i \in Members(folder), i >= current PROVE FALSE
    <3>1. Ahead' \in {current, cursor}
      BY <1>2 DEF Ahead
    <3>2. Members(folder) \subseteq Nat
      BY FileFacts DEF Members
    <3>. QED
      BY <1>1, <1>2, <3>1, <3>2 DEF AheadOK
  <2>1. PICK m \in 1..Len(File) : m < current /\ File[m].folder = folder /\ folder # 0
    BY OpenFolderFacts DEF TryParallel
  <2>2. i \in 1..Len(File) /\ File[i].folder = folder
    BY FileFacts DEF Members
  <2>3. CASE folder = File[current].folder
    <3>1. m \in Members(File[current].folder)
      BY <2>1, <2>3, FileFacts DEF Members
    <3>2. FolderToFile(File[current].folder) = current
      BY DEF TryParallel, Alone
    <3>. QED
      BY <1>1, <2>1, <3>1, <3>2, FolderFacts
  <2>4. CASE folder # File[current].folder
    <3>1. i # current
      BY <2>2, <2>4
    <3>2. File[current].folder \in {0, folder}
      BY <1>1, <2>1, <2>2, <3>1, FolderStandsTogether
    <3>. QED
      BY <1>1, <2>4, <3>2
  <2>. QED
    BY <2>3, <2>4
<1>9. BegunOK'
  <2>1. Ahead = current /\ Ahead' \in {current, cursor}
    BY <1>1, <1>2 DEF Ahead
  <2>. QED
    BY <1>1, <1>2, <1>3, <2>1, BegunStays DEF FolderInv, SevenZipInv
<1>10. OwnBytes'
  BY <1>1, <1>2, <1>3 DEF OwnBytes
<1>. QED
  BY <1>4, <1>5, <1>6, <1>7, <1>8, <1>9, <1>10 DEF FolderInv, SevenZipInv

(* A folder is begun for an entry of another folder than all before. *)
LEMMA BegunIsNew ==
  ASSUME FolderInv, Wanted, File[current].size > 0, Elsewhere(current)
  PROVE  \A k \in 1..Len(begun) : begun[k] # File[current].folder
<1>1. current \in 1..Len(File) /\ File[current].folder # 0 /\ current \in Members(File[current].folder)
  BY FileFacts, StateFacts DEF Wanted, FolderInv, Members
<1>. SUFFICES ASSUME NEW k \in 1..Len(begun), begun[k] = File[current].folder PROVE FALSE
  OBVIOUS
<1>2. PICK when \in [1..Len(begun) -> 1..Len(File)] : BegunFor(when)
  BY DEF FolderInv, SevenZipInv, BegunOK
<1>. DEFINE n == Len(begun)
<1>3. n \in 1..Len(begun) /\ n \in Nat
  BY StateFacts DEF FolderInv
<1>4. folder_open /\ begun[n] = folder
  <2>1. begun # <<>>
    BY <1>3
  <2>. QED
    BY <2>1 DEF FolderInv, SevenZipInv, BegunOK, Wanted
<1>5. /\ when[k] \in 1..Len(File) /\ File[when[k]].folder = File[current].folder
      /\ when[n] \in 1..Len(File) /\ File[when[n]].folder = folder /\ folder # 0
      /\ when[n] < current
      /\ k # n => when[k] < when[n]
  <2>1. Ahead = current
    BY DEF Ahead, Wanted
  <2>. QED
    BY <1>2, <1>3, <1>4, <2>1, FileFacts DEF BegunFor, Wanted
<1>6. CASE folder = File[current].folder
  <2>1. FOLDER_POS <= FileStart(current)
    <3>1. Ahead = current /\ current >= current
      BY <1>1, FileFacts DEF Ahead, Wanted
    <3>. QED
      BY <1>1, <1>4, <1>6, <3>1 DEF FolderInv, SevenZipInv, AheadOK, Wanted
  <2>2. FOLDER_POS > FileStart(current)
    BY <1>4, <1>6 DEF Elsewhere
  <2>. QED
    BY <1>1, <2>1, <2>2, StateFacts, PlaceFacts DEF FolderInv
<1>7. CASE folder # File[current].folder
  <2>1. k # n
    BY <1>4, <1>7
  <2>2. File[when[n]].folder \in {0, File[current].folder}
    BY <1>1, <1>5, <2>1, FolderStandsTogether
  <2>. QED
    BY <1>5, <1>7, <2>2
<1>. QED
  BY <1>6, <1>7

(* A folder is begun from its first unit. *)
LEMMA BeginFolderStep ==
  ASSUME FolderInv, BeginFolder
  PROVE  FolderInv'
<1>1. /\ current \in 1..Len(File) /\ File[current].size \in Nat /\ File[current].folder \in Nat
      /\ FileStart(current) \in Nat /\ cursor = current + 1 /\ pc = "idle" /\ outcome = "none"
      /\ File[current].size > 0 /\ got = <<>> /\ begun \in Seq(Nat)
  BY FileFacts, StateFacts, PlaceFacts DEF FolderInv, FolderTyped, SevenZipInv, BeginFolder,
                                           Wanted, WalkOK
<1>2. /\ UNCHANGED <<cursor, current, walks, outcome, got>>
      /\ folder_open' = TRUE /\ in_place' = TRUE /\ folder' = File[current].folder
      /\ produced' = 0 /\ out_buf' = <<>> /\ out_pos' = 0
      /\ begun' = Append(begun, File[current].folder)
      /\ pc' = "skip" /\ want' = File[current].size
  BY DEF BeginFolder, walkVars
<1>3. FolderTyped'
  <2>1. <<>> \in Seq(Nat \X Nat) /\ Len(<<>>) = 0
    OBVIOUS
  <2>. QED
    BY <1>1, <1>2, <2>1, FileFacts DEF FolderInv, FolderTyped
<1>4. WalkOK' /\ BufferOK' /\ OwnBytes' /\ AheadOK'
  BY <1>1, <1>2 DEF WalkOK, BufferOK, OwnBytes, AheadOK
<1>5. PositionOK'
  <2>1. FOLDER_POS' = 0
    <3>1. Len(out_buf') = 0
      BY <1>2
    <3>2. FOLDER_POS' = produced' - (Len(out_buf') - out_pos')
      BY DEF FOLDER_POS, Available
    <3>. QED
      BY <1>2, <3>1, <3>2
  <2>2. FileStart(current)' = FileStart(current)
    BY <1>2 DEF FileStart
  <2>. QED
    BY <1>1, <1>2, <2>1, <2>2 DEF PositionOK
<1>6. BegunOK'
  <2>. DEFINE n == Len(begun)
  <2>1. PICK when \in [1..n -> 1..Len(File)] : BegunFor(when)
    BY DEF FolderInv, SevenZipInv, BegunOK
  <2>2. n \in Nat /\ Ahead = current
    BY <1>1 DEF Ahead
  <2>3. /\ Len(begun') = n + 1 /\ begun'[n + 1] = File[current].folder
        /\ \A k \in 1..n : begun'[k] = begun[k]
        /\ begun' # <<>>
    BY <1>1, <1>2
  <2>. DEFINE later == [k \in 1..(n + 1) |-> IF k <= n THEN when[k] ELSE current]
  <2>4. later \in [1..(n + 1) -> 1..Len(File)]
    BY <1>1, <2>1, <2>2
  <2>5. \A k \in 1..n : later[k] = when[k]
    BY <2>2
  <2>6. later[n + 1] = current
    BY <2>2
  <2>7. \A k \in 1..n : /\ File[when[k]].folder = begun[k] /\ File[when[k]].size > 0
                        /\ when[k] < current /\ when[k] \in 1..Len(File)
    BY <1>1, <2>1, <2>2 DEF BegunFor
  <2>8. \A j, k \in 1..n : j < k => when[j] < when[k]
    BY <2>1 DEF BegunFor
  <2>. HIDE DEF later
  <2>9. \A k \in 1..(n + 1) : k \in 1..n \/ k = n + 1
    BY <2>2
  <2>10. \A k \in 1..(n + 1) : /\ File[later[k]].folder = begun'[k] /\ File[later[k]].size > 0
                               /\ later[k] < cursor'
    <3>. TAKE k \in 1..(n + 1)
    <3>1. CASE k \in 1..n
      <4>1. when[k] \in Nat /\ when[k] < current /\ current \in Nat /\ cursor' = current + 1
        BY <1>1, <1>2, <2>7, <3>1, FileFacts
      <4>2. when[k] < cursor'
        BY <4>1
      <4>. QED
        BY <2>3, <2>5, <2>7, <3>1, <4>2
    <3>2. CASE k = n + 1
      <4>1. current < cursor'
        BY <1>1, <1>2
      <4>. QED
        BY <1>1, <2>3, <2>6, <3>2, <4>1
    <3>. QED
      BY <2>9, <3>1, <3>2
  <2>11. \A j, k \in 1..(n + 1) : j < k => later[j] < later[k]
    BY <2>2, <2>5, <2>6, <2>7, <2>8, <2>9
  <2>. PICK w : w = later
    OBVIOUS
  <2>12. BegunFor(w)'
    <3>1. Len(begun') = n + 1 /\ pc' # "idle"
      BY <1>2, <2>3
    <3>. HIDE DEF n
    <3>. QED
      BY <2>10, <2>11, <3>1 DEF BegunFor
  <2>13. begun'[Len(begun')] = folder'
    BY <1>2, <2>3
  <2>14. w \in [1..Len(begun') -> 1..Len(File)]
    BY <2>3, <2>4
  <2>15. outcome' # "failed" => folder_open'
    BY <1>2
  <2>. QED
    BY <2>3, <2>12, <2>13, <2>14, <2>15 DEF BegunOK
<1>. QED
  BY <1>3, <1>4, <1>5, <1>6 DEF FolderInv, SevenZipInv

(* A folder that cannot be begun fails the entry. *)
LEMMA CannotBeginStep ==
  ASSUME FolderInv, CannotBegin
  PROVE  FolderInv'
<1>1. UNCHANGED <<cursor, current, walks, folder, want, got, begun>>
      /\ folder_open' = FALSE /\ in_place' = FALSE /\ produced' = 0
      /\ out_buf' = <<>> /\ out_pos' = 0 /\ pc' = "idle" /\ outcome' = "failed"
      /\ pc = "idle" /\ outcome = "none" /\ current # 0
  BY DEF CannotBegin, Wanted, Leave, walkVars
<1>2. FolderTyped'
  <2>1. <<>> \in Seq(Nat \X Nat) /\ Len(<<>>) = 0 /\ 0 \in 0..0 /\ 0 <= BufSize /\ 0 \in Nat
    BY FileFacts
  <2>2. out_pos' \in 0..Len(out_buf') /\ Len(out_buf') <= BufSize /\ out_buf' \in Seq(Nat \X Nat)
    BY <1>1, <2>1
  <2>. QED
    BY <1>1, <2>2 DEF FolderInv, FolderTyped
<1>3. WalkOK' /\ BufferOK' /\ PositionOK' /\ AheadOK' /\ OwnBytes'
  BY <1>1 DEF FolderInv, SevenZipInv, WalkOK, BufferOK, PositionOK, AheadOK, OwnBytes
<1>4. BegunOK'
  <2>1. PICK when \in [1..Len(begun) -> 1..Len(File)] : BegunFor(when)
    BY DEF FolderInv, SevenZipInv, BegunOK
  <2>2. Ahead' = cursor
    BY <1>1 DEF Ahead
  <2>3. BegunFor(when)'
    BY <1>1, <2>1, <2>2 DEF BegunFor
  <2>. QED
    BY <1>1, <2>1, <2>3 DEF BegunOK
<1>. QED
  BY <1>2, <1>3, <1>4 DEF FolderInv, SevenZipInv

(* The open folder is read on for a later entry of it. *)
LEMMA GoOnStep ==
  ASSUME FolderInv, GoOn
  PROVE  FolderInv'
<1>1. /\ current \in 1..Len(File) /\ File[current].size \in Nat /\ FileStart(current) \in Nat
      /\ cursor = current + 1 /\ pc = "idle" /\ outcome = "none"
      /\ File[current].size > 0 /\ got = <<>> /\ FOLDER_POS \in Int /\ Ahead = current
  BY FileFacts, StateFacts, PlaceFacts DEF FolderInv, SevenZipInv, GoOn, Wanted, WalkOK, Ahead
<1>2. UNCHANGED <<cursor, current, walks, folder_open, folder, produced, out_buf, out_pos,
                  in_place, outcome, got, begun>>
      /\ pc' = "skip" /\ want' = File[current].size
  BY DEF GoOn, walkVars, streamVars
<1>3. folder_open /\ folder = File[current].folder /\ FOLDER_POS <= FileStart(current)
  BY <1>1 DEF GoOn, Elsewhere
<1>4. in_place
  <2>1. current \in Members(folder) /\ current >= Ahead
    BY <1>1, <1>3, FileFacts DEF Members
  <2>. QED
    BY <1>1, <1>3, <2>1 DEF FolderInv, SevenZipInv, AheadOK
<1>5. FolderTyped'
  BY <1>1, <1>2 DEF FolderInv, FolderTyped
<1>6. WalkOK' /\ BufferOK' /\ AheadOK' /\ OwnBytes'
  BY <1>1, <1>2 DEF FolderInv, SevenZipInv, WalkOK, BufferOK, AheadOK, OwnBytes
<1>7. PositionOK'
  <2>1. FOLDER_POS' = FOLDER_POS /\ FileStart(current)' = FileStart(current)
    BY <1>2 DEF FOLDER_POS, Available, FileStart
  <2>. QED
    BY <1>1, <1>2, <1>3, <1>4, <2>1 DEF PositionOK
<1>8. BegunOK'
  <2>1. \A n \in 1..Len(File) : n < current => n < cursor'
    BY <1>1, <1>2
  <2>. QED
    BY <1>1, <1>2, <2>1, BegunStays DEF FolderInv, SevenZipInv
<1>. QED
  BY <1>5, <1>6, <1>7, <1>8 DEF FolderInv, SevenZipInv

(* During an extraction: what is known, and what stays true when neither   *)
(* the walk nor the folder changes.                                        *)
LEMMA ExtractionFacts ==
  ASSUME FolderInv, pc # "idle"
  PROVE  /\ current \in 1..Len(File) /\ cursor = current + 1 /\ outcome = "none"
         /\ File[current].size \in Nat /\ File[current].size > 0
         /\ FileStart(current) \in Nat /\ folder = File[current].folder /\ folder \in Nat
         /\ FolderSize(folder) \in Nat
         /\ FileStart(current) + File[current].size <= FolderSize(folder)
         /\ folder_open /\ in_place /\ Ahead = current
BY FileFacts, StateFacts, PlaceFacts
   DEF FolderInv, FolderTyped, SevenZipInv, WalkOK, PositionOK, Ahead

(* A step within an extraction that only moves data keeps the walk. *)
LEMMA ExtractionGoesOn ==
  ASSUME FolderInv, pc # "idle", pc' # "idle",
         UNCHANGED <<walkVars, folder_open, folder, in_place, outcome, begun>>
  PROVE  /\ WalkOK' /\ AheadOK' /\ BegunOK' /\ FileStart(current)' = FileStart(current)
         /\ UNCHANGED <<cursor, current, walks, folder_open, folder, in_place, outcome, begun>>
<1>1. WalkOK' /\ AheadOK'
  BY DEF FolderInv, SevenZipInv, WalkOK, AheadOK, walkVars
<1>2. BegunOK'
  BY BegunStays DEF FolderInv, SevenZipInv, walkVars
<1>. QED
  BY <1>1, <1>2 DEF walkVars, FileStart

(* A decode round appends the next units of the folder. *)
LEMMA FillStep ==
  ASSUME FolderInv, Fill
  PROVE  FolderInv'
<1>1. pc # "idle" /\ pc' = pc
  BY DEF Fill, Hungry
<1>2. UNCHANGED <<walks, want, got>>
  BY DEF Fill, walkVars
<1>3. /\ WalkOK' /\ AheadOK' /\ BegunOK' /\ FileStart(current)' = FileStart(current)
      /\ UNCHANGED <<cursor, current, walks, folder_open, folder, in_place, outcome, begun>>
  BY <1>1, ExtractionGoesOn DEF Fill
<1>4. PICK n \in 1..Least(BufSize, FolderSize(folder) - produced) :
        /\ out_buf' = [i \in 1..n |-> Decoded(produced + i - 1)]
        /\ produced' = produced + n
  BY DEF Fill
<1>5. n \in Nat /\ n > 0 /\ n <= BufSize /\ produced \in Nat
  BY <1>1, FileFacts, ExtractionFacts DEF Fill, Least, FolderInv, FolderTyped
<1>6. out_buf' = [i \in 1..n |-> <<folder, produced + i - 1>>]
  BY <1>1, <1>4, ExtractionFacts DEF Decoded
<1>7. out_buf' \in Seq(Nat \X Nat) /\ Len(out_buf') = n
  <2>1. \A i \in 1..n : <<folder, produced + i - 1>> \in Nat \X Nat
    BY <1>1, <1>5, ExtractionFacts
  <2>2. out_buf' \in [1..n -> Nat \X Nat]
    BY <1>6, <2>1
  <2>. QED
    BY <1>5, <2>2
<1>8. FolderTyped'
  BY <1>1, <1>2, <1>3, <1>4, <1>5, <1>7 DEF FolderInv, FolderTyped, Fill
<1>9. BufferOK'
  <2>1. Len(out_buf') = n /\ produced' = produced + n /\ folder' = folder
    BY <1>3, <1>4, <1>7
  <2>2. \A k \in 1..n : out_buf'[k] = <<folder, produced' - n + k - 1>>
    <3>1. \A k \in 1..n : produced' - n + k - 1 = produced + k - 1
      BY <1>5, <2>1
    <3>. QED
      BY <1>6, <3>1
  <2>. QED
    BY <1>5, <2>1, <2>2 DEF BufferOK
<1>10. PositionOK'
  <2>1. FOLDER_POS' = FOLDER_POS
    <3>1. FOLDER_POS = produced
      BY <1>5 DEF Fill, Hungry, FOLDER_POS
    <3>2. FOLDER_POS' = (produced + n) - (n - 0)
      BY <1>4, <1>7 DEF Fill, FOLDER_POS, Available
    <3>. QED
      BY <1>5, <3>1, <3>2
  <2>. QED
    BY <1>1, <1>2, <1>3, <2>1 DEF FolderInv, SevenZipInv, PositionOK
<1>11. OwnBytes'
  BY <1>2, <1>3 DEF FolderInv, SevenZipInv, OwnBytes
<1>. QED
  BY <1>3, <1>8, <1>9, <1>10, <1>11 DEF FolderInv, SevenZipInv

(* An extraction that ends, well or badly, without having decoded or       *)
(* handed out more in the same step.                                       *)
LEMMA ExtractionLeaves ==
  ASSUME FolderInv, pc # "idle", pc' = "idle", FolderTyped',
         outcome' \in {"ok", "failed"},
         UNCHANGED <<walkVars, folder_open, folder, produced, in_place, got, begun>>,
         outcome' = "ok" => want = 0 /\ pc = "copy" /\ UNCHANGED <<out_buf, out_pos>>
  PROVE  WalkOK' /\ PositionOK' /\ AheadOK' /\ BegunOK' /\ OwnBytes'
<1>1. UNCHANGED <<cursor, current, walks, folder_open, folder, produced, in_place, got, begun>>
  BY DEF walkVars
<1>2. WalkOK' /\ PositionOK'
  BY <1>1 DEF FolderInv, SevenZipInv, WalkOK, PositionOK
<1>3. Ahead' = cursor
  BY <1>1 DEF Ahead
<1>4. AheadOK'
  <2>. SUFFICES ASSUME NEW i \in Members(folder), i >= cursor, outcome' = "ok"
                PROVE  FOLDER_POS' <= FileStart(i)'
    BY <1>1, <1>3, ExtractionFacts DEF AheadOK
  <2>1. FOLDER_POS' = FOLDER_POS /\ FileStart(i)' = FileStart(i)
    BY <1>1 DEF FOLDER_POS, Available, FileStart
  <2>2. FOLDER_POS = FileStart(current) + File[current].size
    <3>1. want = 0 /\ Len(got) + want = File[current].size /\ FOLDER_POS = FileStart(current) + Len(got)
      BY DEF FolderInv, SevenZipInv, PositionOK
    <3>2. Len(got) \in Nat
      BY StateFacts DEF FolderInv
    <3>. QED
      BY <3>1, <3>2
  <2>3. current < i
    BY ExtractionFacts, FileFacts DEF Members
  <2>. QED
    BY <2>1, <2>2, <2>3, ExtractionFacts, PlaceFacts
<1>5. BegunOK'
  <2>1. \A n \in 1..Len(File) : n < cursor => n < Ahead'
    BY <1>3
  <2>. QED
    BY <1>1, <2>1, BegunStays, ExtractionFacts DEF FolderInv, SevenZipInv
<1>6. OwnBytes'
  <2>1. Len(got) \in Nat
    BY StateFacts DEF FolderInv
  <2>2. FileStart(current)' = FileStart(current)
    BY <1>1 DEF FileStart
  <2>3. outcome' = "ok" => Len(got) = File[current].size
    BY <2>1 DEF FolderInv, SevenZipInv, PositionOK
  <2>. QED
    BY <1>1, <2>2, <2>3 DEF FolderInv, SevenZipInv, OwnBytes
<1>. QED
  BY <1>2, <1>4, <1>5, <1>6

(* A decode round that fails ends the extraction. *)
LEMMA FillFailsStep ==
  ASSUME FolderInv, FillFails
  PROVE  FolderInv'
<1>1. pc # "idle" /\ pc' = "idle" /\ outcome' = "failed" /\ out_buf' = <<>> /\ out_pos' = 0
  BY DEF FillFails, Hungry, Leave
<1>2. UNCHANGED <<walkVars, folder_open, folder, produced, in_place, want, got, begun>>
  BY DEF FillFails
<1>3. FolderTyped'
  <2>1. <<>> \in Seq(Nat \X Nat) /\ Len(<<>>) = 0
    OBVIOUS
  <2>. QED
    BY <1>1, <1>2, <2>1, FileFacts DEF FolderInv, FolderTyped, walkVars
<1>4. BufferOK'
  BY <1>1, <1>2 DEF FolderInv, FolderTyped, BufferOK
<1>. QED
  BY <1>1, <1>2, <1>3, <1>4, ExtractionLeaves DEF FolderInv, SevenZipInv

(* A sink that refuses its data ends the extraction. *)
LEMMA SinkRefusesStep ==
  ASSUME FolderInv, SinkRefuses
  PROVE  FolderInv'
<1>1. /\ pc # "idle" /\ pc' = "idle" /\ outcome' = "failed"
      /\ UNCHANGED <<walkVars, streamVars, want, got, begun>>
  BY DEF SinkRefuses, Leave
<1>2. FolderTyped' /\ BufferOK'
  BY <1>1 DEF FolderInv, FolderTyped, SevenZipInv, BufferOK, walkVars, streamVars
<1>. QED
  BY <1>1, <1>2, ExtractionLeaves DEF FolderInv, SevenZipInv, streamVars

(* An entry that has all of its units is a success. *)
LEMMA CopiedStep ==
  ASSUME FolderInv, Copied
  PROVE  FolderInv'
<1>1. /\ pc = "copy" /\ want = 0 /\ pc' = "idle" /\ outcome' = "ok"
      /\ UNCHANGED <<walkVars, streamVars, want, got, begun>>
  BY DEF Copied, Leave
<1>2. FolderTyped' /\ BufferOK'
  BY <1>1 DEF FolderInv, FolderTyped, SevenZipInv, BufferOK, walkVars, streamVars
<1>. QED
  BY <1>1, <1>2, ExtractionLeaves DEF FolderInv, SevenZipInv, streamVars

(* Units before the entry are passed over. *)
LEMMA SkipStep ==
  ASSUME FolderInv, Skip
  PROVE  FolderInv'
<1>1. pc = "skip" /\ pc' = pc /\ UNCHANGED <<walks, produced, out_buf, want, got>>
  BY DEF Skip, walkVars
<1>2. /\ WalkOK' /\ AheadOK' /\ BegunOK' /\ FileStart(current)' = FileStart(current)
      /\ UNCHANGED <<cursor, current, walks, folder_open, folder, in_place, outcome, begun>>
  BY <1>1, ExtractionGoesOn DEF Skip
<1>. DEFINE n == Least(Available, FileStart(current) - FOLDER_POS)
<1>3. /\ n \in Nat /\ n <= Available /\ FOLDER_POS + n <= FileStart(current)
      /\ Available \in Nat /\ FOLDER_POS \in Int /\ FileStart(current) \in Nat
      /\ out_pos' = out_pos + n
  <2>1. /\ Available \in Nat /\ FOLDER_POS \in Int /\ FileStart(current) \in Nat
        /\ FOLDER_POS < FileStart(current)
    BY <1>1, StateFacts, ExtractionFacts DEF Skip, FolderInv
  <2>2. out_pos' = out_pos + n
    BY DEF Skip
  <2>. QED
    BY <2>1, <2>2 DEF Least
<1>. HIDE DEF n
<1>4. out_pos' \in 0..Len(out_buf') /\ FOLDER_POS' = FOLDER_POS + n
  <2>1. out_pos \in Nat /\ Len(out_buf) \in Nat /\ produced \in Nat
    BY StateFacts DEF FolderInv, FolderTyped
  <2>2. out_pos' <= Len(out_buf)
    BY <1>3, <2>1 DEF Available
  <2>3. FOLDER_POS' = produced - (Len(out_buf) - out_pos')
    BY <1>1 DEF FOLDER_POS, Available
  <2>. QED
    BY <1>1, <1>3, <2>1, <2>2, <2>3 DEF FOLDER_POS, Available
<1>5. FolderTyped'
  BY <1>1, <1>2, <1>4 DEF FolderInv, FolderTyped
<1>6. BufferOK' /\ OwnBytes'
  BY <1>1, <1>2 DEF FolderInv, SevenZipInv, BufferOK, OwnBytes
<1>7. PositionOK'
  BY <1>1, <1>2, <1>3, <1>4 DEF FolderInv, SevenZipInv, PositionOK
<1>. QED
  BY <1>2, <1>5, <1>6, <1>7 DEF FolderInv, SevenZipInv

(* With all units before the entry passed over, copying begins. *)
LEMMA SkippedStep ==
  ASSUME FolderInv, Skipped
  PROVE  FolderInv'
<1>1. /\ pc = "skip" /\ pc' = "copy" /\ UNCHANGED <<walkVars, streamVars, want, outcome, got, begun>>
      /\ FOLDER_POS >= FileStart(current)
  BY DEF Skipped
<1>2. /\ WalkOK' /\ AheadOK' /\ BegunOK' /\ FileStart(current)' = FileStart(current)
      /\ UNCHANGED <<cursor, current, walks, folder_open, folder, in_place, outcome, begun>>
  BY <1>1, ExtractionGoesOn DEF streamVars
<1>3. FolderTyped' /\ BufferOK' /\ OwnBytes'
  BY <1>1, <1>2 DEF FolderInv, FolderTyped, SevenZipInv, BufferOK, OwnBytes, streamVars
<1>4. PositionOK'
  <2>1. FOLDER_POS' = FOLDER_POS
    BY <1>1 DEF streamVars, FOLDER_POS, Available
  <2>2. /\ FOLDER_POS \in Int /\ FileStart(current) \in Nat /\ FOLDER_POS <= FileStart(current)
        /\ want = File[current].size /\ got = <<>> /\ File[current].size \in Nat
    BY <1>1, StateFacts, ExtractionFacts DEF FolderInv, SevenZipInv, PositionOK
  <2>. QED
    BY <1>1, <1>2, <2>1, <2>2, ExtractionFacts DEF PositionOK
<1>. QED
  BY <1>2, <1>3, <1>4 DEF FolderInv, SevenZipInv

(* What is put behind a sequence follows it. *)
LEMMA Concatenated ==
  ASSUME NEW U, NEW s \in Seq(U), NEW t \in Seq(U)
  PROVE  /\ s \o t \in Seq(U) /\ Len(s \o t) = Len(s) + Len(t)
         /\ \A k \in 1..Len(s) : (s \o t)[k] = s[k]
         /\ \A k \in 1..Len(t) : (s \o t)[Len(s) + k] = t[k]
OBVIOUS

(* What is copied to the sink are the units of the entry, in order. *)
LEMMA CopyStep ==
  ASSUME FolderInv, Copy
  PROVE  FolderInv'
<1>1. pc = "copy" /\ pc' = pc /\ UNCHANGED <<walks, produced, out_buf>>
  BY DEF Copy, walkVars
<1>2. /\ WalkOK' /\ AheadOK' /\ BegunOK' /\ FileStart(current)' = FileStart(current)
      /\ UNCHANGED <<cursor, current, walks, folder_open, folder, in_place, outcome, begun>>
  BY <1>1, ExtractionGoesOn DEF Copy
<1>. DEFINE n == Least(Available, want)
            more == SubSeq(out_buf, out_pos + 1, out_pos + n)
<1>3. /\ n \in Nat /\ n > 0 /\ n <= Available /\ n <= want /\ Available \in Nat /\ want \in Nat
      /\ got' = got \o more /\ out_pos' = out_pos + n /\ want' = want - n
  <2>1. Available \in Nat /\ want \in Nat /\ Available > 0 /\ want > 0
    BY StateFacts DEF Copy, FolderInv, FolderTyped
  <2>2. got' = got \o more /\ out_pos' = out_pos + n /\ want' = want - n
    BY DEF Copy
  <2>. QED
    BY <2>1, <2>2 DEF Least
<1>. HIDE DEF n
<1>4. /\ out_pos \in Nat /\ Len(out_buf) \in Nat /\ produced \in Nat /\ FOLDER_POS \in Int
      /\ out_buf \in Seq(Nat \X Nat) /\ got \in Seq(Nat \X Nat) /\ Len(got) \in Nat
      /\ Available = Len(out_buf) - out_pos /\ FOLDER_POS = produced - Available
  BY StateFacts DEF FolderInv, FolderTyped, Available, FOLDER_POS
<1>5. /\ more \in Seq(Nat \X Nat) /\ Len(more) = n
      /\ \A k \in 1..n : more[k] = out_buf[out_pos + k]
  <2>. DEFINE U == Nat \X Nat
  <2>1. out_buf \in Seq(U) /\ out_pos + n <= Len(out_buf)
    BY <1>3, <1>4
  <2>. HIDE DEF U
  <2>2. more \in Seq(U) /\ Len(more) = n /\ \A k \in 1..n : more[k] = out_buf[out_pos + k]
    BY <1>3, <1>4, <2>1
  <2>. QED
    BY <2>2 DEF U
<1>. HIDE DEF more
<1>6. /\ got' \in Seq(Nat \X Nat) /\ Len(got') = Len(got) + n
      /\ \A k \in 1..Len(got) : got'[k] = got[k]
      /\ \A k \in 1..n : got'[Len(got) + k] = out_buf[out_pos + k]
  <2>. DEFINE U == Nat \X Nat
  <2>1. got \in Seq(U) /\ more \in Seq(U)
    BY <1>4, <1>5
  <2>. HIDE DEF U
  <2>2. /\ got' \in Seq(U) /\ Len(got') = Len(got) + n
        /\ \A k \in 1..Len(got) : got'[k] = got[k]
        /\ \A k \in 1..n : got'[Len(got) + k] = more[k]
    <3>1. got' = got \o more /\ Len(more) = n
      BY <1>3, <1>5
    <3>2. /\ got \o more \in Seq(U) /\ Len(got \o more) = Len(got) + Len(more)
          /\ \A k \in 1..Len(got) : (got \o more)[k] = got[k]
          /\ \A k \in 1..Len(more) : (got \o more)[Len(got) + k] = more[k]
      BY <2>1, Concatenated
    <3>. QED
      BY <3>1, <3>2
  <2>. QED
    BY <1>5, <2>2 DEF U
<1>. DEFINE b == FileStart(current)
            z == File[current].size
            f == File[current].folder
<1>12. /\ Len(got) + want = z /\ FOLDER_POS = b + Len(got) /\ b \in Nat /\ z \in Nat
       /\ FileStart(current)' = b /\ current' = current
  BY <1>1, <1>2, ExtractionFacts DEF FolderInv, SevenZipInv, PositionOK
<1>. HIDE DEF b, z, f
<1>13. /\ Len(got') = Len(got) + n /\ Len(got) \in Nat /\ n \in Nat /\ n <= want /\ want \in Nat
       /\ want' = want - n /\ produced \in Nat /\ Len(out_buf) \in Nat /\ out_pos \in Nat
       /\ FOLDER_POS = produced - (Len(out_buf) - out_pos)
  BY <1>3, <1>4, <1>6
<1>7. FolderTyped'
  <2>1. out_pos' \in 0..Len(out_buf') /\ want' \in Nat
    BY <1>1, <1>3, <1>4
  <2>. QED
    BY <1>1, <1>2, <1>6, <2>1 DEF FolderInv, FolderTyped
<1>8. BufferOK'
  BY <1>1, <1>2 DEF FolderInv, SevenZipInv, BufferOK
<1>9. FOLDER_POS' = FOLDER_POS + n
  <2>1. FOLDER_POS' = produced' - (Len(out_buf') - out_pos')
    BY DEF FOLDER_POS, Available
  <2>. QED
    BY <1>1, <1>3, <1>4, <2>1
<1>10. PositionOK'
  <2>1. Len(got') + want' = z /\ FOLDER_POS' = b + Len(got')
    BY <1>9, <1>12, <1>13
  <2>. QED
    BY <1>1, <1>2, <1>12, <2>1, ExtractionFacts DEF PositionOK, z
<1>11. OwnBytes'
  <2>2. \A k \in 1..Len(got) : got[k] = <<f, b + k - 1>>
    <3>1. DOMAIN got = 1..Len(got) /\ current # 0
      BY <1>1, <1>4, ExtractionFacts
    <3>. QED
      BY <3>1 DEF FolderInv, SevenZipInv, OwnBytes, f, b
  <2>3. \A k \in 1..n : out_buf[out_pos + k] = <<f, b + (Len(got) + k) - 1>>
    <3>. TAKE k \in 1..n
    <3>1. out_pos + k \in 1..Len(out_buf)
      BY <1>3, <1>4
    <3>2. out_buf[out_pos + k] = <<folder, produced - Len(out_buf) + (out_pos + k) - 1>>
      BY <3>1 DEF FolderInv, SevenZipInv, BufferOK
    <3>3. produced - Len(out_buf) + (out_pos + k) - 1 = b + (Len(got) + k) - 1
      BY <1>12, <1>13
    <3>4. folder = f
      BY <1>1, ExtractionFacts DEF f
    <3>. QED
      BY <3>2, <3>3, <3>4
  <2>4. \A k \in 1..Len(got') : got'[k] = <<f, b + k - 1>>
    <3>. TAKE k \in 1..Len(got')
    <3>1. CASE k \in 1..Len(got)
      BY <1>6, <2>2, <3>1
    <3>2. CASE k \notin 1..Len(got)
      <4>1. k - Len(got) \in 1..n /\ Len(got) + (k - Len(got)) = k
        BY <1>3, <1>4, <1>6, <3>2
      <4>. QED
        BY <1>6, <2>3, <4>1
    <3>. QED
      BY <3>1, <3>2
  <2>5. Len(got') <= z /\ DOMAIN got' = 1..Len(got')
    BY <1>12, <1>13
  <2>6. outcome' = "none"
    BY <1>1, <1>2, ExtractionFacts
  <2>. QED
    BY <1>12, <2>4, <2>5, <2>6 DEF OwnBytes, f, z
<1>. QED
  BY <1>2, <1>7, <1>8, <1>10, <1>11 DEF FolderInv, SevenZipInv

(* Every step of the sequential 7z decoder preserves its invariant. *)
LEMMA FolderStep ==
  ASSUME FolderInv, FolderNext
  PROVE  FolderInv'
BY ResetStep, NextStep, NoNextStep, NothingToExtractStep, TryParallelStep, BeginFolderStep,
   CannotBeginStep, GoOnStep, FillStep, FillFailsStep, SkipStep, SkippedStep, CopyStep,
   SinkRefusesStep, CopiedStep
   DEF FolderNext, Caller, Extraction

(* Beginning a folder adds to the folders begun one that is not among them. *)
LEMMA BegunOnceStep ==
  ASSUME FolderInv, BegunOnce, FolderNext
  PROVE  BegunOnce'
<1>1. CASE UNCHANGED begun
  BY <1>1 DEF BegunOnce
<1>2. CASE Reset
  BY <1>2 DEF Reset, BegunOnce
<1>3. CASE BeginFolder
  <2>. DEFINE n == Len(begun)
              f == File[current].folder
  <2>1. /\ begun \in Seq(Nat) /\ n \in Nat /\ f \in Nat
        /\ begun' = Append(begun, f)
    BY <1>3, StateFacts, FileFacts DEF FolderInv, FolderTyped, BeginFolder, Wanted
  <2>2. \A k \in 1..n : begun[k] # f
    BY <1>3, BegunIsNew DEF BeginFolder
  <2>3. \A j, k \in 1..n : begun[j] = begun[k] => j = k
    BY <2>1 DEF BegunOnce
  <2>. HIDE DEF f
  <2>4. /\ DOMAIN begun' = 1..(n + 1) /\ begun'[n + 1] = f
        /\ \A k \in 1..n : begun'[k] = begun[k]
        /\ \A k \in 1..(n + 1) : k \in 1..n \/ k = n + 1
    BY <2>1
  <2>. HIDE DEF n
  <2>5. \A j, k \in 1..(n + 1) : begun'[j] = begun'[k] => j = k
    BY <2>2, <2>3, <2>4
  <2>. QED
    BY <2>4, <2>5 DEF BegunOnce
<1>. QED
  BY <1>1, <1>2, <1>3 DEF FolderNext, Caller, Extraction, Next, NoNext, NothingToExtract,
     TryParallel, CannotBegin, GoOn, Fill, FillFails, Skip, Skipped, Copy, SinkRefuses, Copied

-------------------------------------------------------------------------------
(* Zip, one action at a time. *)

(* Every step of the zip backend preserves its invariant. *)
LEMMA ZipStepOK ==
  ASSUME FolderTyped, ZipInv, Zip!ZipStep, UNCHANGED <<streamVars, want, begun>>
  PROVE  FolderTyped' /\ ZipInv'
<1>1. /\ Len(File) \in Nat /\ MaxWalks \in Nat /\ <<>> \in Seq(Nat \X Nat)
      /\ got \in Seq(Nat \X Nat) /\ Len(got) \in Nat
  BY FileFacts DEF FolderTyped
<1>2. CASE Zip!ZipReset
  BY <1>1, <1>2 DEF FolderTyped, ZipInv, WalkOK, Zip!ZipReset, Zip!Between, streamVars
<1>3. CASE Zip!ZipNext
  BY <1>1, <1>3 DEF FolderTyped, ZipInv, WalkOK, Zip!ZipNext, Zip!Between, streamVars
<1>4. CASE Zip!ZipNoNext
  BY <1>1, <1>4 DEF FolderTyped, ZipInv, WalkOK, Zip!ZipNoNext, Zip!Between, streamVars
<1>5. CASE Zip!ZipExtract
  BY <1>1, <1>5 DEF FolderTyped, ZipInv, WalkOK, Zip!ZipExtract, streamVars
<1>6. CASE Zip!Chunk
  <2>1. PICK n \in 1..BufSize : got' = got \o [i \in 1..n |-> <<current, Len(got) + i - 1>>]
    BY <1>6 DEF Zip!Chunk
  <2>. DEFINE U == Nat \X Nat
              more == [i \in 1..n |-> <<current, Len(got) + i - 1>>]
  <2>2. n \in Nat /\ current \in Nat
    BY FileFacts, StateFacts
  <2>3. more \in Seq(U) /\ Len(more) = n /\ \A i \in 1..n : more[i] = <<current, Len(got) + i - 1>>
    <3>1. \A i \in 1..n : <<current, Len(got) + i - 1>> \in U
      BY <1>1, <2>2
    <3>. HIDE DEF U
    <3>2. more \in [1..n -> U] /\ \A i \in 1..n : more[i] = <<current, Len(got) + i - 1>>
      BY <3>1
    <3>. HIDE DEF more
    <3>3. more \in Seq(U) /\ Len(more) = n
      BY <2>2, <3>2
    <3>. QED
      BY <3>2, <3>3
  <2>4. got \in Seq(U)
    BY <1>1
  <2>. HIDE DEF U, more
  <2>5. /\ got' \in Seq(U) /\ Len(got') = Len(got) + n
        /\ \A k \in 1..Len(got) : got'[k] = got[k]
        /\ \A k \in 1..n : got'[Len(got) + k] = more[k]
    <3>1. got' = got \o more /\ Len(more) = n
      BY <2>1, <2>3 DEF more
    <3>2. /\ got \o more \in Seq(U) /\ Len(got \o more) = Len(got) + Len(more)
          /\ \A k \in 1..Len(got) : (got \o more)[k] = got[k]
          /\ \A k \in 1..Len(more) : (got \o more)[Len(got) + k] = more[k]
      <4>1. got \in Seq(U) /\ more \in Seq(U)
        BY <2>3, <2>4
      <4>. QED
        BY <4>1, Concatenated
    <3>. QED
      BY <3>1, <3>2
  <2>6. \A k \in 1..Len(got') : got'[k] = <<current, k - 1>>
    <3>. TAKE k \in 1..Len(got')
    <3>1. CASE k \in 1..Len(got)
      BY <2>5, <3>1 DEF ZipInv
    <3>2. CASE k \notin 1..Len(got)
      <4>1. k - Len(got) \in 1..n /\ Len(got) + (k - Len(got)) = k
        BY <1>1, <2>2, <2>5, <3>2
      <4>. QED
        BY <1>1, <2>3, <2>5, <4>1
    <3>. QED
      BY <3>1, <3>2
  <2>7. UNCHANGED <<cursor, current, pc, outcome, walks>> /\ pc = "copy"
    BY <1>6 DEF Zip!Chunk
  <2>8. FolderTyped'
    BY <2>5, <2>7 DEF FolderTyped, streamVars, U
  <2>9. ZipInv'
    BY <2>6, <2>7 DEF ZipInv, WalkOK
  <2>. QED
    BY <2>8, <2>9
<1>7. CASE Zip!ZipDone
  BY <1>1, <1>7 DEF FolderTyped, ZipInv, WalkOK, Zip!ZipDone, streamVars
<1>8. CASE Zip!ZipFails
  BY <1>1, <1>8 DEF FolderTyped, ZipInv, WalkOK, Zip!ZipFails, streamVars
<1>. QED
  BY <1>2, <1>3, <1>4, <1>5, <1>6, <1>7, <1>8 DEF Zip!ZipStep, Zip!ZipExtraction

-------------------------------------------------------------------------------
(* The backends together. *)

(* The invariant holds to begin with. *)
LEMMA BackendsInitInv == BackendsInit => BackendsInv
<1>. SUFFICES ASSUME BackendsInit PROVE BackendsInv
  OBVIOUS
<1>1. <<>> \in Seq(Nat \X Nat) /\ <<>> \in Seq(Nat) /\ Len(<<>>) = 0 /\ 0 \in 0..0
  OBVIOUS
<1>2. FolderTyped
  <2>1. out_pos \in 0..Len(out_buf) /\ Len(out_buf) <= BufSize /\ walks \in 0..MaxWalks
    BY <1>1, FileFacts DEF BackendsInit, FolderInit
  <2>2. cursor \in 1..(Len(File) + 1) /\ current \in 0..Len(File)
    BY FileFacts DEF BackendsInit, FolderInit
  <2>. QED
    BY <1>1, <2>1, <2>2 DEF BackendsInit, FolderInit, FolderTyped
<1>3. BackendsTyped
  BY <1>2, BackendsAssumption DEF BackendsInit, BackendsTyped
<1>. QED
  BY <1>3 DEF BackendsInit, FolderInit, BackendsInv, BegunOnce

(* A decoder that has just been opened, of either kind. *)
LEMMA OpenedAnew ==
  ASSUME BackendsInv, OpenBackend
  PROVE  BackendsTyped' /\ SevenZipInv' /\ ZipInv' /\ BegunOnce'
<1>1. /\ cursor' = 1 /\ current' = 0 /\ walks' = 0
      /\ folder_open' = FALSE /\ folder' = 0 /\ produced' = 0
      /\ out_buf' = <<>> /\ out_pos' = 0 /\ in_place' = FALSE
      /\ pc' = "idle" /\ want' = 0 /\ outcome' = "none"
      /\ got' = <<>> /\ begun' = <<>> /\ content' = content
      /\ v' \in {"zip", "7z"} /\ opens' = opens + 1 /\ opens < MaxOpens
  BY DEF OpenBackend
<1>2. <<>> \in Seq(Nat \X Nat) /\ <<>> \in Seq(Nat) /\ Len(<<>>) = 0 /\ 0 \in 0..0
      /\ <<>> \in [1..0 -> 1..Len(File)]
  OBVIOUS
<1>3. FolderTyped'
  <2>1. out_pos' \in 0..Len(out_buf') /\ Len(out_buf') <= BufSize /\ walks' \in 0..MaxWalks
    BY <1>1, <1>2, FileFacts
  <2>2. cursor' \in 1..(Len(File) + 1) /\ current' \in 0..Len(File)
    BY <1>1, FileFacts
  <2>. QED
    BY <1>1, <1>2, <2>1, <2>2 DEF FolderTyped
<1>4. BackendsTyped'
  BY <1>1, <1>3, BackendsAssumption DEF BackendsInv, BackendsTyped
<1>5. BegunOK'
  <2>1. BegunFor(<<>>)'
    BY <1>1, <1>2 DEF BegunFor
  <2>. QED
    BY <1>1, <1>2, <2>1 DEF BegunOK
<1>6. WalkOK' /\ BufferOK' /\ PositionOK' /\ AheadOK' /\ OwnBytes' /\ ZipInv'
  BY <1>1, <1>2 DEF WalkOK, BufferOK, PositionOK, AheadOK, OwnBytes, ZipInv
<1>7. BegunOnce'
  BY <1>1 DEF BegunOnce
<1>. QED
  BY <1>4, <1>5, <1>6, <1>7 DEF SevenZipInv

(* Steps that touch nothing of the decoders. *)
LEMMA DecodersKept ==
  ASSUME BackendsInv, UNCHANGED folderVars
  PROVE  /\ FolderTyped' /\ BegunOnce' /\ (SevenZipInv => SevenZipInv') /\ (ZipInv => ZipInv')
<1>1. UNCHANGED <<cursor, current, walks, folder_open, folder, produced, out_buf, out_pos, in_place,
                  pc, want, outcome, got, begun>>
  BY DEF folderVars, walkVars, streamVars
<1>2. FolderTyped' /\ BegunOnce'
  BY <1>1 DEF BackendsInv, BackendsTyped, FolderTyped, BegunOnce
<1>3. ZipInv => ZipInv'
  BY <1>1 DEF ZipInv, WalkOK
<1>4. SevenZipInv => SevenZipInv'
  <2>. SUFFICES ASSUME SevenZipInv PROVE SevenZipInv'
    OBVIOUS
  <2>1. WalkOK' /\ BufferOK' /\ OwnBytes'
    BY <1>1 DEF SevenZipInv, WalkOK, BufferOK, OwnBytes, FileStart
  <2>2. PositionOK' /\ AheadOK'
    BY <1>1 DEF SevenZipInv, PositionOK, AheadOK, Ahead, FOLDER_POS, Available, FileStart
  <2>3. BegunOK'
    <3>1. FolderTyped
      BY DEF BackendsInv, BackendsTyped
    <3>2. Ahead' = Ahead
      BY <1>1 DEF Ahead
    <3>. QED
      BY <1>1, <3>1, <3>2, BegunStays DEF SevenZipInv
  <2>. QED
    BY <2>1, <2>2, <2>3 DEF SevenZipInv
<1>. QED
  BY <1>2, <1>3, <1>4

(* The invariant is inductive. *)
LEMMA BackendsNextInv == BackendsInv /\ [BackendsNext]_backendVars => BackendsInv'
<1>. SUFFICES ASSUME BackendsInv, [BackendsNext]_backendVars PROVE BackendsInv'
  OBVIOUS
<1>1. CASE OpenBackend
  BY <1>1, OpenedAnew DEF BackendsInv
<1>2. CASE CannotOpen
  <2>1. opens' \in 0..MaxOpens
    BY <1>2, BackendsAssumption DEF CannotOpen, BackendsInv, BackendsTyped
  <2>. QED
    BY <1>2, <2>1, DecodersKept DEF CannotOpen, BackendsInv, BackendsTyped
<1>3. CASE CloseBackend
  BY <1>3, DecodersKept DEF CloseBackend, BackendsInv, BackendsTyped
<1>4. CASE SevenZipCall
  <2>1. FolderInv /\ FolderNext /\ v = "7z" /\ UNCHANGED <<content, v, opens>>
    BY <1>4 DEF SevenZipCall, BackendsInv, BackendsTyped, FolderInv
  <2>2. FolderInv'
    BY <2>1, FolderStep
  <2>3. BegunOnce'
    BY <2>1, BegunOnceStep DEF BackendsInv
  <2>. QED
    BY <2>1, <2>2, <2>3 DEF BackendsInv, BackendsTyped, FolderInv
<1>5. CASE ZipCall
  <2>1. /\ FolderTyped /\ ZipInv /\ Zip!ZipStep /\ v = "zip"
        /\ UNCHANGED <<streamVars, want, begun>> /\ UNCHANGED <<content, v, opens>>
    BY <1>5 DEF ZipCall, BackendsInv, BackendsTyped
  <2>2. FolderTyped' /\ ZipInv'
    BY <2>1, ZipStepOK
  <2>. QED
    BY <2>1, <2>2 DEF BackendsInv, BackendsTyped, BegunOnce
<1>6. CASE UNCHANGED backendVars
  BY <1>6, DecodersKept DEF backendVars, BackendsInv, BackendsTyped
<1>. QED
  BY <1>1, <1>2, <1>3, <1>4, <1>5, <1>6 DEF BackendsNext

(* Whatever archive is opened and however it is walked, the inductive      *)
(* invariant of the backends holds.                                        *)
THEOREM BackendsInvariant == BackendsSpec => []BackendsInv
<1>. QED
  BY BackendsInitInv, BackendsNextInv, PTL DEF BackendsSpec

(* The type invariant, for every archive and size of a round.              *)
THEOREM BackendsTypes == BackendsSpec => []BackendsTypeOK
<1>1. BackendsInv => BackendsTypeOK
  BY DEF BackendsInv, BackendsTyped, FolderTyped, BackendsTypeOK, FolderTypeOK
<1>. QED
  BY <1>1, BackendsInvariant, PTL

(* A file gets its own bytes and no others, and all of them on success,    *)
(* whatever was extracted, skipped, refused or tried in parallel before    *)
(* (folder_fill, folder_skip_to, sevenz_extract_current).                  *)
THEOREM FilesGetTheirOwn == BackendsSpec => []SevenZipOwnBytes
<1>1. BackendsInv => SevenZipOwnBytes
  BY DEF BackendsInv, SevenZipInv, SevenZipOwnBytes
<1>. QED
  BY <1>1, BackendsInvariant, PTL

(* One walk decodes each folder once at most, whichever of its files are   *)
(* wanted (the test before folder_begin in sevenz_extract_current).        *)
THEOREM FoldersBeginOnce == BackendsSpec => []BegunOnce
<1>1. BackendsInv => BegunOnce
  BY DEF BackendsInv
<1>. QED
  BY <1>1, BackendsInvariant, PTL

-------------------------------------------------------------------------------
(* Both backends implement what the extractor wants of an archive.         *)

(* What is shown of an open archive are its walk and what the sink has     *)
(* taken, for all of that is the entry's own data.                         *)
LEMMA SourceView ==
  ASSUME BackendsInv
  PROVE  /\ v # "none" => /\ WhenOpen(cursor - 1, 0) = cursor - 1 /\ WhenOpen(current, 0) = current
                          /\ WhenOpen(Taken, 0) = Len(got) /\ WhenOpen(outcome, "none") = outcome
         /\ v = "none" => /\ WhenOpen(cursor - 1, 0) = 0 /\ WhenOpen(current, 0) = 0
                          /\ WhenOpen(Taken, 0) = 0 /\ WhenOpen(outcome, "none") = "none"
<1>1. ASSUME v # "none" PROVE Taken = Len(got)
  <2>1. DOMAIN got = 1..Len(got) /\ v \in {"7z", "zip"}
    BY <1>1 DEF BackendsInv, BackendsTyped, FolderTyped
  <2>2. CASE v = "zip"
    BY <2>1, <2>2 DEF Taken, OwnUnit, BackendsInv, ZipInv
  <2>3. CASE v = "7z" /\ current # 0
    BY <2>1, <2>3 DEF Taken, OwnUnit, BackendsInv, SevenZipInv, OwnBytes
  <2>4. CASE v = "7z" /\ current = 0
    <3>1. got = <<>>
      BY <2>4 DEF BackendsInv, SevenZipInv, WalkOK
    <3>. QED
      BY <3>1 DEF Taken
  <2>. QED
    BY <2>1, <2>2, <2>3, <2>4
<1>. QED
  BY <1>1 DEF WhenOpen

(* The concrete side of the steps of an open source. *)
Rewound  == cursor' = 1 /\ current' = 0 /\ Len(got') = 0 /\ outcome' = "none"
Advanced == /\ cursor <= Len(File) /\ cursor' = cursor + 1 /\ current' = cursor
            /\ Len(got') = 0 /\ outcome' = "none"
Passed   == cursor' = cursor /\ current' = 0 /\ Len(got') = 0 /\ outcome' = "none"
InHand   == /\ current # 0 /\ outcome = "none" /\ cursor' = cursor /\ current' = current
HandedOut == InHand /\ outcome' = "none" /\ Len(got') > Len(got)
Succeeded == InHand /\ outcome' = "ok" /\ Len(got') = File[current].size
Failed    == InHand /\ outcome' = "failed" /\ Len(got') = Len(got)
NothingShown == UNCHANGED <<cursor, current, outcome>> /\ Len(got') = Len(got)

(* A step that moves the walk in one of seven ways is a step of EntrySource. *)
LEMMA OpenSourceStep ==
  ASSUME BackendsInv, BackendsInv', v # "none", v' = v,
         \/ Rewound \/ Advanced \/ Passed \/ HandedOut \/ Succeeded \/ Failed \/ NothingShown
  PROVE  [Source!SourceNext]_(Source!sourceVars)
<1>1. /\ WhenOpen(cursor - 1, 0) = cursor - 1 /\ WhenOpen(current, 0) = current
      /\ WhenOpen(Taken, 0) = Len(got) /\ WhenOpen(outcome, "none") = outcome
  BY SourceView
<1>2. /\ WhenOpen(cursor - 1, 0)' = cursor' - 1 /\ WhenOpen(current, 0)' = current'
      /\ WhenOpen(Taken, 0)' = Len(got') /\ WhenOpen(outcome, "none")' = outcome'
  <2>1. (v # "none" => /\ WhenOpen(cursor - 1, 0) = cursor - 1 /\ WhenOpen(current, 0) = current
                       /\ WhenOpen(Taken, 0) = Len(got) /\ WhenOpen(outcome, "none") = outcome)'
    BY SourceView, PTL
  <2>. QED
    BY <2>1
<1>3. /\ cursor \in Nat /\ cursor' \in Nat /\ current \in 0..Len(File) /\ Len(File) \in Nat
      /\ Len(got) \in Nat /\ Len(got') \in Nat
  <2>1. FolderTyped /\ FolderTyped'
    BY DEF BackendsInv, BackendsTyped
  <2>2. (FolderTyped => Len(got) \in Nat)'
    BY StateFacts, PTL
  <2>3. cursor \in Nat /\ cursor' \in Nat
    BY <2>1, FileFacts DEF FolderTyped
  <2>. QED
    BY <2>1, <2>2, <2>3, StateFacts, FileFacts DEF FolderTyped
<1>4. /\ Len([i \in DOMAIN File |-> File[i].size]) = Len(File)
      /\ \A i \in 1..Len(File) : [j \in DOMAIN File |-> File[j].size][i] = File[i].size
  BY FileFacts
<1>5. CASE Rewound
  BY <1>1, <1>2, <1>5 DEF Rewound, Source!SourceNext, Source!Rewind, Source!Hold
<1>6. CASE Advanced
  BY <1>1, <1>2, <1>3, <1>4, <1>6 DEF Advanced, Source!SourceNext, Source!Advance, Source!Hold
<1>7. CASE Passed
  BY <1>1, <1>2, <1>7 DEF Passed, Source!SourceNext, Source!NoEntry, Source!Hold
<1>8. CASE HandedOut
  BY <1>1, <1>2, <1>3, <1>8 DEF HandedOut, InHand, Source!SourceNext, Source!HandOut
<1>9. CASE Succeeded
  BY <1>1, <1>2, <1>3, <1>4, <1>9 DEF Succeeded, InHand, Source!SourceNext, Source!Succeed
<1>10. CASE Failed
  BY <1>1, <1>2, <1>10 DEF Failed, InHand, Source!SourceNext, Source!Fail
<1>11. CASE NothingShown
  BY <1>1, <1>2, <1>11 DEF NothingShown, Source!sourceVars
<1>. QED
  BY <1>5, <1>6, <1>7, <1>8, <1>9, <1>10, <1>11

(* Every step of the 7z decoder moves the walk in one of those ways. *)
LEMMA SevenZipShows ==
  ASSUME FolderInv, FolderInv', FolderNext
  PROVE  Rewound \/ Advanced \/ Passed \/ HandedOut \/ Succeeded \/ Failed \/ NothingShown
<1>1. Len(got) \in Nat
  BY StateFacts DEF FolderInv
<1>2. CASE Reset
  BY <1>2 DEF Reset, Rewound
<1>3. CASE Next
  BY <1>3 DEF Next, Advanced
<1>4. CASE NoNext
  BY <1>4 DEF NoNext, Passed
<1>5. CASE NothingToExtract
  <2>1. got = <<>> /\ UNCHANGED <<cursor, current, got>> /\ outcome' = "ok" /\ current # 0
        /\ outcome = "none" /\ File[current].size = 0
    BY <1>5 DEF NothingToExtract, Wanted, Leave, walkVars, FolderInv, SevenZipInv, WalkOK
  <2>. QED
    BY <2>1 DEF Succeeded, InHand
<1>6. CASE TryParallel
  <2>1. UNCHANGED <<cursor, current>> /\ current # 0 /\ outcome = "none"
    BY <1>6 DEF TryParallel, Wanted, walkVars
  <2>2. CASE UNCHANGED <<outcome, got>>
    BY <2>1, <2>2 DEF NothingShown
  <2>3. CASE outcome' = "ok"
    BY <2>1, <2>3 DEF Succeeded, InHand, FolderInv, SevenZipInv, OwnBytes
  <2>. QED
    BY <1>6, <2>2, <2>3 DEF TryParallel
<1>7. CASE BeginFolder \/ GoOn \/ Fill \/ Skip \/ Skipped
  BY <1>7 DEF BeginFolder, GoOn, Fill, Skip, Skipped, NothingShown, walkVars
<1>8. CASE CannotBegin
  BY <1>8 DEF CannotBegin, Wanted, Leave, Failed, InHand, walkVars
<1>9. CASE FillFails \/ SinkRefuses
  <2>1. pc # "idle" /\ outcome' = "failed" /\ UNCHANGED <<cursor, current, got>>
    BY <1>9 DEF FillFails, Hungry, SinkRefuses, Leave, walkVars
  <2>. QED
    BY <2>1 DEF Failed, InHand, FolderInv, SevenZipInv, WalkOK
<1>10. CASE Copied
  <2>1. pc # "idle" /\ outcome' = "ok" /\ UNCHANGED <<cursor, current>>
    BY <1>10 DEF Copied, Leave, walkVars
  <2>. QED
    BY <2>1 DEF Succeeded, InHand, FolderInv, SevenZipInv, WalkOK, OwnBytes
<1>11. CASE Copy
  <2>1. pc = "copy" /\ pc' = "copy" /\ UNCHANGED <<cursor, current, outcome>>
    BY <1>11 DEF Copy, walkVars
  <2>2. /\ Len(got) + want = File[current].size /\ Len(got') + want' = File[current].size
        /\ want \in Nat /\ want' \in Nat /\ Len(got') \in Nat /\ File[current].size \in Nat
        /\ current # 0 /\ outcome = "none"
    <3>1. (FolderTyped => Len(got) \in Nat)'
      BY StateFacts, PTL
    <3>2. Len(got') \in Nat /\ want \in Nat /\ want' \in Nat
      BY <3>1 DEF FolderInv, FolderTyped
    <3>3. Len(got) + want = File[current].size /\ Len(got') + want' = File[current'].size
      BY <2>1 DEF FolderInv, SevenZipInv, PositionOK
    <3>4. File[current].size \in Nat /\ current # 0 /\ outcome = "none"
      BY <2>1, ExtractionFacts
    <3>. QED
      BY <2>1, <3>2, <3>3, <3>4
  <2>3. want' < want
    <3>1. Available \in Nat /\ want \in Nat
      BY StateFacts DEF FolderInv, FolderTyped
    <3>. QED
      BY <1>11, <3>1 DEF Copy, Least
  <2>. QED
    BY <1>1, <2>1, <2>2, <2>3 DEF HandedOut, InHand
<1>. QED
  BY <1>2, <1>3, <1>4, <1>5, <1>6, <1>7, <1>8, <1>9, <1>10, <1>11 DEF FolderNext, Caller, Extraction

(* Every step of the zip backend does as well. *)
LEMMA ZipShows ==
  ASSUME FolderTyped, ZipInv, FolderTyped', ZipInv', Zip!ZipStep
  PROVE  Rewound \/ Advanced \/ Passed \/ HandedOut \/ Succeeded \/ Failed \/ NothingShown
<1>1. Len(got) \in Nat /\ Len(got') \in Nat
  <2>1. (FolderTyped => Len(got) \in Nat)'
    BY StateFacts, PTL
  <2>. QED
    BY <2>1, StateFacts
<1>2. CASE Zip!ZipReset
  BY <1>2 DEF Zip!ZipReset, Rewound
<1>3. CASE Zip!ZipNext
  BY <1>3 DEF Zip!ZipNext, Advanced
<1>4. CASE Zip!ZipNoNext
  BY <1>4 DEF Zip!ZipNoNext, Passed
<1>5. CASE Zip!ZipExtract
  BY <1>5 DEF Zip!ZipExtract, NothingShown
<1>6. CASE Zip!Chunk
  <2>1. UNCHANGED <<cursor, current, outcome>> /\ current # 0 /\ outcome = "none"
    BY <1>6 DEF Zip!Chunk, ZipInv, WalkOK
  <2>2. PICK n \in 1..BufSize : got' = got \o [i \in 1..n |-> <<current, Len(got) + i - 1>>]
    BY <1>6 DEF Zip!Chunk
  <2>3. n \in Nat /\ n > 0
    BY FileFacts
  <2>4. Len(got') = Len(got) + n
    <3>. DEFINE more == [i \in 1..n |-> <<current, Len(got) + i - 1>>]
                U    == Nat \X Nat
    <3>1. \A i \in 1..n : <<current, Len(got) + i - 1>> \in U
      BY <1>1, <2>3, StateFacts
    <3>2. got \in Seq(U) /\ got' = got \o more
      BY <2>2 DEF FolderTyped
    <3>. HIDE DEF U
    <3>3. more \in [1..n -> U]
      BY <3>1
    <3>. HIDE DEF more
    <3>4. more \in Seq(U) /\ Len(more) = n
      BY <2>3, <3>3
    <3>5. Len(got \o more) = Len(got) + Len(more)
      BY <3>2, <3>4, Concatenated
    <3>. QED
      BY <3>2, <3>4, <3>5
  <2>. QED
    BY <1>1, <2>1, <2>3, <2>4 DEF HandedOut, InHand
<1>7. CASE Zip!ZipDone
  BY <1>7 DEF Zip!ZipDone, ZipInv, WalkOK, Succeeded, InHand
<1>8. CASE Zip!ZipFails
  BY <1>8 DEF Zip!ZipFails, ZipInv, WalkOK, Failed, InHand
<1>. QED
  BY <1>2, <1>3, <1>4, <1>5, <1>6, <1>7, <1>8 DEF Zip!ZipStep, Zip!ZipExtraction

(* Every step maps to a step of EntrySource or a stutter. *)
LEMMA BackendsRefine ==
  ASSUME BackendsInv, BackendsInv', [BackendsNext]_backendVars
  PROVE  [Source!SourceNext]_(Source!sourceVars)
<1>1. (v = "none" => /\ WhenOpen(cursor - 1, 0) = 0 /\ WhenOpen(current, 0) = 0
                     /\ WhenOpen(Taken, 0) = 0 /\ WhenOpen(outcome, "none") = "none")'
  BY SourceView, PTL
<1>2. (v # "none" => /\ WhenOpen(cursor - 1, 0) = cursor - 1 /\ WhenOpen(current, 0) = current
                     /\ WhenOpen(Taken, 0) = Len(got) /\ WhenOpen(outcome, "none") = outcome)'
  BY SourceView, PTL
<1>3. CASE OpenBackend
  <2>1. v = "none" /\ v' # "none" /\ cursor' = 1 /\ current' = 0 /\ got' = <<>> /\ outcome' = "none"
    BY <1>3 DEF OpenBackend
  <2>. QED
    BY <1>2, <2>1 DEF Source!SourceNext, Source!OpenSource, Source!Hold
<1>4. CASE CannotOpen
  <2>1. v = "none" /\ v' = "none"
    BY <1>4 DEF CannotOpen
  <2>. QED
    BY <1>1, <2>1, SourceView DEF Source!sourceVars
<1>5. CASE CloseBackend
  <2>1. v # "none" /\ v' = "none"
    BY <1>5 DEF CloseBackend
  <2>. QED
    BY <1>1, <2>1 DEF Source!SourceNext, Source!CloseSource, Source!Hold
<1>6. CASE SevenZipCall
  <2>1. v = "7z" /\ v' = v /\ FolderNext /\ FolderInv /\ FolderInv'
    BY <1>6 DEF SevenZipCall, BackendsInv, BackendsTyped, FolderInv
  <2>. QED
    BY <2>1, SevenZipShows, OpenSourceStep
<1>7. CASE ZipCall
  <2>1. v = "zip" /\ v' = v /\ Zip!ZipStep /\ FolderTyped /\ ZipInv /\ FolderTyped' /\ ZipInv'
    BY <1>7 DEF ZipCall, BackendsInv, BackendsTyped
  <2>. QED
    BY <2>1, ZipShows, OpenSourceStep
<1>8. CASE UNCHANGED backendVars
  <2>1. UNCHANGED <<v, cursor, current, outcome, got>>
    BY <1>8 DEF backendVars, folderVars, walkVars
  <2>2. CASE v = "none"
    BY <1>1, <2>1, <2>2, SourceView DEF Source!sourceVars
  <2>3. CASE v # "none"
    BY <1>2, <2>1, <2>3, SourceView DEF Source!sourceVars
  <2>. QED
    BY <2>2, <2>3
<1>. QED
  BY <1>3, <1>4, <1>5, <1>6, <1>7, <1>8 DEF BackendsNext

(* Zip and 7z look the same to the extractor: whichever decoder is behind  *)
(* the table, it implements the walk with each entry's own data in order   *)
(* and success only with all of it (the table of ua_backend_vtable).       *)
THEOREM BackendsImplementSource == BackendsSpec => ImplementsSource
<1>1. BackendsInit => Source!SourceInit
  BY DEF BackendsInit, Source!SourceInit, WhenOpen
<1>2. BackendsInv /\ BackendsInv' /\ [BackendsNext]_backendVars
        => [Source!SourceNext]_(Source!sourceVars)
  BY BackendsRefine
<1>. QED
  BY <1>1, <1>2, BackendsInitInv, BackendsNextInv, PTL
     DEF BackendsSpec, ImplementsSource, Source!SourceSpec
===============================================================================
