------------------------------- MODULE ZipStream -------------------------------
(***************************************************************************)
(* The zip backend (src/backend/ua_be_zip.c) over miniz, which finds any   *)
(* entry by its index, inflates it in chunks, and checks length and CRC of *)
(* what it has handed out at the end.                                      *)
(*                                                                         *)
(* A unit of data is <<entry, offset>>.                                    *)
(***************************************************************************)
EXTENDS Naturals, Sequences

CONSTANTS
  File,      \* the entries; what matters of one is its size
  BufSize,   \* most units in a chunk
  MaxWalks   \* bound: how often the walk is started again

VARIABLES
  cursor,    \* the next entry, from 1
  current,   \* the entry that next returned last; 0 when have_current = 0
  pc,        \* "idle" | "copy"
  outcome,   \* of extract_current: "none" (not called yet) | "ok" | "failed"
  got,       \* history: what the sink was given of the current entry
  walks

zipVars == <<cursor, current, pc, outcome, got, walks>>

ZipInit == /\ cursor = 1 /\ current = 0 /\ walks = 0
           /\ pc = "idle" /\ outcome = "none" /\ got = <<>>

(* The caller gives the archive up at the first failure. *)
Between == pc = "idle" /\ outcome # "failed"

ZipReset == /\ Between /\ walks < MaxWalks
            /\ walks' = walks + 1
            /\ cursor' = 1 /\ current' = 0
            /\ outcome' = "none" /\ got' = <<>>
            /\ UNCHANGED pc

(* A link has its target read here, into the entry. *)
ZipNext == /\ Between /\ cursor <= Len(File)
           /\ current' = cursor
           /\ cursor' = cursor + 1
           /\ outcome' = "none" /\ got' = <<>>
           /\ UNCHANGED <<walks, pc>>

(* The end; or an entry that is damaged, encrypted, packed by an unknown   *)
(* method, or has a name or a target that is too long: the cursor stays.   *)
ZipNoNext == /\ Between
             /\ current' = 0
             /\ outcome' = "none" /\ got' = <<>>
             /\ UNCHANGED <<cursor, walks, pc>>

ZipExtract == /\ pc = "idle" /\ current # 0 /\ outcome = "none"
              /\ pc' = "copy"
              /\ UNCHANGED <<cursor, current, outcome, got, walks>>

(* A chunk goes to the sink before miniz compares the length, so there may *)
(* be one too many; a stream that goes on ends the extraction there.       *)
Chunk == /\ pc = "copy" /\ Len(got) <= File[current].size
         /\ \E n \in 1..BufSize :
              got' = got \o [i \in 1..n |-> <<current, Len(got) + i - 1>>]
         /\ UNCHANGED <<cursor, current, pc, outcome, walks>>

(* Mutant of ZipDone: the length of the stream is not compared. *)
ZipDoneEarly ==
  /\ pc = "copy"
  /\ pc' = "idle" /\ outcome' = "ok"
  /\ UNCHANGED <<cursor, current, got, walks>>

ZipDone == /\ pc = "copy" /\ Len(got) = File[current].size
           /\ pc' = "idle" /\ outcome' = "ok"
           /\ UNCHANGED <<cursor, current, got, walks>>

(* A damaged stream, a wrong length or checksum, a read error, no memory,  *)
(* or a sink that refused the chunk: zip_write_cb keeps its reason.        *)
ZipFails == /\ pc = "copy"
            /\ pc' = "idle" /\ outcome' = "failed"
            /\ UNCHANGED <<cursor, current, got, walks>>

ZipExtraction == Chunk \/ ZipDone \/ ZipFails
ZipStep == ZipReset \/ ZipNext \/ ZipNoNext \/ ZipExtract \/ ZipExtraction

ZipSpec == ZipInit /\ [][ZipStep]_zipVars
===============================================================================
