------------------------------ MODULE StatusRing ------------------------------
(***************************************************************************)
(* queue.status (src/core/ua_status.c): the record of processed archives.  *)
(*                                                                         *)
(* In memory it is a ring of at most UA_STATUS_MAX records, oldest first.  *)
(* Every change rewrites the whole file: queue.status.tmp is written and   *)
(* closed, then renamed over queue.status.  Each of those calls can fail,  *)
(* and the process can die between any two of them (the console is         *)
(* switched off).  A failed rewrite leaves the change in memory only.      *)
(* Reading the file can fail too, and then nothing says so: the ring       *)
(* starts empty or short, and the next rewrite makes the file as short.    *)
(*                                                                         *)
(* A record is a key -- path, and the size and mtime that stamp one        *)
(* version of the file -- and a result.  processed_at is written and never *)
(* consulted, so it is left out.                                           *)
(***************************************************************************)
EXTENDS Naturals, Sequences

CONSTANTS Path,           \* archive paths
          Stamp,          \* (size, mtime) pairs, compared only for equality
          Result,         \* ua_result values
          UA_STATUS_MAX,
          ReadBack        \* the path parsed from the line written for a path

ASSUME StatusMaxAssumption == UA_STATUS_MAX \in Nat \ {0}

(* The path is the only free text of a line.  The line ends at its first   *)
(* newline and loses its trailing carriage returns, so a path holding one  *)
(* comes back shorter, and that shorter path comes back unchanged.         *)
ASSUME ReadBackAssumption ==
  /\ ReadBack \in [Path -> Path]
  /\ \A p \in Path : ReadBack[ReadBack[p]] = ReadBack[p]

Key == [path : Path, stamp : Stamp]
Rec == [key : Key, result : Result]

VARIABLES
  rec,     \* s->rec[0 .. n-1], oldest first; <<>> while the program is down
  file,    \* the records in queue.status; an absent file is an empty one
  tmp,     \* the records in queue.status.tmp while its rename is pending
  phase,   \* "down" | "idle" | "write" | "rename"
  saved    \* has the last open or rewrite dealt with the whole file?

statusVars == <<rec, file, tmp, phase, saved>>

KeysOf(s) == {s[i].key : i \in DOMAIN s}
Seen(k) == k \in KeysOf(rec)

-------------------------------------------------------------------------------
StatusInit == /\ rec = <<>>
              /\ file = <<>>
              /\ tmp = <<>>
              /\ phase = "down"
              /\ saved = TRUE

(* ua_status_open reads at most UA_STATUS_MAX records. *)
Reread(k) == [k EXCEPT !.path = ReadBack[k.path]]
Capped(n) == IF n < UA_STATUS_MAX THEN n ELSE UA_STATUS_MAX
Loaded(s) == [i \in 1..Capped(Len(s)) |-> [s[i] EXCEPT !.key = Reread(s[i].key)]]

(* A file that cannot be opened and a read that fails look like the end of *)
(* the file: whatever lines came before it, none in the first case, are    *)
(* the ring, and the result is UA_OK.                                      *)
Open == /\ phase = "down"
        /\ \E n \in 0..Len(Loaded(file)) : rec' = SubSeq(Loaded(file), 1, n)
        /\ phase' = "idle"
        /\ saved' = IF rec' = Loaded(file) THEN TRUE ELSE FALSE
        /\ UNCHANGED <<file, tmp>>

(* Mutants of Room: a ring one record too long, one too short, and one     *)
(* that gives up the newest record.                                        *)
RoomForOneMore(s)  == IF Len(s) > UA_STATUS_MAX THEN Tail(s) ELSE s
RoomForOneLess(s)  == IF Len(s) + 1 >= UA_STATUS_MAX /\ s # <<>> THEN Tail(s) ELSE s
RoomFromNewest(s)  == IF Len(s) = UA_STATUS_MAX THEN SubSeq(s, 1, Len(s) - 1) ELSE s

(* ua_status_record up to its flush: the first record of the key is        *)
(* updated where it stands; a new key is appended, at the price of the     *)
(* oldest record when the ring is full.                                    *)
Room(s) == IF Len(s) = UA_STATUS_MAX THEN Tail(s) ELSE s
IsFirst(s, i, k) == s[i].key = k /\ \A j \in 1..(i - 1) : s[j].key # k

Recorded(s, k, r) ==
  IF k \in KeysOf(s)
  THEN [i \in DOMAIN s |-> [s[i] EXCEPT !.result = IF IsFirst(s, i, k) THEN r ELSE @]]
  ELSE Append(Room(s), [key |-> k, result |-> r])

Record(k, r) == /\ phase = "idle"
                /\ rec' = Recorded(rec, k, r)
                /\ phase' = "write"
                /\ UNCHANGED <<file, tmp, saved>>

(* ua_status_forget: every record of the path goes, whatever its stamp,    *)
(* and those that are kept close ranks in their order.                     *)
Forget(p) ==
  LET kept == {i \in DOMAIN rec : rec[i].key.path # p} IN
  /\ phase = "idle"
  /\ \E n \in 0..Len(rec) : \E at \in [1..n -> kept] :
       /\ \A i, j \in 1..n : i < j => at[i] < at[j]
       /\ \A m \in kept : \E i \in 1..n : at[i] = m
       /\ rec' = [i \in 1..n |-> rec[at[i]]]
  /\ phase' = "write"
  /\ UNCHANGED <<file, tmp, saved>>

(* Mutant of WriteTemp: queue.status itself is truncated and written. *)
WriteInPlace == /\ phase = "write"
                /\ file' = <<>>
                /\ tmp' = rec
                /\ phase' = "rename"
                /\ UNCHANGED <<rec, saved>>

(* flush: the temporary file counts only once it was opened, written and   *)
(* closed without an error; any error gives up and leaves queue.status     *)
(* as it was.                                                              *)
WriteTemp == /\ phase = "write"
             /\ tmp' = rec
             /\ phase' = "rename"
             /\ UNCHANGED <<rec, file, saved>>

WriteTempFails == /\ phase = "write"
                  /\ saved' = FALSE
                  /\ phase' = "idle"
                  /\ UNCHANGED <<rec, file, tmp>>

Rename == /\ phase = "rename"
          /\ file' = tmp
          /\ tmp' = <<>>
          /\ saved' = TRUE
          /\ phase' = "idle"
          /\ UNCHANGED rec

(* Mutant of RenameFails: the result of the rename is not looked at. *)
RenameUnchecked == /\ phase = "rename"
                   /\ tmp' = <<>>
                   /\ saved' = TRUE
                   /\ phase' = "idle"
                   /\ UNCHANGED <<rec, file>>

(* The temporary file stays behind; nothing ever reads it. *)
RenameFails == /\ phase = "rename"
               /\ tmp' = <<>>
               /\ saved' = FALSE
               /\ phase' = "idle"
               /\ UNCHANGED <<rec, file>>

Flush == WriteTemp \/ WriteTempFails \/ Rename \/ RenameFails

(* ua_status_close, and equally the death of the process at any point:     *)
(* memory is gone, the file is what the last completed rename made it.     *)
Down == /\ phase # "down"
        /\ phase' = "down"
        /\ rec' = <<>>
        /\ tmp' = <<>>
        /\ UNCHANGED <<file, saved>>

StatusNext == \/ Open
              \/ \E k \in Key, r \in Result : Record(k, r)
              \/ \E p \in Path : Forget(p)
              \/ Flush
              \/ Down

StatusSpec == StatusInit /\ [][StatusNext]_statusVars

-------------------------------------------------------------------------------
StatusTypeOK == /\ {rec, file, tmp} \subseteq Seq(Rec)
                /\ \A s \in {rec, file, tmp} : Len(s) <= UA_STATUS_MAX
                /\ phase \in {"down", "idle", "write", "rename"}
                /\ saved \in BOOLEAN

(* Once a call that changes the records has returned UA_OK, a crash loses  *)
(* nothing that is in memory: the file holds exactly its keys, those of    *)
(* earlier calls whose own rewrite failed included (flush rewrites the     *)
(* whole ring).  A restart finds them when it can read the file.           *)
SavedIsDurable ==
  phase = "idle" /\ saved => KeysOf(Loaded(file)) = {Reread(k) : k \in KeysOf(rec)}

(* The file only ever changes from one complete set of records to the      *)
(* complete set in memory, a key is displaced from memory only by a new    *)
(* one in a full ring, and a restart that reads the whole file knows what  *)
(* the last completed rewrite held, wherever the crash fell; one that does *)
(* not knows a part of it, and puts that part in the place of the whole    *)
(* with its next rewrite (flush, ua_status_record, ua_status_open).        *)
Ledger == INSTANCE KeyLedger WITH
            LedgerKey <- Key,
            Slots     <- UA_STATUS_MAX,
            Reload    <- [k \in Key |-> Reread(k)],
            known     <- KeysOf(rec),
            stored    <- KeysOf(file),
            used      <- Len(rec),
            up        <- phase # "down",
            intact    <- saved

ImplementsLedger == Ledger!LedgerSpec
===============================================================================
