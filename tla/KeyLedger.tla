------------------------------ MODULE KeyLedger ------------------------------
(***************************************************************************)
(* What queue.status keeps of the promise of ua_status.h, free of the      *)
(* ring, the temporary file and the rename.                                *)
(*                                                                         *)
(* There are two sets of processed archives: the one the running driver    *)
(* consults (ua_status_seen) and the one a restart would find.  A job adds *)
(* its key to the first, and displaces another one at most, and only when  *)
(* every slot is taken; saving makes the second equal to the first in one  *)
(* indivisible step; a crash or a shutdown leaves only the second.  A      *)
(* start that fails to read all of it goes on with what it has read, and   *)
(* what it has missed is gone with the next save.                          *)
(***************************************************************************)
EXTENDS Naturals

CONSTANTS LedgerKey,   \* what identifies a processed archive
          Slots,       \* how many records are kept
          Reload       \* what a key is after being written and parsed again

VARIABLES known,   \* keys the running program knows; {} while it is down
          stored,  \* keys a restart will find
          used,    \* slots taken in memory
          up,     \* is the program running?
          intact  \* has the last start or save dealt with all of the keys?

ledgerVars == <<known, stored, used, up, intact>>

LedgerInit == known = {} /\ stored = {} /\ used = 0 /\ ~up /\ intact = TRUE

(* A restart knows what was stored, all of it unless reading it failed. *)
Start == /\ ~up
         /\ up' = TRUE
         /\ known' \subseteq {Reload[k] : k \in stored}
         /\ intact' = TRUE => known' = {Reload[k] : k \in stored}
         /\ used' \in 0..Slots
         /\ UNCHANGED stored

(* Nothing is given up while a slot is free, and one key at most otherwise. *)
Learn == /\ up
         /\ \E k \in LedgerKey, dropped \in SUBSET known :
              /\ k \notin dropped
              /\ \A a, b \in dropped : a = b
              /\ dropped # {} => used = Slots
              /\ known' = (known \ dropped) \cup {k}
         /\ used' \in used..Slots
         /\ UNCHANGED <<stored, up, intact>>

Drop == /\ up
        /\ known' \in SUBSET known
        /\ used' \in 0..used
        /\ UNCHANGED <<stored, up, intact>>

(* All of the known keys are stored at once, never some of them. *)
Store == /\ up
         /\ stored' = known
         /\ intact' = TRUE
         /\ UNCHANGED <<known, used, up>>

StoreFails == /\ up
              /\ intact' = FALSE
              /\ UNCHANGED <<known, stored, used, up>>

Stop == /\ up
        /\ up' = FALSE
        /\ known' = {}
        /\ used' = 0
        /\ UNCHANGED <<stored, intact>>

LedgerNext == Start \/ Learn \/ Drop \/ Store \/ StoreFails \/ Stop

LedgerSpec == LedgerInit /\ [][LedgerNext]_ledgerVars
===============================================================================
