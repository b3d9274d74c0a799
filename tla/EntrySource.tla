------------------------------ MODULE EntrySource ------------------------------
(***************************************************************************)
(* What the extractor wants of an archive, whatever its format: a walk     *)
(* over the entries in their order, which can be started again, and for    *)
(* the entry in hand its own data, from the first unit on, in order.  An   *)
(* entry is "ok" when all of its data and nothing else has been handed     *)
(* out; a failure may come at any point, after any amount of data.         *)
(***************************************************************************)
EXTENDS Naturals, Sequences

CONSTANT Sizes     \* the entries: their declared sizes

VARIABLES
  open,            \* whether there is a source at all
  at,              \* entries passed in this walk
  entry,           \* the one in hand, or 0
  taken,           \* units of it that the sink was given
  verdict          \* of the extraction of it: "none" | "ok" | "failed"

sourceVars == <<open, at, entry, taken, verdict>>

Hold(i) == entry' = i /\ taken' = 0 /\ verdict' = "none"

SourceInit == /\ open = FALSE
              /\ at = 0
              /\ entry = 0 /\ taken = 0 /\ verdict = "none"

OpenSource == /\ ~open
              /\ open' = TRUE
              /\ at' = 0
              /\ Hold(0)

CloseSource == /\ open
               /\ open' = FALSE
               /\ at' = 0
               /\ Hold(0)

Rewind == /\ open
          /\ at' = 0
          /\ Hold(0)
          /\ UNCHANGED open

Advance == /\ open /\ at < Len(Sizes)
           /\ at' = at + 1
           /\ Hold(at + 1)
           /\ UNCHANGED open

(* The end of the walk, or an entry that cannot be read. *)
NoEntry == /\ open
           /\ Hold(0)
           /\ UNCHANGED <<open, at>>

(* A stream may turn out longer than declared; then there is no success. *)
HandOut == /\ open /\ entry # 0 /\ verdict = "none"
           /\ taken' \in Nat /\ taken' > taken
           /\ UNCHANGED <<open, at, entry, verdict>>

Succeed == /\ open /\ entry # 0 /\ verdict = "none"
           /\ taken' = Sizes[entry]
           /\ verdict' = "ok"
           /\ UNCHANGED <<open, at, entry>>

Fail == /\ open /\ entry # 0 /\ verdict = "none"
        /\ verdict' = "failed"
        /\ UNCHANGED <<open, at, entry, taken>>

SourceNext == \/ OpenSource \/ CloseSource \/ Rewind \/ Advance \/ NoEntry
              \/ HandOut \/ Succeed \/ Fail

SourceSpec == SourceInit /\ [][SourceNext]_sourceVars
===============================================================================
