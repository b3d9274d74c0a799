---------------------------- MODULE EntryExtract ------------------------------
(***************************************************************************)
(* What the extractor wants of one file entry, however many threads decode *)
(* it and however often it starts over: nothing is settled while it works, *)
(* success means that the entry is in the file, the whole of it and        *)
(* nothing else, failure promises nothing of the file, and the decision is *)
(* final.                                                                  *)
(***************************************************************************)
CONSTANTS Entry,   \* the units of data that make up the entry
          Others   \* what else may get into the file on the way

VARIABLES content, \* the units in the output file
          verdict  \* "none" | "ok" | "failed"

entryVars == <<content, verdict>>

EntryInit == content = {} /\ verdict = "none"

Work == /\ verdict = "none"
        /\ content' \in SUBSET (Entry \cup Others)
        /\ UNCHANGED verdict

Succeed == /\ verdict = "none"
           /\ content = Entry
           /\ verdict' = "ok"
           /\ UNCHANGED content

Fail == /\ verdict = "none"
        /\ verdict' = "failed"
        /\ UNCHANGED content

EntryNext == Work \/ Succeed \/ Fail

EntrySpec == EntryInit /\ [][EntryNext]_entryVars
===============================================================================
