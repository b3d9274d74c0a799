------------------------------ MODULE QueueLine -------------------------------
(***************************************************************************)
(* The lines of queue.txt (src/core/ua_queue.c), as operators.             *)
(*                                                                         *)
(*   <archive_path> [-> <destination_path>]                                *)
(*                                                                         *)
(* A line is the sequence of its words, its blanks included; a path is one *)
(* word, or several with blanks or arrows between them, so that none is    *)
(* just a blank or an arrow, and none begins with a hash.  Whether a path  *)
(* fits its buffer is left out.                                            *)
(***************************************************************************)
EXTENDS Naturals, SequencesExt

CONSTANT Word   \* what a line is made of

Blank == "_"
Arrow == "->"
Hash  == "#"

ASSUME WordAssumption == {Blank, Arrow, Hash} \subseteq Word

Where(text, words) == {i \in DOMAIN text : text[i] \in words}

(* copy_trimmed: empty when nothing but blanks is left, which the caller   *)
(* takes for an error.                                                     *)
Trim(text) == LET solid == DOMAIN text \ Where(text, {Blank})
              IN  IF solid = {} THEN <<>> ELSE SubSeq(text, Min(solid), Max(solid))

(* Neither an archive nor an error: a blank line or a comment. *)
NothingHere(text) == Trim(text) = <<>> \/ Head(Trim(text)) = Hash

NoJobHere == [archive |-> <<>>, dest |-> <<>>]

Both(archive, dest) == IF <<>> \in {archive, dest} THEN NoJobHere
                       ELSE [archive |-> archive, dest |-> dest]

SplitAt(text, i) == Both(Trim(SubSeq(text, 1, i - 1)),
                         Trim(SubSeq(text, i + 1, Len(text))))

(* Mutant of ParseLine: the last arrow separates. *)
ParseLineByLastArrow(text) ==
  IF NothingHere(text) THEN NoJobHere
  ELSE IF Where(text, {Arrow}) = {} THEN [archive |-> Trim(text), dest |-> <<>>]
  ELSE SplitAt(text, Max(Where(text, {Arrow})))

(* The first arrow separates, a later one belongs to the destination.  An  *)
(* empty destination stands for the archive's own directory.               *)
ParseLine(text) ==
  IF NothingHere(text) THEN NoJobHere
  ELSE IF Where(text, {Arrow}) = {} THEN [archive |-> Trim(text), dest |-> <<>>]
  ELSE SplitAt(text, Min(Where(text, {Arrow})))
===============================================================================
