------------------------------- MODULE PathRules -------------------------------
(***************************************************************************)
(* The rules for the names in an archive (src/core/ua_path.c).  A path, as *)
(* an archive or a link writes it, is its components, the empty ones of    *)
(* repeated separators included, and whether it is anchored: it begins     *)
(* with a separator or a drive, or it holds a NUL.  A place is a sequence  *)
(* of names, counted from the destination.                                 *)
(***************************************************************************)
EXTENDS Naturals, Sequences, SequencesExt

CONSTANTS UA_MAX_PATH_COMPONENTS,
          LongestBelow      \* most components that fit below the destination

ASSUME PathAssumption == UA_MAX_PATH_COMPONENTS \in Nat \ {0} /\ LongestBelow \in Nat

Path(parts)     == [parts |-> parts, anchored |-> FALSE]
Anchored(parts) == [parts |-> parts, anchored |-> TRUE]

(* What ua_path_sanitize_entry writes to out. *)
IsName(c)       == c \notin {"", "."}
Sanitized(path) == SelectSeq(path.parts, IsName)

(* ua_path_sanitize_entry: is the path accepted? *)
SanitizeEntry(path) == /\ ~path.anchored
                       /\ ".." \notin Range(path.parts)
                       /\ Len(Sanitized(path)) \in 1..UA_MAX_PATH_COMPONENTS

(* ua_path_join_checked: it is still accepted, unchanged, and it fits. *)
JoinChecked(place) == /\ SanitizeEntry(Path(place)) /\ Sanitized(Path(place)) = place
                      /\ Len(place) <= LongestBelow

(* The levels below the destination after one component more; Escaped and  *)
(* TooDeep are final.                                                      *)
Escaped == UA_MAX_PATH_COMPONENTS + 1
TooDeep == UA_MAX_PATH_COMPONENTS + 2
Level(depth, c) == IF depth \in {Escaped, TooDeep} \/ ~IsName(c) THEN depth
                   ELSE IF c = ".." THEN (IF depth = 0 THEN Escaped ELSE depth - 1)
                   ELSE IF depth = UA_MAX_PATH_COMPONENTS THEN TooDeep ELSE depth + 1

(* Mutant of LinkDepth: the link counts as a directory. *)
LinkDepthOfPlace(link) == Len(link)

(* The depth of the directory that a link is in. *)
LinkDepth(link) == Len(link) - 1

(* ua_path_check_symlink *)
CheckSymlink(link, target) ==
  /\ ~target.anchored /\ target.parts # <<>>
  /\ FoldLeft(Level, LinkDepth(link), target.parts) \notin {Escaped, TooDeep}

-------------------------------------------------------------------------------
(* The reference: where one component leads on from a place, as a file     *)
(* system does it that has no link there.  Once outside, the path is not   *)
(* followed further.                                                       *)

Outside == <<"..">>

Follow(place, c) == IF c \in {"", "."} \/ place = Outside THEN place
                    ELSE IF c # ".." THEN Append(place, c)
                    ELSE IF place = <<>> THEN Outside
                    ELSE Front(place)

StaysBelow(place) == place # Outside
===============================================================================
