----------------------------- MODULE MCStatusRing -----------------------------
(* Three paths, one of which holds a newline and is read back as another. *)
EXTENDS StatusRing

CONSTANTS plain, cut, odd, s1, s2, ok, failed

MCPath     == {plain, cut, odd}
MCReadBack == [p \in MCPath |-> IF p = odd THEN cut ELSE p]
===============================================================================
