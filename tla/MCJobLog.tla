------------------------------- MODULE MCJobLog -------------------------------
(* Two watched files, and three archives over a ring of two: both versions *)
(* of a and the first one of b.  The second version of b is not an archive. *)
(* queue.txt names both files, one of them twice, among lines that name    *)
(* none.  Nothing is deleted here, so the outcome of a job decides nothing *)
(* and is only written: all jobs fail, and are still not to be repeated.   *)
EXTENDS JobLog

CONSTANTS a, b

MCPath     == {a, b}
MCStamp    == 1..2
MCReadBack == [p \in MCPath |-> p]
MCWord     == MCPath \cup {Blank, Arrow, Hash, "dir"}
MCQueue    == << <<Hash, a, Arrow, "dir">>,
                 <<a, Blank, Arrow, Blank>>,
                 <<Arrow, a>>,
                 <<Blank, b, Blank, Arrow, Blank, "dir", Arrow, "dir", Blank>>,
                 <<b>> >>
MCResult   == {failed}
MCArchive  == {KeyOf(a, 1), KeyOf(a, 2), KeyOf(b, 1)}
===============================================================================
