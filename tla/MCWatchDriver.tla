---------------------------- MODULE MCWatchDriver -----------------------------
(* One watched file and one named in queue.txt.  The first version of a    *)
(* and the second one of b are not archives.                               *)
EXTENDS WatchDriver

CONSTANTS a, b

MCPath     == {a, b}
MCStamp    == 1..2
MCReadBack == [p \in MCPath |-> p]
MCWord     == MCPath \cup {Blank, Arrow, Hash}
MCQueue    == << <<b>> >>
MCWatched  == {a}
MCResult   == {ok, failed}
MCArchive  == {KeyOf(a, 2), KeyOf(b, 1)}
===============================================================================
