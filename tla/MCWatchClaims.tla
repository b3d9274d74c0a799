----------------------------- MODULE MCWatchClaims ----------------------------
(* Two archives in a watch path, uploaded once. *)
EXTENDS WatchClaims

CONSTANTS a, b

MCPath     == {a, b}
MCStamp    == {1}
MCReadBack == [p \in MCPath |-> p]
MCWord     == MCPath \cup {Blank, Arrow, Hash}
MCQueue    == <<>>
MCResult   == {ok, failed}
MCArchive  == Key
===============================================================================
