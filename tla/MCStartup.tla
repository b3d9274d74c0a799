------------------------------- MODULE MCStartup -------------------------------
EXTENDS Startup

CONSTANTS l1, l2

MCLaunch   == {l1, l2}
MCSymmetry == Permutations(MCLaunch)

Home == Line("watchpath", 0)
Usb  == Line("watchpath", 2)

(* Good and bad values, before and after a good one; paths up to the limit *)
(* and past it, with the default first or later.                           *)
MCUserFiles ==
  { <<Usb, Home, Line("delete_after_extract", Yes), Line("delete_after_extract", Junk),
      Line("scan_depth", 2), Line("scan_depth", 0), Line("overwrite", Huge)>>,
    <<Line("poll_interval_seconds", 0), NoEquals, Comment, Home, Usb,
      Line("watchpath", 3), Line("debug", No)>> }
===============================================================================
