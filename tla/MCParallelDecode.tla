--------------------------- MODULE MCParallelDecode ---------------------------
(* The constants of ParallelDecode are plain numbers, given in the cfg     *)
(* files.                                                                  *)
EXTENDS ParallelDecode
===============================================================================
