------------------------------ MODULE MCBackends ------------------------------
(* A solid folder of three files with an empty one among them, a folder of  *)
(* one file, a folder of two, and a decoder that yields up to three units   *)
(* at a time.                                                               *)
EXTENDS Backends

F(f, n) == [folder |-> f, size |-> n]
MCFile == <<F(1, 2), F(0, 0), F(1, 1), F(1, 2), F(2, 2), F(3, 1), F(3, 1)>>
===============================================================================
