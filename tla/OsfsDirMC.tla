------------------------------ MODULE OsfsDirMC ------------------------------
(***************************************************************************)
(* An instance of OsfsDir: files for four blocks, and one block to spare.  *)
(***************************************************************************)
EXTENDS OsfsDir

MCNames == <<"a", "b", "c", "d", "e", "f", "g">>
=============================================================================
