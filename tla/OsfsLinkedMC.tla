---------------------------- MODULE OsfsLinkedMC ----------------------------
(***************************************************************************)
(* Instances of OsfsLinked: buffers that are empty, end within a block and *)
(* cross from one block to the next; and a directory without file data.    *)
(***************************************************************************)
EXTENDS OsfsLinked, TLC

MCStrings == {<<>>, <<1>>, <<1, 1, 1>>}
MCSymmetry == Permutations(Name)
=============================================================================
