----------------------------- MODULE OsfsRaceMC -----------------------------
(***************************************************************************)
(* An instance of OsfsRace: two writes that can be told apart.             *)
(***************************************************************************)
EXTENDS OsfsRace, TLC

MCStrings == {<<1>>, <<2>>}
MCSymmetry == Permutations(Proc) \cup Permutations(Name)
=============================================================================
