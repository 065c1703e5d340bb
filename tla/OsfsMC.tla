------------------------------ MODULE OsfsMC ------------------------------
(***************************************************************************)
(* An instance of Osfs: more names than the directory has room for, a      *)
(* block of two bytes, buffers that fill a part of it, all of it and more  *)
(* than it holds, and an odd number of inodes, so that nr_free_inodes goes *)
(* below zero.  The VFS keeps inodes of one file in memory at a time, and  *)
(* one inode number at most is lost by a creation that fails.              *)
(***************************************************************************)
EXTENDS Osfs, TLC

MCStrings == {<<>>, <<1>>, <<1, 1, 1>>}
MCSymmetry == Permutations(Name)

OneInMemory == Cardinality({i \in Ino : \E v \in Via : vfs[i][v] # None}) <= 1
OneInodeLost == Cardinality(inode_bitmap \ (FileInodes \cup {ROOT_INODE})) <= 1
=============================================================================
