---------------------------- MODULE MCFileSystem ----------------------------
(***************************************************************************)
(* FileSystem with names that are interchangeable: the code only compares  *)
(* them, and chooses slots and clusters by number.                         *)
(***************************************************************************)
EXTENDS FileSystem, TLC

NameSymmetry == Permutations(Names)
=============================================================================
