------------------------------- MODULE MCUnlink -------------------------------
(* Two processes that create and remove three files, on a disk that never     *)
(* fails.                                                                     *)
EXTENDS FsFiles, TLC

FileSymmetry == Permutations(FileName)
===============================================================================
