---------------------------- MODULE MCFileData ----------------------------
(* FileData on a disk of 12 data blocks with blocks of three words: a file *)
(* uses its double-indirect block from the fifth block on, and one bitmap  *)
(* block describes five blocks, fewer than a file of the largest size has. *)
EXTENDS FileData, TLC

FileSymmetry == Permutations(Files)
============================================================================
