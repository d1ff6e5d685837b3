------------------------------ MODULE MCFsTree ------------------------------
(* Two processes in a file system of three inodes, which either work on the *)
(* tree from the root directory or move about in it.                        *)
EXTENDS FsTree, TLC

CONSTANTS p1, p2

MCProcs == {p1, p2}
Symmetry == Permutations(MCProcs)

Tree == [calls |-> {"open", "trunc", "create", "mkdir", "unlink", "link", "exec"},
         paths |-> {<<"a">>, <<"a", "b">>}]
Climb == [calls |-> {"chdir", "getcwd", "mkdir", "unlink"}, paths |-> {<<"a">>, <<"..">>}]
MCWorkloads == {Tree, Climb}
=============================================================================
