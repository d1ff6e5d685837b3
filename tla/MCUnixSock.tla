----------------------------- MODULE MCUnixSock -----------------------------
(* Three processes and one listener entry: one can hold the entry's lock    *)
(* while another closes the listener and the third binds the entry again.   *)
EXTENDS UnixSock, TLC

CONSTANTS p1, p2, p3

Three == {p1, p2, p3}
Symmetry3 == Permutations(Three)
=============================================================================
