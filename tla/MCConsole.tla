------------------------------ MODULE MCConsole ------------------------------
(* Two readers of a ring of two bytes whose indices wrap at four. *)
EXTENDS Console

CONSTANTS p1, p2

MCProcs == {p1, p2}
=============================================================================
