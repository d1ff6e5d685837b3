------------------------------- MODULE MCBio -------------------------------
(* Instances of Bio for TLC. *)
EXTENDS Bio, TLC

CONSTANTS p1, p2, b1, b2, v0, v1

MCProcs == {p1, p2}
MCBufs == {b1, b2}
MCVals == {v0, v1}

ProcSymmetry == Permutations(MCProcs)
=============================================================================
