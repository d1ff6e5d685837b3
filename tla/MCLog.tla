------------------------------- MODULE MCLog -------------------------------
(* Instances of Log for TLC. *)
EXTENDS Log, TLC

CONSTANTS p1, p2, s1, s2, s3, v0, v1, nobuf

MCProcs == {p1, p2}
MCSectors == {s1, s2}
MCSectors3 == {s1, s2, s3}
MCVals == {v0, v1}

\* Processes and sectors are interchangeable.
ProcSectorSymmetry == Permutations(MCProcs) \cup Permutations(MCSectors3)
=============================================================================
