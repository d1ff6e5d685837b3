------------------------------ MODULE MCSched ------------------------------
(***************************************************************************)
(* Instance of Sched for TLC: the boot processor c1 and another, whose ids *)
(* are their indices, exchanged, or sparse (x is no index), and three      *)
(* processes.                                                              *)
(***************************************************************************)
EXTENDS Sched, TLC

CONSTANTS c1, c2, x, p1, p2, p3

MCCPUs == {c1, c2}
MCProcs == {p1, p2, p3}
MCApicIds == {c1, c2, x}
MCNumberings == {c1 :> c1 @@ c2 :> c2, c1 :> c2 @@ c2 :> c1,
                 c1 :> c1 @@ c2 :> x, c1 :> x @@ c2 :> c2}

Symmetry == Permutations(MCProcs)
=============================================================================
