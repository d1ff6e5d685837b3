-------------------------------- MODULE MCVm --------------------------------
(* Vm with pages of two units and page tables of two pages: a process has  *)
(* up to four pages in two page tables, the first two below LOWPAGES.      *)
EXTENDS Vm

MCDeltas == {-3, 3}
=============================================================================
