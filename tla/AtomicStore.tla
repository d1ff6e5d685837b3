---------------------------- MODULE AtomicStore ----------------------------
(***************************************************************************)
(* What kernel/log.c promises the file system, and nothing about how.      *)
(* `stable' is what a reboot brings back, `view' what the buffer cache     *)
(* shows a running kernel.  Updates of a transaction go to the view only;  *)
(* commit makes all of them stable in one step; a power failure falls back *)
(* to the stable contents.                                                 *)
(***************************************************************************)
CONSTANTS Sectors, Vals, InitVal

VARIABLES stable, view

Init == /\ stable = [s \in Sectors |-> InitVal]
        /\ view = stable

\* A file-system call updates one block inside its transaction.
Update == \E s \in Sectors, v \in Vals :
             /\ view' = [view EXCEPT ![s] = v]
             /\ UNCHANGED stable

\* All updates of the transaction become durable together.
Commit == /\ stable' = view
          /\ UNCHANGED view

\* Power failure, panic or reset: every update since the last commit is gone.
Crash == /\ view' = stable
         /\ UNCHANGED stable

Next == Update \/ Commit \/ Crash

Spec == Init /\ [][Next]_<<stable, view>>
=============================================================================
