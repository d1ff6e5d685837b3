------------------------------- MODULE MCProc -------------------------------
(* Small process tables for TLC. *)
EXTENDS Proc
=============================================================================
