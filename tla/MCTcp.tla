------------------------------- MODULE MCTcp -------------------------------
(* Two casts of processes: a client and a server, and a client whose connect *)
(* is refused beside a process that listens on the same host.  Sequence      *)
(* numbers have 16 values; the client's start so that the last bytes of a    *)
(* connection reach the top of them.  One fault (a loss, a duplicate, a      *)
(* segment overtaking another, an expiry, a kill, a failed output) happens   *)
(* anywhere; a retransmission on a silent network is none.                   *)
EXTENDS Tcp

CONSTANTS C, S, c1, c2, s1

MCHostOf == [u \in Users |-> IF u = s1 THEN S ELSE C]
MCDials  == [u \in Users |-> IF u = s1 THEN {} ELSE {80}]
MCISS    == [h \in Hosts |-> IF h = C THEN {9} ELSE {2}]
MCServes == [u \in Users |-> CASE u = s1 -> {80} [] u = c2 -> {90} [] OTHER -> {}]
=============================================================================
