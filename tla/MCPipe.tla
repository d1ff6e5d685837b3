------------------------------- MODULE MCPipe -------------------------------
(* Processes that share a two-byte pipe whose counters wrap at four. *)
EXTENDS Pipe

CONSTANTS p1, p2, a, b

Two == {p1, p2}

\* A write that fits and one longer than the pipe, with bytes told apart.
AB == {a, b}
MsgsAB == {<<a>>, <<a, b, b>>}
=============================================================================
