----------------------------- MODULE ByteStream -----------------------------
(***************************************************************************)
(* What a pipe promises: the bytes accepted from writers form one queue,   *)
(* readers take them from its front, each byte once and in order, and a    *)
(* read returns nothing only when nobody is left to write.                 *)
(***************************************************************************)
EXTENDS Naturals, Sequences

CONSTANTS Procs, Msgs

VARIABLES
  q,      \* the bytes in the pipe
  rest,   \* what is left of the write each process is executing
  buf,    \* what the last read returned
  wopen   \* is there a writer?

Drop(s, k) == SubSeq(s, k + 1, Len(s))

Init == q = <<>> /\ wopen = TRUE
        /\ rest = [p \in Procs |-> <<>>] /\ buf = <<>>

Write(p, m) ==
  /\ wopen /\ rest[p] = <<>>
  /\ rest' = [rest EXCEPT ![p] = m]
  /\ UNCHANGED <<q, buf, wopen>>

Put(p, k) ==
  /\ wopen
  /\ q' = q \o SubSeq(rest[p], 1, k)
  /\ rest' = [rest EXCEPT ![p] = Drop(@, k)]
  /\ UNCHANGED <<buf, wopen>>

\* A write that fails may have delivered a part.
PutFail(p, k) ==
  /\ q' = q \o SubSeq(rest[p], 1, k)
  /\ rest' = [rest EXCEPT ![p] = <<>>]
  /\ UNCHANGED <<buf, wopen>>

Get(k) ==
  /\ k = 0 => q = <<>> /\ ~wopen
  /\ buf' = SubSeq(q, 1, k)
  /\ q' = Drop(q, k)
  /\ UNCHANGED <<rest, wopen>>

Close == wopen' = FALSE /\ UNCHANGED <<q, rest, buf>>

Next ==
  \/ \E p \in Procs : \E m \in Msgs : Write(p, m)
  \/ \E p \in Procs : \E k \in 0 .. Len(rest[p]) : Put(p, k) \/ PutFail(p, k)
  \/ \E k \in 0 .. Len(q) : Get(k)
  \/ Close

Spec == Init /\ [][Next]_<<q, rest, buf, wopen>>
=============================================================================
