-------------------------------- MODULE Pipe --------------------------------
(***************************************************************************)
(* kernel/pipe.c: one pipe, from pipealloc to the kfree in pipeclose, used *)
(* by several processes.  p->lock is held from the start of an operation   *)
(* to its return or its sleep, so each of those stretches is one step; of  *)
(* what other processes do, only kill, which takes ptable.lock alone, can  *)
(* fall inside one and matter.                                             *)
(***************************************************************************)
EXTENDS Integers, Sequences, FiniteSetsExt

CONSTANTS
  Procs,
  Bytes,
  Msgs,       \* what a write may be asked to write: sequences of Bytes
  PIPESIZE,
  Word        \* the counters are unsigned words: 2^32 in the code

ASSUME PipeAssumption ==
  /\ PIPESIZE \in Nat \ {0} /\ Word \in Nat
  /\ Word > PIPESIZE /\ Word % PIPESIZE = 0
  /\ Msgs \subseteq Seq(Bytes) \ {<<>>}

Ends == {"r", "w"}

VARIABLES
  data, nread, nwrite, readopen, writeopen,  \* struct pipe
  ends,    \* the ends each process has open (its references to the two files)
  pc,      \* "idle", "read" or "write"
  chan,    \* "nread" or "nwrite" while asleep there
  rest,    \* pipewrite: the bytes from addr + i on
  want,    \* piperead: n
  buf,     \* what the last piperead to return copied
  killed

vars == <<data, nread, nwrite, readopen, writeopen, ends, pc, chan, rest, want, buf, killed>>
pipeVars == <<data, nread, nwrite, readopen, writeopen>>

TypeOK ==
  /\ data \in [0 .. PIPESIZE - 1 -> Bytes]
  /\ nread \in 0 .. Word - 1 /\ nwrite \in 0 .. Word - 1
  /\ (nwrite - nread) % Word <= PIPESIZE
  /\ readopen \in BOOLEAN /\ writeopen \in BOOLEAN
  /\ ends \in [Procs -> SUBSET Ends]
  /\ pc \in [Procs -> {"idle", "read", "write"}]
  /\ chan \in [Procs -> {"none", "nread", "nwrite"}]
  /\ rest \in [Procs -> Seq(Bytes)]
  /\ buf \in Seq(Bytes)
  /\ want \in [Procs -> 0 .. PIPESIZE] /\ killed \in [Procs -> BOOLEAN]

\* pipealloc; both ends have been handed out.
Init ==
  /\ \E x \in Bytes : data = [j \in 0 .. PIPESIZE - 1 |-> x]
  /\ nread = 0 /\ nwrite = 0
  /\ readopen = TRUE /\ writeopen = TRUE
  /\ ends \in [Procs -> SUBSET Ends]
  /\ \A e \in Ends : \E p \in Procs : e \in ends[p]
  /\ pc = [p \in Procs |-> "idle"]
  /\ chan = [p \in Procs |-> "none"]
  /\ rest = [p \in Procs |-> <<>>]
  /\ want = [p \in Procs |-> 0]
  /\ buf = <<>>
  /\ killed = [p \in Procs |-> FALSE]

Full == nwrite = (nread + PIPESIZE) % Word
Empty == nread = nwrite
Used == (nwrite - nread) % Word

\* wakeup on channel c, with p's own channel set to d.
Wake(c, p, d) ==
  chan' = [x \in Procs |-> IF x = p THEN d ELSE IF chan[x] = c THEN "none" ELSE chan[x]]

Running(p, l) == pc[p] = l /\ chan[p] = "none"

\* A kill between the test of killed and the sleep that follows it marks the
\* process, which is not SLEEPING yet, and the process sleeps all the same.
KilledMeanwhile(p) == killed' = killed \/ killed' = [killed EXCEPT ![p] = TRUE]

-----------------------------------------------------------------------------
sys_write(p, m) ==
  /\ Running(p, "idle") /\ "w" \in ends[p] /\ ~killed[p]
  /\ pc' = [pc EXCEPT ![p] = "write"]
  /\ rest' = [rest EXCEPT ![p] = m]
  /\ UNCHANGED <<pipeVars, ends, chan, want, buf, killed>>

\* The bytes pipewrite can store before the pipe is full.
Fits(p) == Min({Len(rest[p]), PIPESIZE - Used})

\* Store the first k bytes of rest[p].
Store(p, k) ==
  /\ data' = [j \in 0 .. PIPESIZE - 1 |->
                LET i == (j - nwrite) % PIPESIZE IN
                IF i < k THEN rest[p][i + 1] ELSE data[j]]
  /\ nwrite' = (nwrite + k) % Word
  /\ UNCHANGED <<nread, readopen, writeopen>>

\* All bytes are stored.
pipewrite_done(p) ==
  /\ Running(p, "write") /\ Fits(p) = Len(rest[p])
  /\ Store(p, Fits(p))
  /\ Wake("nread", p, "none")
  /\ rest' = [rest EXCEPT ![p] = <<>>]
  /\ pc' = [pc EXCEPT ![p] = "idle"]
  /\ UNCHANGED <<ends, want, buf, killed>>

\* The pipe is full and nobody will read, or the process is killed.
pipewrite_fail(p) ==
  /\ Running(p, "write") /\ Fits(p) < Len(rest[p]) /\ (~readopen \/ killed[p])
  /\ Store(p, Fits(p))
  /\ rest' = [rest EXCEPT ![p] = <<>>]
  /\ pc' = [pc EXCEPT ![p] = "idle"]
  /\ UNCHANGED <<ends, chan, want, buf, killed>>

\* Fault: the reader is not woken before the writer sleeps.
pipewrite_sleep_nowake(p) ==
  /\ Running(p, "write") /\ Fits(p) < Len(rest[p]) /\ readopen /\ ~killed[p]
  /\ Store(p, Fits(p))
  /\ chan' = [chan EXCEPT ![p] = "nwrite"]
  /\ rest' = [rest EXCEPT ![p] = SubSeq(@, Fits(p) + 1, Len(@))]
  /\ KilledMeanwhile(p)
  /\ UNCHANGED <<ends, pc, want, buf>>

pipewrite_sleep(p) ==
  /\ Running(p, "write") /\ Fits(p) < Len(rest[p]) /\ readopen /\ ~killed[p]
  /\ Store(p, Fits(p))
  /\ Wake("nread", p, "nwrite")
  /\ rest' = [rest EXCEPT ![p] = SubSeq(@, Fits(p) + 1, Len(@))]
  /\ KilledMeanwhile(p)
  /\ UNCHANGED <<ends, pc, want, buf>>

-----------------------------------------------------------------------------
sys_read(p, n) ==
  /\ Running(p, "idle") /\ "r" \in ends[p] /\ ~killed[p]
  /\ pc' = [pc EXCEPT ![p] = "read"]
  /\ want' = [want EXCEPT ![p] = n]
  /\ UNCHANGED <<pipeVars, ends, chan, rest, buf, killed>>

piperead_sleep(p) ==
  /\ Running(p, "read") /\ Empty /\ writeopen /\ ~killed[p]
  /\ chan' = [chan EXCEPT ![p] = "nread"]
  /\ KilledMeanwhile(p)
  /\ UNCHANGED <<pipeVars, ends, pc, rest, want, buf>>

piperead_fail(p) ==
  /\ Running(p, "read") /\ Empty /\ writeopen /\ killed[p]
  /\ pc' = [pc EXCEPT ![p] = "idle"]
  /\ want' = [want EXCEPT ![p] = 0]
  /\ UNCHANGED <<pipeVars, ends, chan, rest, buf, killed>>

Contents == [i \in 1 .. Used |-> data[(nread + i - 1) % PIPESIZE]]

\* Fault: nread moves by n, not by the bytes copied.
piperead_all(p) ==
  LET k == Min({want[p], Used}) IN
  /\ Running(p, "read") /\ (~Empty \/ ~writeopen)
  /\ buf' = SubSeq(Contents, 1, k)
  /\ nread' = (nread + want[p]) % Word
  /\ Wake("nwrite", p, "none")
  /\ pc' = [pc EXCEPT ![p] = "idle"]
  /\ want' = [want EXCEPT ![p] = 0]
  /\ UNCHANGED <<data, nwrite, readopen, writeopen, ends, rest, killed>>

\* The pipe has bytes, or no writer: copy and wake the writers.
piperead(p) ==
  LET k == Min({want[p], Used}) IN
  /\ Running(p, "read") /\ (~Empty \/ ~writeopen)
  /\ buf' = SubSeq(Contents, 1, k)
  /\ nread' = (nread + k) % Word
  /\ Wake("nwrite", p, "none")
  /\ pc' = [pc EXCEPT ![p] = "idle"]
  /\ want' = [want EXCEPT ![p] = 0]
  /\ UNCHANGED <<data, nwrite, readopen, writeopen, ends, rest, killed>>

-----------------------------------------------------------------------------
\* Fault: the last writer does not wake the readers.
pipeclose_silent(p, e) ==
  LET last == \A x \in Procs \ {p} : e \notin ends[x] IN
  /\ Running(p, "idle") /\ e \in ends[p]
  /\ ends' = [ends EXCEPT ![p] = @ \ {e}]
  /\ readopen' = (readopen /\ ~(last /\ e = "r"))
  /\ writeopen' = (writeopen /\ ~(last /\ e = "w"))
  /\ IF last /\ e = "r" THEN Wake("nwrite", p, "none") ELSE UNCHANGED chan
  /\ UNCHANGED <<data, nread, nwrite, pc, rest, want, buf, killed>>

\* fileclose: the last reference to an end calls pipeclose.
pipeclose(p, e) ==
  LET last == \A x \in Procs \ {p} : e \notin ends[x] IN
  /\ Running(p, "idle") /\ e \in ends[p]
  /\ ends' = [ends EXCEPT ![p] = @ \ {e}]
  /\ readopen' = (readopen /\ ~(last /\ e = "r"))
  /\ writeopen' = (writeopen /\ ~(last /\ e = "w"))
  /\ IF last THEN Wake(IF e = "w" THEN "nread" ELSE "nwrite", p, "none")
             ELSE UNCHANGED chan
  /\ UNCHANGED <<data, nread, nwrite, pc, rest, want, buf, killed>>

\* A second kill wakes a process that slept through the first.
kill(p) ==
  /\ killed' = [killed EXCEPT ![p] = TRUE]
  /\ chan' = [chan EXCEPT ![p] = "none"]
  /\ UNCHANGED <<pipeVars, ends, pc, rest, want, buf>>

Run(p) == \/ pipewrite_done(p) \/ pipewrite_fail(p) \/ pipewrite_sleep(p)
          \/ piperead_sleep(p) \/ piperead_fail(p) \/ piperead(p)

Next == \E p \in Procs :
  \/ \E m \in Msgs : sys_write(p, m)
  \/ \E n \in 1 .. PIPESIZE : sys_read(p, n)
  \/ Run(p)
  \/ \E e \in Ends : pipeclose(p, e)
  \/ kill(p)

Spec == Init /\ [][Next]_vars
\* A process that is not asleep is eventually run.
FairSpec == Spec /\ \A p \in Procs : WF_vars(Run(p))

-----------------------------------------------------------------------------
(* Properties. *)

BS == INSTANCE ByteStream WITH q <- Contents, wopen <- writeopen

\* The ring buffer of pipewrite and piperead, with its wrapping counters,
\* implements the byte stream.
ImplementsByteStream == BS!Spec

\* No lost wakeup: a process, killed or not, sleeps in pipewrite only on a full
\* pipe that has a reader, and in piperead only on an empty pipe that has a
\* writer.  The exception: a writer that is killed returns from a full pipe
\* without waking the readers.
SleepersBlocked ==
  \A p \in Procs :
    /\ chan[p] = "nwrite" => Full /\ readopen
    /\ chan[p] = "nread" => writeopen /\ (Empty \/ \E x \in Procs : killed[x])

\* pipeclose is noticed: when the last writer is gone every read returns, when
\* the last reader is gone every write does.
HangupSeen ==
  \A p \in Procs :
    /\ pc[p] = "read" /\ ~writeopen ~> pc[p] # "read"
    /\ pc[p] = "write" /\ ~readopen ~> pc[p] # "write"
=============================================================================
