------------------------------ MODULE Console ------------------------------
(***************************************************************************)
(* Console input (kernel/console.c): the ring that consoleintr fills and   *)
(* edits and consoleread empties, raw and line mode, ^C with the           *)
(* foreground process of kernel/proc.c.  input.lock is held by consoleintr *)
(* and by consoleread up to its sleep, so those stretches are one step     *)
(* each, except that kill, which does not take the lock, may come between  *)
(* consoleread's test of proc->killed and its sleep.  Echo is left out.    *)
(***************************************************************************)
EXTENDS Integers, Sequences, FiniteSetsExt, SequencesExt

CONSTANTS
  Procs, None,
  Keys,        \* ordinary characters
  INPUT_BUF,
  Word,        \* the indices are unsigned words: 2^32 in the code
  MaxRead      \* bound on consoleread's n

ASSUME ConsoleAssumption ==
  /\ None \notin Procs /\ MaxRead \in Nat
  /\ INPUT_BUF \in Nat \ {0} /\ Word \in Nat /\ Word > INPUT_BUF /\ Word % INPUT_BUF = 0

Chars == Keys \cup {"nl", "^D"}

\* Raw mode hands a backspace to the reader: a byte as any other.
BackspaceKey == CHOOSE c \in Keys : TRUE

VARIABLES
  buf, r, w, e,   \* input: bytes, read, write and edit index
  raw,            \* input_raw
  fg,             \* console_fgpid
  pc,             \* "idle", or in consoleread: "read", "tosleep", "asleep"
  n,              \* consoleread: the bytes still wanted
  part,           \* consoleread: n < target, some have been copied
  killed          \* proc->killed, and by whom: "no", "kill" or "^C"

input == <<buf, r, w, e>>
vars == <<buf, r, w, e, raw, fg, pc, n, part, killed>>

Typed == (e - r) % Word
Readable == (w - r) % Word

TypeOK ==
  /\ buf \in [0 .. INPUT_BUF - 1 -> Chars]
  /\ {r, w, e} \subseteq 0 .. Word - 1 /\ Readable <= Typed /\ Typed <= INPUT_BUF
  /\ raw \in BOOLEAN /\ fg \in Procs \cup {None}
  /\ pc \in [Procs -> {"idle", "read", "tosleep", "asleep"}]
  /\ n \in [Procs -> 0 .. MaxRead] /\ killed \in [Procs -> {"no", "kill", "^C"}]
  /\ part \in [Procs -> BOOLEAN]
  /\ \A p \in Procs : pc[p] = "idle" <=> n[p] = 0

Init ==
  /\ buf = [i \in 0 .. INPUT_BUF - 1 |-> BackspaceKey]
  /\ r = 0 /\ w = 0 /\ e = 0
  /\ raw = FALSE /\ fg = None
  /\ pc = [p \in Procs |-> "idle"]
  /\ n = [p \in Procs |-> 0] /\ part = [p \in Procs |-> FALSE]
  /\ killed = [p \in Procs |-> "no"]

\* input.lock: a process between its tests and its sleep has it.
Unlocked == \A p \in Procs : pc[p] # "tosleep"

\* The bytes a read may take, and the line being edited.
Committed == [i \in 1 .. Readable |-> buf[(r + i - 1) % INPUT_BUF]]
Line == [i \in 1 .. (e - w) % Word |-> buf[(w + i - 1) % INPUT_BUF]]

-----------------------------------------------------------------------------
(* consoleintr: one turn of its loop, one character. *)

\* Fault: nobody is woken.
Woken_none == pc

\* wakeup(&input.r)
Woken == [p \in Procs |-> IF pc[p] = "asleep" THEN "read" ELSE pc[p]]

\* Store c at index i, and let the readers have everything up to it.
Commit(i, c) ==
  /\ buf' = [buf EXCEPT ![i % INPUT_BUF] = c]
  /\ e' = (i + 1) % Word /\ w' = e'
  /\ pc' = Woken

\* Fault: a full ring is not handed to the readers.
Commits_nofull(c) == raw \/ c \in {"nl", "^D"}

\* The characters after which the readers get the line.
Commits(c) == raw \/ c \in {"nl", "^D"} \/ (e + 1) % Word = (r + INPUT_BUF) % Word

\* Any other character is dropped when the ring is full.
key(k) ==
  LET c == IF k = "cr" THEN "nl" ELSE k IN
  /\ Unlocked /\ Typed < INPUT_BUF
  /\ IF Commits(c) THEN Commit(e, c)
     ELSE /\ buf' = [buf EXCEPT ![e % INPUT_BUF] = c]
          /\ e' = (e + 1) % Word
          /\ UNCHANGED <<w, pc>>
  /\ UNCHANGED <<r, raw, fg, n, part, killed>>

\* Fault: backspace goes back into what was handed to the readers.
backspace_far ==
  /\ Unlocked
  /\ \/ raw /\ Typed < INPUT_BUF /\ Commit(e, BackspaceKey)
     \/ ~raw /\ e # r /\ e' = (e - 1) % Word /\ w' = (IF e = w THEN e' ELSE w) /\ UNCHANGED <<buf, pc>>
  /\ UNCHANGED <<r, raw, fg, n, part, killed>>

backspace ==
  /\ Unlocked
  /\ \/ raw /\ Typed < INPUT_BUF /\ Commit(e, BackspaceKey)
     \/ ~raw /\ e # w /\ e' = (e - 1) % Word /\ UNCHANGED <<buf, w, pc>>
  /\ UNCHANGED <<r, raw, fg, n, part, killed>>

\* The loop of ^U and ^C: back to the last newline, or to w.
LineStart ==
  LET nls == {i \in DOMAIN Line : Line[i] = "nl"} IN
  (w + IF nls = {} THEN 0 ELSE Max(nls)) % Word

killLine ==
  /\ Unlocked
  /\ e' = LineStart
  /\ UNCHANGED <<buf, r, w, raw, fg, pc, n, part, killed>>

\* killfgproc, console_reset_tty, the line replaced by a newline.
ctrlC ==
  /\ Unlocked
  /\ killed' = IF fg = None THEN killed ELSE [killed EXCEPT ![fg] = "^C"]
  /\ raw' = FALSE
  /\ IF (LineStart - r) % Word < INPUT_BUF
       THEN Commit(LineStart, "nl")
       ELSE /\ e' = LineStart
            /\ pc' = [p \in Procs |-> IF p = fg THEN Woken[p] ELSE pc[p]]
            /\ UNCHANGED <<buf, w>>
  /\ UNCHANGED <<r, fg, n, part>>

-----------------------------------------------------------------------------
(* consoleread *)

sys_read(p, k) ==
  /\ pc[p] = "idle" /\ killed[p] = "no"
  /\ pc' = [pc EXCEPT ![p] = "read"]
  /\ n' = [n EXCEPT ![p] = k]
  /\ UNCHANGED <<input, raw, fg, part, killed>>

\* Where the loop over the bytes stops: at the n-th, a newline or a ^D.
Stops(p) == {i \in 1 .. Readable : i = n[p] \/ Committed[i] \in {"nl", "^D"}}

\* p returns, having taken t bytes out of the ring.
Return(p, t) ==
  /\ r' = (r + t) % Word
  /\ pc' = [pc EXCEPT ![p] = "idle"]
  /\ n' = [n EXCEPT ![p] = 0] /\ part' = [part EXCEPT ![p] = FALSE]

\* The read is done.  A ^D after other bytes is left for the next read.
consoleread(p) ==
  /\ Unlocked /\ pc[p] = "read" /\ Stops(p) # {}
  /\ LET k == Min(Stops(p)) IN
       Return(p, IF Committed[k] = "^D" /\ (k > 1 \/ part[p]) THEN k - 1 ELSE k)
  /\ UNCHANGED <<buf, w, e, raw, fg, killed>>

\* Fault: proc->killed is not looked at.
consoleread_more_deaf(p) ==
  /\ Unlocked /\ pc[p] = "read" /\ Stops(p) = {}
  /\ r' = w
  /\ pc' = [pc EXCEPT ![p] = "tosleep"]
  /\ n' = [n EXCEPT ![p] = @ - Readable]
  /\ part' = [part EXCEPT ![p] = @ \/ Readable > 0]
  /\ UNCHANGED <<buf, w, e, raw, fg, killed>>

\* The ring is empty before the read is done: a killed process returns, and
\* what it has copied is lost; another one goes to sleep.
consoleread_more(p) ==
  /\ Unlocked /\ pc[p] = "read" /\ Stops(p) = {}
  /\ \/ killed[p] # "no" /\ Return(p, Readable)
     \/ /\ killed[p] = "no"
        /\ r' = w
        /\ pc' = [pc EXCEPT ![p] = "tosleep"]
        /\ n' = [n EXCEPT ![p] = @ - Readable]
        /\ part' = [part EXCEPT ![p] = @ \/ Readable > 0]
  /\ UNCHANGED <<buf, w, e, raw, fg, killed>>

sleep(p) ==
  /\ pc[p] = "tosleep"
  /\ pc' = [pc EXCEPT ![p] = "asleep"]
  /\ UNCHANGED <<input, raw, fg, n, part, killed>>

-----------------------------------------------------------------------------
(* The other processes. *)

\* consolewrite of ESC [ 902 h or l, under another lock.
setraw(b) == raw' = b /\ UNCHANGED <<input, fg, pc, n, part, killed>>

setfgpid(f) == fg' = f /\ UNCHANGED <<input, raw, pc, n, part, killed>>

kill(p) ==
  /\ killed' = [killed EXCEPT ![p] = IF @ = "^C" THEN @ ELSE "kill"]
  /\ pc' = [pc EXCEPT ![p] = Woken[p]]
  /\ UNCHANGED <<input, raw, fg, n, part>>

\* A killed process exits on its way to user space; another takes its place,
\* with a new pid.
exit(p) ==
  /\ pc[p] = "idle" /\ killed[p] # "no"
  /\ killed' = [killed EXCEPT ![p] = "no"]
  /\ fg' = IF fg = p THEN None ELSE fg
  /\ UNCHANGED <<input, raw, pc, n, part>>

consoleintr ==
  (\E k \in Keys \cup {"cr", "nl", "^D"} : key(k)) \/ backspace \/ killLine \/ ctrlC

Run(p) == consoleread(p) \/ consoleread_more(p) \/ sleep(p)

Next ==
  \/ consoleintr
  \/ \E p \in Procs : \/ \E k \in 1 .. MaxRead : sys_read(p, k)
                      \/ Run(p) \/ kill(p) \/ exit(p)
  \/ \E b \in BOOLEAN : setraw(b)
  \/ \E f \in Procs \cup {None} : setfgpid(f)

Spec == Init /\ [][Next]_vars

\* A runnable reader is scheduled, and input.lock is not kept from it for ever
\* (consoleintr and the other readers hold it for a bounded time).
FairSpec == Spec /\ \A p \in Procs : SF_vars(Run(p))

-----------------------------------------------------------------------------
(* Properties. *)

\* A full ring is readable.  Otherwise every key would be dropped (consoleintr)
\* and every reader asleep (consoleread), for ever.
FullIsReadable == Typed = INPUT_BUF => w = e

\* A reader sleeps only while there is nothing to read: consoleintr wakes it
\* after every commit, in either mode, and no other reader's taking back a ^D
\* leaves bytes behind a sleeper.
SleepersBlocked == \A p \in Procs : pc[p] = "asleep" => r = w

\* The line being edited has no line end in it, across changes of mode: ^U and
\* ^C remove all of it.
OpenLine == \A i \in DOMAIN Line : Line[i] \notin {"nl", "^D"}

\* What was committed is final: editing, ^U, ^C and the wrap of the indices
\* leave it alone until it is read, in order.  No read passes a line end, and a
\* ^D is taken out only by a read that has nothing else to return, so that its
\* caller sees the end of the file.
ReadOnce ==
  [][LET k == (r' - r) % Word
         taken == SubSeq(Committed, 1, k)
     IN /\ IsPrefix(SubSeq(Committed, k + 1, Readable), Committed')
        /\ \A i \in 1 .. k - 1 : taken[i] # "nl"
        /\ "^D" \in Range(taken) => taken = <<"^D">> /\ \E p \in Procs :
                 pc[p] = "read" /\ pc'[p] = "idle" /\ ~part[p]]_vars

\* ^C gets the foreground process out of consoleread, although a kill from
\* elsewhere may be missed there: consoleintr holds input.lock.
CtrlCReturns == \A p \in Procs : killed[p] = "^C" /\ pc[p] # "idle" ~> pc[p] = "idle"

\* The ring never locks up, and the line being edited can be edited.
RingUsable == TypeOK /\ FullIsReadable /\ OpenLine
=============================================================================
