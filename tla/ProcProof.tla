------------------------------ MODULE ProcProof ------------------------------
(***************************************************************************)
(* TLAPS proofs about Proc, for a process table of any size.               *)
(***************************************************************************)
EXTENDS Proc, WellFoundedInduction, TLAPS

\* The loops over the table stop at the first entry that fits.
LEMMA FirstIs ==
  ASSUME NEW S, S \subseteq Slots, S # {}
  PROVE  First(S) \in S /\ \A t \in S : First(S) <= t
  <1>1. S \subseteq Nat
    BY ProcAssumption DEF Slots
  <1>2. \E s \in S : \A t \in S : ~ (<<t, s>> \in OpToRel(<, Nat))
    BY <1>1, WFMin, NatLessThanWellFounded, Zenon
  <1>3. \A s, t \in Nat : t < s => <<t, s>> \in OpToRel(<, Nat)
    BY DEF OpToRel
  <1>4. PICK s \in S : \A t \in S : ~ (<<t, s>> \in OpToRel(<, Nat))
    BY <1>2, Zenon
  <1>5. ASSUME NEW t \in S PROVE s <= t
    <2>1. s \in Nat /\ t \in Nat
      BY <1>1
    <2>2. ~ (t < s)
      BY <1>3, <1>4, <2>1, Zenon
    <2> QED BY <2>1, <2>2
  <1> QED BY <1>5, Zenon DEF First

\* The table's entries, and the channels that are none of them.
LEMMA SlotFacts ==
  /\ initproc \in Slots /\ NoSlot \notin Slots /\ IOChan \notin Slots
  /\ Slots \cup {NoSlot, IOChan} \subseteq 0 .. NPROC + 1
  BY ProcAssumption DEF Slots, initproc, NoSlot, IOChan

-----------------------------------------------------------------------------
\* pids: an entry keeps the pid of the fork that failed on it, so the pids of
\* all entries differ, used or not; a reaped entry has none.
PidInv ==
  /\ \A s \in Slots : pid[s] < nextpid
  /\ \A s, t \in Slots : pid[s] = pid[t] /\ s # t => pid[s] = 0
  /\ \A s \in Slots : Exists(s) => pid[s] # 0

\* fork: the entry it allocated is an EMBRYO until fork_run and then its child;
\* a process inside fork does not sleep.
ForkInv ==
  /\ \A p \in Slots : pc[p] \in {"fork", "name"} <=> np[p] # NoSlot
  /\ \A p \in Slots : np[p] # NoSlot => state[p] = "RUNNABLE" /\ np[p] # p
  /\ \A p \in Slots : pc[p] = "fork" => state[np[p]] = "EMBRYO" /\ pid[p] < pid[np[p]]
  /\ \A p \in Slots : pc[p] = "name" => /\ parent[np[p]] = p
                                        /\ state[np[p]] \notin {"UNUSED", "EMBRYO"}
  /\ \A p, q \in Slots : np[p] # NoSlot /\ np[q] = np[p] => q = p

\* Parents: only init is never anybody's child and never exits.
TreeInv ==
  /\ Live(initproc) /\ pc[initproc] # "exit" /\ parent[initproc] = NoSlot
  /\ \A s \in Slots : state[s] \in {"UNUSED", "EMBRYO"} => parent[s] = NoSlot
  /\ ParentAlive

\* NoMissedExit, one zombie at a time.
WaitInv == \A p, z \in Slots :
             state[p] = "SLEEPING" /\ chan[p] = p /\ parent[z] = p => state[z] # "ZOMBIE"

IInv == TypeOK /\ PidInv /\ ForkInv /\ TreeInv /\ WaitInv

-----------------------------------------------------------------------------
\* What np says about a process depends on where it is.
LEMMA InFork ==
  ASSUME IInv, NEW p \in Slots
  PROVE  /\ pc[p] \in {"fork", "name"} => np[p] \in Slots
         /\ pc[p] \notin {"fork", "name"} => np[p] = NoSlot
         /\ state[p] # "RUNNABLE" => np[p] = NoSlot
  <1>1. np[p] \in Slots \cup {NoSlot}
    BY Zenon DEF IInv, TypeOK
  <1>2. pc[p] \in {"fork", "name"} <=> np[p] # NoSlot
    BY DEF IInv, ForkInv
  <1>3. state[p] # "RUNNABLE" => np[p] = NoSlot
    BY DEF IInv, ForkInv
  <1> QED BY <1>1, <1>2, <1>3

LEMMA PidTypes ==
  ASSUME TypeOK
  PROVE  nextpid \in Nat \ {0} /\ \A s \in Slots : pid[s] \in Nat
  <1>1. nextpid \in 1 .. MaxPid + 1 /\ pid \in [Slots -> 0 .. MaxPid]
    BY Zenon DEF TypeOK
  <1>2. nextpid \in Nat \ {0}
    BY <1>1, ProcAssumption
  <1>3. \A s \in Slots : pid[s] \in 0 .. MaxPid
    BY <1>1
  <1> QED BY <1>2, <1>3, ProcAssumption

\* A step that neither makes nor ends a process: processes go to sleep, wake
\* up or move, none of them into fork, and none that is inside fork.
Frame ==
  /\ \A s \in Slots : \/ state'[s] = state[s]
                      \/ Live(s) /\ state'[s] \in {"RUNNABLE", "SLEEPING"} /\ np[s] = NoSlot
  /\ \A s \in Slots : \/ pc'[s] = pc[s]
                      \/ /\ np[s] = NoSlot /\ pc'[s] \notin {"fork", "name"}
                         /\ s = initproc => pc'[s] # "exit"
  /\ pid' = pid /\ parent' = parent /\ np' = np /\ nextpid' = nextpid

LEMMA FrameInv ==
  ASSUME IInv, Frame
  PROVE  PidInv' /\ ForkInv' /\ TreeInv'
  <1> USE SlotFacts DEF IInv
  <1>1. \A s \in Slots : /\ Live(s)' <=> Live(s)
                         /\ Exists(s)' <=> Exists(s)
                         /\ state'[s] = "ZOMBIE" <=> state[s] = "ZOMBIE"
                         /\ state'[s] \in {"UNUSED", "EMBRYO"} <=> state[s] \in {"UNUSED", "EMBRYO"}
                         /\ state[s] = "EMBRYO" => state'[s] = "EMBRYO"
    BY DEF Frame, Live, Exists
  <1>2. PidInv'
    BY <1>1 DEF Frame, PidInv
  <1>3. ForkInv'
    <2>1. \A p \in Slots : pc[p] \in {"fork", "name"} => np[p] \in Slots
      BY InFork
    <2>2. \A p \in Slots : pc'[p] \in {"fork", "name"} => pc'[p] = pc[p]
      BY DEF Frame
    <2>3. \A p \in Slots : pc[p] \in {"fork", "name"} => pc'[p] = pc[p]
      BY DEF Frame, ForkInv
    <2>4. \A p \in Slots : np[p] # NoSlot => state'[p] = "RUNNABLE" /\ np[p] # p
      BY DEF Frame, ForkInv
    <2>5. \A p \in Slots : pc'[p] = "fork" => state'[np[p]] = "EMBRYO" /\ pid[p] < pid[np[p]]
      BY <1>1, <2>1, <2>2 DEF ForkInv
    <2>6. \A p \in Slots : pc'[p] = "name" =>
             parent[np[p]] = p /\ state'[np[p]] \notin {"UNUSED", "EMBRYO"}
      BY <1>1, <2>1, <2>2 DEF ForkInv
    <2>7. pid' = pid /\ parent' = parent /\ np' = np
      BY DEF Frame
    <2>8. \A p \in Slots : pc'[p] \in {"fork", "name"} <=> np[p] # NoSlot
      BY <2>2, <2>3 DEF ForkInv
    <2> QED BY <2>4, <2>5, <2>6, <2>7, <2>8 DEF ForkInv
  <1>4. TreeInv'
    <2>1. pc'[initproc] # "exit"
      BY DEF Frame, TreeInv
    <2>2. ParentAlive'
      <3>1. \A s \in Slots \ {initproc} : Live(s) \/ state[s] = "ZOMBIE" => parent[s] \in Slots
        BY Zenon DEF TypeOK, TreeInv, ParentAlive
      <3> QED BY <1>1, <3>1 DEF TreeInv, ParentAlive, Frame
    <2> QED BY <1>1, <2>1, <2>2 DEF Frame, TreeInv
  <1> QED BY <1>2, <1>3, <1>4

-----------------------------------------------------------------------------
(* The actions that only move processes. *)

LEMMA execInv ==
  ASSUME IInv, NEW p \in Slots, NEW n \in Names, exec(p, n)
  PROVE  IInv'
  <1> USE SlotFacts DEF IInv
  <1>1. TypeOK'
    BY Zenon DEF TypeOK, exec, At, Syscall
  <1>2. Frame
    BY Zenon DEF TypeOK, ForkInv, Frame, Live, exec, At, Syscall
  <1>3. WaitInv'
    BY Zenon DEF TypeOK, WaitInv, exec, At, Syscall
  <1> QED BY <1>1, <1>2, <1>3, FrameInv

LEMMA exit_beginInv ==
  ASSUME IInv, NEW p \in Slots, exit_begin(p)
  PROVE  IInv'
  <1> USE SlotFacts DEF IInv
  <1>1. TypeOK'
    BY Zenon DEF TypeOK, exit_begin, At, Goto
  <1>2. Frame
    <2>1. np[p] = NoSlot /\ state[p] = "RUNNABLE" /\ pc[p] # "exit"
      BY InFork DEF exit_begin, At, Goto
    <2>2. pc \in [Slots -> {"user", "fork", "name", "wait", "exit", "io", "tosleep"}]
      BY Zenon DEF TypeOK
    <2>3. state \in [Slots -> {"UNUSED", "EMBRYO", "SLEEPING", "RUNNABLE", "ZOMBIE"}]
      BY Zenon DEF TypeOK
    <2> QED BY <2>1, <2>2, <2>3 DEF Frame, Live, exit_begin, At, Goto
  <1>3. WaitInv'
    BY Zenon DEF TypeOK, WaitInv, exit_begin, At, Goto
  <1> QED BY <1>1, <1>2, <1>3, FrameInv

LEMMA exit_initInv ==
  ASSUME IInv, NEW p \in Slots, exit_init(p)
  PROVE  IInv'
  <1> USE SlotFacts DEF IInv
  <1>1. TypeOK'
    BY Zenon DEF TypeOK, exit_init, At
  <1>2. Frame
    BY Zenon DEF TypeOK, ForkInv, Frame, Live, exit_init, At
  <1>3. WaitInv'
    BY ZenonT(60) DEF TypeOK, WaitInv, exit_init, At
  <1> QED BY <1>1, <1>2, <1>3, FrameInv

LEMMA sys_waitInv ==
  ASSUME IInv, NEW p \in Slots, sys_wait(p)
  PROVE  IInv'
  <1> USE SlotFacts DEF IInv
  <1>1. TypeOK'
    BY Zenon DEF TypeOK, sys_wait, At, Syscall, Goto
  <1>2. Frame
    <2>1. np[p] = NoSlot /\ state[p] = "RUNNABLE" /\ pc[p] # "exit"
      BY InFork DEF sys_wait, At, Syscall, Goto
    <2>2. pc \in [Slots -> {"user", "fork", "name", "wait", "exit", "io", "tosleep"}]
      BY Zenon DEF TypeOK
    <2>3. state \in [Slots -> {"UNUSED", "EMBRYO", "SLEEPING", "RUNNABLE", "ZOMBIE"}]
      BY Zenon DEF TypeOK
    <2> QED BY <2>1, <2>2, <2>3 DEF Frame, Live, sys_wait, At, Syscall, Goto
  <1>3. WaitInv'
    BY Zenon DEF TypeOK, WaitInv, sys_wait, At, Syscall, Goto
  <1> QED BY <1>1, <1>2, <1>3, FrameInv

LEMMA wait_noneInv ==
  ASSUME IInv, NEW p \in Slots, wait_none(p)
  PROVE  IInv'
  <1> USE SlotFacts DEF IInv
  <1>1. TypeOK'
    BY Zenon DEF TypeOK, wait_none, At, Goto
  <1>2. Frame
    <2>1. np[p] = NoSlot /\ state[p] = "RUNNABLE" /\ pc[p] # "exit"
      BY InFork DEF wait_none, At, Goto
    <2>2. pc \in [Slots -> {"user", "fork", "name", "wait", "exit", "io", "tosleep"}]
      BY Zenon DEF TypeOK
    <2>3. state \in [Slots -> {"UNUSED", "EMBRYO", "SLEEPING", "RUNNABLE", "ZOMBIE"}]
      BY Zenon DEF TypeOK
    <2> QED BY <2>1, <2>2, <2>3 DEF Frame, Live, wait_none, At, Goto
  <1>3. WaitInv'
    BY ZenonT(60) DEF TypeOK, WaitInv, wait_none, At, Goto
  <1> QED BY <1>1, <1>2, <1>3, FrameInv

LEMMA wait_sleepInv ==
  ASSUME IInv, NEW p \in Slots, wait_sleep(p)
  PROVE  IInv'
  <1> USE SlotFacts DEF IInv
  <1>1. TypeOK'
    BY Zenon DEF TypeOK, wait_sleep, At, Zombies, Kids
  <1>2. Frame
    <2>1. np[p] = NoSlot /\ state[p] = "RUNNABLE" /\ pc[p] # "exit"
      BY InFork DEF wait_sleep, At, Zombies, Kids
    <2>2. pc \in [Slots -> {"user", "fork", "name", "wait", "exit", "io", "tosleep"}]
      BY Zenon DEF TypeOK
    <2>3. state \in [Slots -> {"UNUSED", "EMBRYO", "SLEEPING", "RUNNABLE", "ZOMBIE"}]
      BY Zenon DEF TypeOK
    <2> QED BY <2>1, <2>2, <2>3 DEF Frame, Live, wait_sleep, At, Zombies, Kids
  <1>3. WaitInv'
    BY ZenonT(60) DEF TypeOK, WaitInv, wait_sleep, At, Zombies, Kids
  <1> QED BY <1>1, <1>2, <1>3, FrameInv

LEMMA io_waitInv ==
  ASSUME IInv, NEW p \in Slots, io_wait(p)
  PROVE  IInv'
  <1> USE SlotFacts DEF IInv
  <1>1. TypeOK'
    BY Zenon DEF TypeOK, io_wait, At, Goto, Syscall
  <1>2. Frame
    <2>1. np[p] = NoSlot /\ state[p] = "RUNNABLE" /\ pc[p] # "exit"
      BY InFork DEF io_wait, At, Goto, Syscall
    <2>2. pc \in [Slots -> {"user", "fork", "name", "wait", "exit", "io", "tosleep"}]
      BY Zenon DEF TypeOK
    <2>3. state \in [Slots -> {"UNUSED", "EMBRYO", "SLEEPING", "RUNNABLE", "ZOMBIE"}]
      BY Zenon DEF TypeOK
    <2> QED BY <2>1, <2>2, <2>3 DEF Frame, Live, io_wait, At, Goto, Syscall
  <1>3. WaitInv'
    BY Zenon DEF TypeOK, WaitInv, io_wait, At, Goto, Syscall
  <1> QED BY <1>1, <1>2, <1>3, FrameInv

LEMMA io_sleepInv ==
  ASSUME IInv, NEW p \in Slots, io_sleep(p)
  PROVE  IInv'
  <1> USE SlotFacts DEF IInv
  <1>1. TypeOK'
    BY Zenon DEF TypeOK, io_sleep, At, Goto
  <1>2. Frame
    <2>1. np[p] = NoSlot /\ state[p] = "RUNNABLE" /\ pc[p] # "exit"
      BY InFork DEF io_sleep, At, Goto
    <2>2. pc \in [Slots -> {"user", "fork", "name", "wait", "exit", "io", "tosleep"}]
      BY Zenon DEF TypeOK
    <2>3. state \in [Slots -> {"UNUSED", "EMBRYO", "SLEEPING", "RUNNABLE", "ZOMBIE"}]
      BY Zenon DEF TypeOK
    <2> QED BY <2>1, <2>2, <2>3 DEF Frame, Live, io_sleep, At, Goto
  <1>3. WaitInv'
    BY ZenonT(60) DEF TypeOK, WaitInv, io_sleep, At, Goto
  <1> QED BY <1>1, <1>2, <1>3, FrameInv

LEMMA io_doneInv ==
  ASSUME IInv, NEW p \in Slots, io_done(p)
  PROVE  IInv'
  <1> USE SlotFacts DEF IInv
  <1>1. TypeOK'
    BY Zenon DEF TypeOK, io_done, At, Goto
  <1>2. Frame
    <2>1. np[p] = NoSlot /\ state[p] = "RUNNABLE" /\ pc[p] # "exit"
      BY InFork DEF io_done, At, Goto
    <2>2. pc \in [Slots -> {"user", "fork", "name", "wait", "exit", "io", "tosleep"}]
      BY Zenon DEF TypeOK
    <2>3. state \in [Slots -> {"UNUSED", "EMBRYO", "SLEEPING", "RUNNABLE", "ZOMBIE"}]
      BY Zenon DEF TypeOK
    <2> QED BY <2>1, <2>2, <2>3 DEF Frame, Live, io_done, At, Goto
  <1>3. WaitInv'
    BY ZenonT(60) DEF TypeOK, WaitInv, io_done, At, Goto
  <1> QED BY <1>1, <1>2, <1>3, FrameInv

LEMMA io_wakeupInv ==
  ASSUME IInv, io_wakeup
  PROVE  IInv'
  <1> USE SlotFacts DEF IInv
  <1>1. TypeOK'
    BY Zenon DEF TypeOK, io_wakeup, Woken
  <1>2. Frame
    BY Zenon DEF TypeOK, ForkInv, Frame, Live, io_wakeup, Woken
  <1>3. WaitInv'
    BY Zenon DEF TypeOK, WaitInv, io_wakeup, Woken
  <1> QED BY <1>1, <1>2, <1>3, FrameInv

LEMMA killInv ==
  ASSUME IInv, NEW k \in 0 .. MaxPid, kill(k)
  PROVE  IInv'
  <1> USE SlotFacts DEF IInv
  <1>1. PICK s \in Slots : /\ killed' = [killed EXCEPT ![s] = TRUE]
                           /\ state' = IF state[s] = "SLEEPING"
                                         THEN [state EXCEPT ![s] = "RUNNABLE"] ELSE state
    <2>1. First({t \in Slots : pid[t] = k}) \in Slots
      BY FirstIs DEF kill
    <2> QED BY <2>1, Zenon DEF kill
  <1>2. TypeOK'
    BY <1>1, ZenonT(60) DEF TypeOK, kill
  <1>3. Frame
    <2>1. state[s] = "SLEEPING" => np[s] = NoSlot
      BY InFork
    <2>2. state \in [Slots -> {"UNUSED", "EMBRYO", "SLEEPING", "RUNNABLE", "ZOMBIE"}]
      BY Zenon DEF TypeOK
    <2> QED BY <1>1, <2>1, <2>2 DEF Frame, Live, kill
  <1>4. WaitInv'
    <2>1. chan' = chan /\ parent' = parent
      BY DEF kill
    <2>2. state \in [Slots -> {"UNUSED", "EMBRYO", "SLEEPING", "RUNNABLE", "ZOMBIE"}]
      BY Zenon DEF TypeOK
    <2> QED BY <1>1, <2>1, <2>2 DEF WaitInv
  <1> QED BY <1>2, <1>3, <1>4, FrameInv

-----------------------------------------------------------------------------
(* The actions that make and end processes. *)

\* Nobody's fork has an UNUSED entry.
LEMMA ForkEntryUsed ==
  ASSUME IInv, NEW q \in Slots, np[q] # NoSlot
  PROVE  /\ np[q] \in Slots /\ Exists(np[q]) /\ state[q] = "RUNNABLE" /\ np[q] # q
         /\ \/ pc[q] = "fork" /\ state[np[q]] = "EMBRYO" /\ pid[q] < pid[np[q]]
            \/ pc[q] = "name" /\ state[np[q]] # "EMBRYO" /\ parent[np[q]] = q
  <1>1. pc[q] \in {"fork", "name"} /\ np[q] \in Slots
    BY InFork
  <1>2. state[q] = "RUNNABLE" /\ np[q] # q
    BY DEF IInv, ForkInv
  <1>a. ForkInv
    BY DEF IInv
  <1>3. pc[q] = "fork" => state[np[q]] = "EMBRYO" /\ pid[q] < pid[np[q]]
    BY <1>a, Zenon DEF ForkInv
  <1>4. pc[q] = "name" => parent[np[q]] = q /\ state[np[q]] \notin {"UNUSED", "EMBRYO"}
    BY <1>a, Zenon DEF ForkInv
  <1>5. CASE pc[q] = "fork"
    BY <1>1, <1>2, <1>3, <1>5 DEF Exists
  <1>6. CASE pc[q] = "name"
    BY <1>1, <1>2, <1>4, <1>6 DEF Exists
  <1> QED BY <1>1, <1>5, <1>6

LEMMA fork_allocInv ==
  ASSUME IInv, NEW p \in Slots, fork_alloc(p)
  PROVE  IInv'
  <1> USE SlotFacts
  <1>1. PICK c \in Slots : /\ state[c] = "UNUSED"
                           /\ state' = [state EXCEPT ![c] = "EMBRYO"]
                           /\ pid' = [pid EXCEPT ![c] = nextpid]
                           /\ np' = [np EXCEPT ![p] = c]
    <2> DEFINE Free == {s \in Slots : ~Exists(s)}
    <2>1. Free # {} /\ Free \subseteq Slots
      BY DEF fork_alloc
    <2>2. First(Free) \in Free
      BY <2>1, FirstIs
    <2> QED BY <2>2, Zenon DEF fork_alloc, Exists
  <1>2. /\ nextpid' = nextpid + 1 /\ nextpid <= MaxPid
        /\ pc' = [pc EXCEPT ![p] = "fork"]
        /\ parent' = parent /\ killed' = killed /\ name' = name /\ chan' = chan /\ kern' = kern
        /\ state[p] = "RUNNABLE" /\ pc[p] = "user" /\ p # c
    BY <1>1 DEF fork_alloc, Syscall, At, Goto
  <1>3. TypeOK'
    <2>1. nextpid \in 1 .. MaxPid /\ nextpid' \in 1 .. MaxPid + 1
      <3>1. nextpid \in 1 .. MaxPid + 1
        BY Zenon DEF IInv, TypeOK
      <3> QED BY <1>2, <3>1, ProcAssumption
    <2>2. nextpid \in 0 .. MaxPid
      BY <2>1, ProcAssumption
    <2>3. pid' \in [Slots -> 0 .. MaxPid]
      BY <1>1, <2>2, Zenon DEF IInv, TypeOK
    <2> QED BY <1>1, <1>2, <2>1, <2>3, Zenon DEF IInv, TypeOK
  <1>4. /\ \A s \in Slots \ {c} : state'[s] = state[s] /\ pid'[s] = pid[s]
        /\ state'[c] = "EMBRYO" /\ pid'[c] = nextpid
        /\ \A s \in Slots \ {p} : np'[s] = np[s] /\ pc'[s] = pc[s]
        /\ np'[p] = c /\ pc'[p] = "fork"
    BY <1>1, <1>2, Zenon DEF IInv, TypeOK
  <1>5. nextpid \in Nat \ {0} /\ \A s \in Slots : pid[s] \in Nat
    BY PidTypes DEF IInv
  <1>6. PidInv'
    BY <1>2, <1>4, <1>5 DEF IInv, PidInv, Exists
  <1>7. ForkInv'
    <2>1. \A q \in Slots : np[q] # NoSlot => q # c /\ np[q] # c
      BY <1>1, ForkEntryUsed DEF Exists
    <2>2. \A q \in Slots \ {p} : np'[q] # NoSlot =>
             np[q] \in Slots \ {c} /\ q # c
      BY <1>4, <2>1, ForkEntryUsed
    <2>3. pid[p] < pid'[c] /\ pid'[p] = pid[p]
      BY <1>2, <1>4 DEF IInv, PidInv
    <2>4. ASSUME NEW q \in Slots \ {p}
          PROVE  /\ pc'[q] \in {"fork", "name"} <=> np'[q] # NoSlot
                 /\ np'[q] # NoSlot => state'[q] = "RUNNABLE" /\ np'[q] # q
                 /\ pc'[q] = "fork" => state'[np'[q]] = "EMBRYO" /\ pid'[q] < pid'[np'[q]]
                 /\ pc'[q] = "name" => /\ parent'[np'[q]] = q
                                       /\ state'[np'[q]] \notin {"UNUSED", "EMBRYO"}
      <3>1. pc[q] \in {"fork", "name"} <=> np[q] # NoSlot
        BY DEF IInv, ForkInv
      <3>2. np[q] # NoSlot => state[q] = "RUNNABLE" /\ np[q] # q
        BY DEF IInv, ForkInv
      <3>3. /\ pc[q] = "fork" => state[np[q]] = "EMBRYO" /\ pid[q] < pid[np[q]]
            /\ pc[q] = "name" => parent[np[q]] = q /\ state[np[q]] \notin {"UNUSED", "EMBRYO"}
        BY DEF IInv, ForkInv
      <3> QED BY <1>2, <1>4, <2>2, <3>1, <3>2, <3>3
    <2>5. \A q, r \in Slots : np'[q] # NoSlot /\ np'[r] = np'[q] => r = q
      BY <1>4, <2>1 DEF IInv, ForkInv
    <2> QED BY <1>2, <1>4, <2>3, <2>4, <2>5 DEF ForkInv
  <1>8. TreeInv'
    <2>1. /\ Live(initproc)' /\ pc'[initproc] # "exit" /\ parent'[initproc] = NoSlot
      BY <1>1, <1>2, <1>4 DEF IInv, TreeInv, Live
    <2>2. \A s \in Slots : state'[s] \in {"UNUSED", "EMBRYO"} => parent'[s] = NoSlot
      BY <1>1, <1>2, <1>4 DEF IInv, TreeInv
    <2>3. ASSUME NEW s \in Slots \ {initproc}, Live(s)' \/ state'[s] = "ZOMBIE"
          PROVE  /\ parent'[s] # NoSlot /\ Live(parent[s])'
                 /\ parent'[s] = initproc \/ pid'[parent'[s]] < pid'[s]
      <3>1. s # c /\ (Live(s) \/ state[s] = "ZOMBIE")
        BY <1>4, <2>3 DEF Live
      <3>2. /\ parent[s] \in Slots /\ Live(parent[s])
            /\ parent[s] = initproc \/ pid[parent[s]] < pid[s]
        BY <3>1, Zenon DEF IInv, TypeOK, TreeInv, ParentAlive
      <3>3. parent[s] # c
        BY <1>1, <3>2 DEF Live
      <3> QED BY <1>2, <1>4, <3>1, <3>2, <3>3 DEF Live
    <2> QED BY <1>2, <2>1, <2>2, <2>3 DEF TreeInv, ParentAlive
  <1>9. WaitInv'
    BY <1>2, <1>4 DEF IInv, WaitInv
  <1> QED BY <1>3, <1>6, <1>7, <1>8, <1>9 DEF IInv

LEMMA fork_failInv ==
  ASSUME IInv, NEW p \in Slots, fork_fail(p)
  PROVE  IInv'
  <1> USE SlotFacts
  <1>1. /\ state' = [state EXCEPT ![np[p]] = "UNUSED"]
        /\ np' = [np EXCEPT ![p] = NoSlot] /\ pc' = [pc EXCEPT ![p] = "user"]
        /\ pid' = pid /\ parent' = parent /\ killed' = killed /\ name' = name
        /\ chan' = chan /\ nextpid' = nextpid /\ kern' = kern
        /\ pc[p] = "fork"
    BY DEF fork_fail, At, Goto
  <1>2. PICK e \in Slots : e = np[p] /\ state[e] = "EMBRYO" /\ e # p
    BY <1>1, InFork, ForkEntryUsed
  <1>3. TypeOK'
    BY <1>1, <1>2, Zenon DEF IInv, TypeOK
  <1>4. /\ \A s \in Slots \ {e} : state'[s] = state[s]
        /\ state'[e] = "UNUSED"
        /\ \A s \in Slots \ {p} : np'[s] = np[s] /\ pc'[s] = pc[s]
        /\ np'[p] = NoSlot /\ pc'[p] = "user"
    BY <1>1, <1>2, ZenonT(60) DEF IInv, TypeOK
  <1>5. \A q \in Slots \ {p} : np[q] # NoSlot => np[q] \in Slots \ {e} /\ q # e
    <2>1. \A q \in Slots : np[q] = np[p] => q = p
      BY <1>2 DEF IInv, ForkInv
    <2> QED BY <1>2, <2>1, ForkEntryUsed
  <1>6. PidInv'
    BY <1>1, <1>4 DEF IInv, PidInv, Exists
  <1>7. ForkInv'
    <2>1. ASSUME NEW q \in Slots \ {p}
          PROVE  /\ pc'[q] \in {"fork", "name"} <=> np'[q] # NoSlot
                 /\ np'[q] # NoSlot => state'[q] = "RUNNABLE" /\ np'[q] # q
                 /\ pc'[q] = "fork" => state'[np'[q]] = "EMBRYO" /\ pid'[q] < pid'[np'[q]]
                 /\ pc'[q] = "name" => /\ parent'[np'[q]] = q
                                       /\ state'[np'[q]] \notin {"UNUSED", "EMBRYO"}
      <3>1. pc[q] \in {"fork", "name"} <=> np[q] # NoSlot
        BY DEF IInv, ForkInv
      <3>2. np[q] # NoSlot => state[q] = "RUNNABLE" /\ np[q] # q
        BY DEF IInv, ForkInv
      <3>3. /\ pc[q] = "fork" => state[np[q]] = "EMBRYO" /\ pid[q] < pid[np[q]]
            /\ pc[q] = "name" => parent[np[q]] = q /\ state[np[q]] \notin {"UNUSED", "EMBRYO"}
        BY DEF IInv, ForkInv
      <3> QED BY <1>1, <1>4, <1>5, <3>1, <3>2, <3>3
    <2>2. \A q, r \in Slots : np'[q] # NoSlot /\ np'[r] = np'[q] => r = q
      BY <1>4 DEF IInv, ForkInv
    <2> QED BY <1>4, <2>1, <2>2 DEF ForkInv
  <1>8. TreeInv'
    <2>1. Live(initproc)' /\ pc'[initproc] # "exit" /\ parent'[initproc] = NoSlot
      BY <1>1, <1>2, <1>4 DEF IInv, TreeInv, Live
    <2>2. \A s \in Slots : state'[s] \in {"UNUSED", "EMBRYO"} => parent'[s] = NoSlot
      BY <1>1, <1>2, <1>4 DEF IInv, TreeInv
    <2>3. ASSUME NEW s \in Slots \ {initproc}, Live(s)' \/ state'[s] = "ZOMBIE"
          PROVE  /\ parent'[s] # NoSlot /\ Live(parent[s])'
                 /\ parent'[s] = initproc \/ pid'[parent'[s]] < pid'[s]
      <3>1. s # e /\ (Live(s) \/ state[s] = "ZOMBIE")
        BY <1>4, <2>3 DEF Live
      <3>2. /\ parent[s] \in Slots /\ Live(parent[s])
            /\ parent[s] = initproc \/ pid[parent[s]] < pid[s]
        BY <3>1, Zenon DEF IInv, TypeOK, TreeInv, ParentAlive
      <3>3. parent[s] # e
        BY <1>2, <3>2 DEF Live
      <3> QED BY <1>1, <1>4, <3>1, <3>2, <3>3 DEF Live
    <2> QED BY <1>1, <2>1, <2>2, <2>3 DEF TreeInv, ParentAlive
  <1>9. WaitInv'
    BY <1>1, <1>4 DEF IInv, WaitInv
  <1> QED BY <1>3, <1>6, <1>7, <1>8, <1>9 DEF IInv

LEMMA fork_runInv ==
  ASSUME IInv, NEW p \in Slots, fork_run(p)
  PROVE  IInv'
  <1> USE SlotFacts
  <1>1. /\ parent' = [parent EXCEPT ![np[p]] = p]
        /\ state' = [state EXCEPT ![np[p]] = "RUNNABLE"]
        /\ pc' = [pc EXCEPT ![p] = "name", ![np[p]] = "user"]
        /\ pid' = pid /\ killed' = killed /\ name' = name /\ np' = np
        /\ chan' = chan /\ nextpid' = nextpid /\ kern' = kern
        /\ pc[p] = "fork" /\ state[p] = "RUNNABLE"
    BY DEF fork_run, At
  <1>2. PICK e \in Slots : e = np[p] /\ state[e] = "EMBRYO" /\ e # p /\ pid[p] < pid[e]
    BY <1>1, InFork, ForkEntryUsed
  <1>3. TypeOK'
    BY <1>1, <1>2, Zenon DEF IInv, TypeOK
  <1>4. /\ \A s \in Slots \ {e} : state'[s] = state[s] /\ parent'[s] = parent[s]
        /\ state'[e] = "RUNNABLE" /\ parent'[e] = p
        /\ \A s \in Slots \ {p, e} : pc'[s] = pc[s]
        /\ pc'[p] = "name" /\ pc'[e] = "user"
    BY <1>1, <1>2, Zenon DEF IInv, TypeOK
  <1>5. /\ \A q \in Slots \ {p} : np[q] # NoSlot => np[q] \in Slots \ {e} /\ q # e
        /\ np[e] = NoSlot
    <2>1. \A q \in Slots : np[q] = np[p] => q = p
      BY <1>2 DEF IInv, ForkInv
    <2>2. np[e] = NoSlot
      BY <1>2, InFork
    <2> QED BY <1>2, <2>1, <2>2, ForkEntryUsed
  <1>6. PidInv'
    BY <1>1, <1>2, <1>4 DEF IInv, PidInv, Exists
  <1>7. ForkInv'
    <2>1. ASSUME NEW q \in Slots \ {p, e}
          PROVE  /\ pc'[q] \in {"fork", "name"} <=> np'[q] # NoSlot
                 /\ np'[q] # NoSlot => state'[q] = "RUNNABLE" /\ np'[q] # q
                 /\ pc'[q] = "fork" => state'[np'[q]] = "EMBRYO" /\ pid'[q] < pid'[np'[q]]
                 /\ pc'[q] = "name" => /\ parent'[np'[q]] = q
                                       /\ state'[np'[q]] \notin {"UNUSED", "EMBRYO"}
      <3>1. pc[q] \in {"fork", "name"} <=> np[q] # NoSlot
        BY DEF IInv, ForkInv
      <3>2. np[q] # NoSlot => state[q] = "RUNNABLE" /\ np[q] # q
        BY DEF IInv, ForkInv
      <3>3. /\ pc[q] = "fork" => state[np[q]] = "EMBRYO" /\ pid[q] < pid[np[q]]
            /\ pc[q] = "name" => parent[np[q]] = q /\ state[np[q]] \notin {"UNUSED", "EMBRYO"}
        BY DEF IInv, ForkInv
      <3>4. np'[q] = np[q] /\ pid' = pid
        BY <1>1
      <3> QED BY <1>4, <1>5, <3>1, <3>2, <3>3, <3>4
    <2>2. \A q, r \in Slots : np'[q] # NoSlot /\ np'[r] = np'[q] => r = q
      BY <1>1 DEF IInv, ForkInv
    <2>3. /\ np'[p] = e /\ np'[e] = NoSlot /\ state'[p] = "RUNNABLE"
      BY <1>1, <1>2, <1>4, <1>5
    <2> QED BY <1>2, <1>4, <2>1, <2>2, <2>3 DEF ForkInv
  <1>8. TreeInv'
    <2>1. Live(initproc)' /\ pc'[initproc] # "exit" /\ parent'[initproc] = NoSlot
      BY Zenon, <1>1, <1>2, <1>4 DEF IInv, TreeInv, Live
    <2>2. \A s \in Slots : state'[s] \in {"UNUSED", "EMBRYO"} => parent'[s] = NoSlot
      BY <1>2, <1>4 DEF IInv, TreeInv
    <2>3. ASSUME NEW s \in Slots \ {initproc}, Live(s)' \/ state'[s] = "ZOMBIE"
          PROVE  /\ parent'[s] # NoSlot /\ Live(parent[s])'
                 /\ parent'[s] = initproc \/ pid'[parent'[s]] < pid'[s]
      <3>1. CASE s # e
        <4>1. /\ parent[s] \in Slots /\ Live(parent[s])
              /\ parent[s] = initproc \/ pid[parent[s]] < pid[s]
          <5>1. Live(s) \/ state[s] = "ZOMBIE"
            BY <1>4, <2>3, <3>1 DEF Live
          <5> QED BY <5>1, Zenon DEF IInv, TypeOK, TreeInv, ParentAlive
        <4>2. parent[s] # e
          BY <1>2, <4>1 DEF Live
        <4> QED BY <1>1, <1>4, <3>1, <4>1, <4>2 DEF Live
      <3>2. CASE s = e
        BY <1>1, <1>2, <1>4, <3>2 DEF Live
      <3> QED BY <3>1, <3>2
    <2> QED BY <2>1, <2>2, <2>3 DEF TreeInv, ParentAlive
  <1>9. WaitInv'
    BY <1>1, <1>4 DEF IInv, WaitInv
  <1> QED BY <1>3, <1>6, <1>7, <1>8, <1>9 DEF IInv

LEMMA fork_nameInv ==
  ASSUME IInv, NEW p \in Slots, fork_name(p)
  PROVE  IInv'
  <1> USE SlotFacts
  <1>1. /\ name' = [name EXCEPT ![np[p]] = name[p]]
        /\ np' = [np EXCEPT ![p] = NoSlot] /\ pc' = [pc EXCEPT ![p] = "user"]
        /\ state' = state /\ pid' = pid /\ parent' = parent /\ killed' = killed
        /\ chan' = chan /\ nextpid' = nextpid /\ kern' = kern
    BY DEF fork_name, At, Goto
  <1>2. TypeOK'
    BY <1>1, Zenon DEF IInv, TypeOK
  <1>3. /\ \A s \in Slots \ {p} : np'[s] = np[s] /\ pc'[s] = pc[s]
        /\ np'[p] = NoSlot /\ pc'[p] = "user"
    BY <1>1, Zenon DEF IInv, TypeOK
  <1>4. PidInv'
    BY <1>1 DEF IInv, PidInv, Exists
  <1>5. ForkInv'
    BY <1>1, <1>3 DEF IInv, ForkInv
  <1>6. TreeInv'
    BY <1>1, <1>3 DEF IInv, TreeInv, ParentAlive, Live
  <1>7. WaitInv'
    BY <1>1 DEF IInv, WaitInv
  <1> QED BY <1>2, <1>4, <1>5, <1>6, <1>7 DEF IInv

LEMMA exitInv ==
  ASSUME IInv, NEW p \in Slots, exit(p)
  PROVE  IInv'
  <1> USE SlotFacts
  <1>1. /\ pid' = pid /\ killed' = killed /\ name' = name /\ np' = np /\ pc' = pc
        /\ chan' = chan /\ nextpid' = nextpid /\ kern' = kern
        /\ pc[p] = "exit" /\ state[p] = "RUNNABLE"
    BY DEF exit, At
  <1>2. \A s \in Slots : parent'[s] = IF parent[s] = p THEN initproc ELSE parent[s]
    BY DEF exit
  <1>3. /\ state'[p] = "ZOMBIE"
        /\ \A s \in Slots \ {p} : \/ state'[s] = state[s]
                                  \/ state[s] = "SLEEPING" /\ state'[s] = "RUNNABLE"
    BY DEF exit, Woken
  <1>4. \A s \in Slots \ {p} :
           state[s] = "SLEEPING" /\ chan[s] = parent[p] => state'[s] = "RUNNABLE"
    BY DEF exit, Woken
  <1>5. \A z \in Slots : parent[z] = p /\ state[z] = "ZOMBIE" =>
           \A s \in Slots \ {p} :
             state[s] = "SLEEPING" /\ chan[s] = initproc => state'[s] = "RUNNABLE"
    BY DEF exit, Woken
  <1>6. /\ p # initproc /\ Live(p) /\ np[p] = NoSlot
    BY <1>1, InFork DEF IInv, TreeInv, Live
  <1>7. parent[p] # p /\ parent'[p] = parent[p]
    <2>1. parent[p] = initproc \/ pid[parent[p]] < pid[p]
      BY <1>6 DEF IInv, TreeInv, ParentAlive
    <2>2. pid[p] \in Nat
      BY PidTypes DEF IInv
    <2> QED BY <1>2, <1>6, <2>1, <2>2
  <1>8. TypeOK'
    <2>1. parent' \in [Slots -> Slots \cup {NoSlot}]
      BY Zenon DEF exit, IInv, TypeOK
    <2>2. state' \in [Slots -> {"UNUSED", "EMBRYO", "SLEEPING", "RUNNABLE", "ZOMBIE"}]
      BY Zenon DEF exit, Woken, IInv, TypeOK
    <2> QED BY <1>1, <2>1, <2>2, Zenon DEF IInv, TypeOK
  <1>9. \A s \in Slots : /\ Exists(s)' <=> Exists(s)
                         /\ s # p => (Live(s)' <=> Live(s))
                         /\ state'[s] = "EMBRYO" <=> state[s] = "EMBRYO"
                         /\ s # p => (state'[s] = "ZOMBIE" <=> state[s] = "ZOMBIE")
    BY <1>1, <1>3 DEF Exists, Live
  <1>10. PidInv'
    BY <1>1, <1>9 DEF IInv, PidInv
  <1>11. ForkInv'
    <2>1. ASSUME NEW q \in Slots
          PROVE  /\ pc'[q] \in {"fork", "name"} <=> np'[q] # NoSlot
                 /\ np'[q] # NoSlot => state'[q] = "RUNNABLE" /\ np'[q] # q
                 /\ pc'[q] = "fork" => state'[np'[q]] = "EMBRYO" /\ pid'[q] < pid'[np'[q]]
                 /\ pc'[q] = "name" => /\ parent'[np'[q]] = q
                                       /\ state'[np'[q]] \notin {"UNUSED", "EMBRYO"}
      <3>1. np'[q] = np[q] /\ pc'[q] = pc[q] /\ pid' = pid
        BY <1>1
      <3>2. pc[q] \in {"fork", "name"} <=> np[q] # NoSlot
        BY DEF IInv, ForkInv
      <3>3. np[q] # NoSlot => state[q] = "RUNNABLE" /\ np[q] # q /\ q # p
        BY <1>6 DEF IInv, ForkInv
      <3>4. np[q] # NoSlot => np[q] \in Slots
        BY Zenon DEF IInv, TypeOK
      <3>5. pc[q] = "fork" => state[np[q]] = "EMBRYO" /\ pid[q] < pid[np[q]]
        BY DEF IInv, ForkInv
      <3>6. pc[q] = "name" => parent[np[q]] = q /\ state[np[q]] \notin {"UNUSED", "EMBRYO"}
        BY DEF IInv, ForkInv
      <3>7. np[q] # NoSlot => state'[q] = "RUNNABLE"
        BY <1>3, <3>3
      <3>8. pc[q] = "fork" => state'[np[q]] = "EMBRYO"
        BY <1>9, <3>2, <3>4, <3>5
      <3>9. pc[q] = "name" => parent'[np[q]] = q /\ state'[np[q]] \notin {"UNUSED", "EMBRYO"}
        BY <1>2, <1>9, <3>2, <3>3, <3>4, <3>6 DEF Exists
      <3> QED BY <3>1, <3>2, <3>3, <3>5, <3>7, <3>8, <3>9
    <2>2. \A q, r \in Slots : np'[q] # NoSlot /\ np'[r] = np'[q] => r = q
      BY <1>1 DEF IInv, ForkInv
    <2> QED BY <2>1, <2>2 DEF ForkInv
  <1>12. TreeInv'
    <2>1. Live(initproc)' /\ pc'[initproc] # "exit" /\ parent'[initproc] = NoSlot
      BY <1>1, <1>2, <1>6, <1>9 DEF IInv, TreeInv
    <2>2. \A s \in Slots : state'[s] \in {"UNUSED", "EMBRYO"} => parent'[s] = NoSlot
      BY <1>2, <1>9 DEF IInv, TreeInv, Exists
    <2>3. ASSUME NEW s \in Slots \ {initproc}, Live(s)' \/ state'[s] = "ZOMBIE"
          PROVE  /\ parent'[s] # NoSlot /\ Live(parent[s])'
                 /\ parent'[s] = initproc \/ pid'[parent'[s]] < pid'[s]
      <3>1. Live(s) \/ state[s] = "ZOMBIE"
        BY <1>6, <1>9, <2>3
      <3>2. /\ parent[s] \in Slots /\ Live(parent[s])
            /\ parent[s] = initproc \/ pid[parent[s]] < pid[s]
        BY <3>1, Zenon DEF IInv, TypeOK, TreeInv, ParentAlive
      <3>3. CASE parent[s] = p
        <4>1. parent'[s] = initproc
          BY <1>2, <3>3
        <4> QED BY <2>1, <4>1 DEF Live
      <3>4. CASE parent[s] # p
        <4>1. parent'[s] = parent[s] /\ pid' = pid
          BY <1>1, <1>2, <3>4
        <4> QED BY <1>9, <3>2, <3>4, <4>1 DEF Live
      <3> QED BY <3>3, <3>4
    <2> QED BY <2>1, <2>2, <2>3 DEF TreeInv, ParentAlive
  <1>13. WaitInv'
    <2> SUFFICES ASSUME NEW q \in Slots, NEW z \in Slots,
                        state'[q] = "SLEEPING", chan[q] = q, parent'[z] = q,
                        state'[z] = "ZOMBIE"
                 PROVE  FALSE
      BY <1>1 DEF WaitInv
    <2>1. q # p /\ state[q] = "SLEEPING"
      BY <1>3
    <2>2. CASE z = p
      BY <1>4, <1>7, <2>1, <2>2
    <2>3. CASE z # p /\ parent[z] = p
      <3>1. state[z] = "ZOMBIE" /\ q = initproc
        BY <1>2, <1>9, <2>3
      <3> QED BY <1>5, <2>1, <2>3, <3>1
    <2>4. CASE z # p /\ parent[z] # p
      <3>1. state[z] = "ZOMBIE" /\ parent[z] = q
        BY <1>2, <1>9, <2>4, SMTT(30), Z3T(30)
      <3> QED BY <2>1, <3>1 DEF IInv, WaitInv
    <2> QED BY <2>2, <2>3, <2>4
  <1> QED BY <1>8, <1>10, <1>11, <1>12, <1>13 DEF IInv

LEMMA wait_reapInv ==
  ASSUME IInv, NEW p \in Slots, wait_reap(p)
  PROVE  IInv'
  <1> USE SlotFacts
  <1>1. PICK z \in Slots : /\ parent[z] = p /\ state[z] = "ZOMBIE"
                           /\ state' = [state EXCEPT ![z] = "UNUSED"]
                           /\ pid' = [pid EXCEPT ![z] = 0]
                           /\ parent' = [parent EXCEPT ![z] = NoSlot]
                           /\ name' = [name EXCEPT ![z] = ""]
                           /\ killed' = [killed EXCEPT ![z] = FALSE]
    <2>1. Zombies(p) # {} /\ Zombies(p) \subseteq Slots
      BY Zenon DEF wait_reap, Zombies, Kids
    <2>2. First(Zombies(p)) \in Zombies(p)
      BY <2>1, FirstIs
    <2> QED BY <2>2, Zenon DEF wait_reap, Zombies, Kids
  <1>2. /\ chan' = [chan EXCEPT ![p] = NoSlot] /\ pc' = [pc EXCEPT ![p] = "user"]
        /\ np' = np /\ nextpid' = nextpid /\ kern' = kern
        /\ pc[p] = "wait" /\ state[p] = "RUNNABLE" /\ p # z
    BY <1>1, Zenon DEF wait_reap, At, Goto
  <1>3. TypeOK'
    <2>1. 0 \in 0 .. MaxPid
      BY ProcAssumption
    <2>2. pid' \in [Slots -> 0 .. MaxPid]
      BY <1>1, <2>1, Zenon DEF IInv, TypeOK
    <2>3. killed' \in [Slots -> BOOLEAN]
      BY <1>1, Zenon DEF IInv, TypeOK
    <2> QED BY <1>1, <1>2, <2>2, <2>3, Zenon DEF IInv, TypeOK
  <1>4. /\ \A s \in Slots \ {z} : state'[s] = state[s] /\ pid'[s] = pid[s] /\ parent'[s] = parent[s]
        /\ state'[z] = "UNUSED" /\ pid'[z] = 0 /\ parent'[z] = NoSlot
    BY <1>1, Zenon DEF IInv, TypeOK
  <1>5. /\ \A s \in Slots \ {p} : pc'[s] = pc[s] /\ chan'[s] = chan[s]
        /\ pc'[p] = "user" /\ chan'[p] = NoSlot
    BY <1>2, Zenon DEF IInv, TypeOK
  <1>6. np[p] = NoSlot /\ np[z] = NoSlot /\ z # initproc
    BY <1>1, <1>2, InFork, Zenon DEF IInv, TreeInv
  <1>7. \A q \in Slots : np[q] # NoSlot => np[q] \in Slots \ {z} /\ q # z /\ q # p
    <2> SUFFICES ASSUME NEW q \in Slots, np[q] # NoSlot
                 PROVE  np[q] \in Slots \ {z} /\ q # z /\ q # p
      OBVIOUS
    <2>1. /\ np[q] \in Slots
          /\ \/ pc[q] = "fork" /\ state[np[q]] = "EMBRYO"
             \/ pc[q] = "name" /\ parent[np[q]] = q
      BY ForkEntryUsed
    <2>2. np[q] # z
      BY <1>1, <1>2, <2>1, Zenon
    <2> QED BY <1>6, <2>1, <2>2
  <1>8. PidInv'
    <2>1. nextpid \in Nat \ {0} /\ \A s \in Slots : pid[s] \in Nat
      BY PidTypes DEF IInv
    <2> QED BY <1>2, <1>4, <2>1 DEF IInv, PidInv, Exists
  <1>9. ForkInv'
    <2>1. ASSUME NEW q \in Slots
          PROVE  /\ pc'[q] \in {"fork", "name"} <=> np'[q] # NoSlot
                 /\ np'[q] # NoSlot => state'[q] = "RUNNABLE" /\ np'[q] # q
                 /\ pc'[q] = "fork" => state'[np'[q]] = "EMBRYO" /\ pid'[q] < pid'[np'[q]]
                 /\ pc'[q] = "name" => /\ parent'[np'[q]] = q
                                       /\ state'[np'[q]] \notin {"UNUSED", "EMBRYO"}
      <3>1. np'[q] = np[q]
        BY <1>2
      <3>2. pc[q] \in {"fork", "name"} <=> np[q] # NoSlot
        BY DEF IInv, ForkInv
      <3>3. np[q] # NoSlot => state[q] = "RUNNABLE" /\ np[q] # q
        BY DEF IInv, ForkInv
      <3>4. pc[q] = "fork" => state[np[q]] = "EMBRYO" /\ pid[q] < pid[np[q]]
        BY DEF IInv, ForkInv
      <3>5. pc[q] = "name" => parent[np[q]] = q /\ state[np[q]] \notin {"UNUSED", "EMBRYO"}
        BY DEF IInv, ForkInv
      <3>6. CASE np[q] = NoSlot
        BY <1>5, <3>1, <3>2, <3>6
      <3>7. CASE np[q] # NoSlot
        <4>1. /\ state'[np[q]] = state[np[q]] /\ pid'[np[q]] = pid[np[q]]
              /\ parent'[np[q]] = parent[np[q]]
              /\ state'[q] = state[q] /\ pid'[q] = pid[q] /\ pc'[q] = pc[q]
          BY <1>4, <1>5, <1>7, <3>7
        <4> QED BY <3>1, <3>2, <3>3, <3>4, <3>5, <3>7, <4>1
      <3> QED BY <3>6, <3>7
    <2>2. \A q, r \in Slots : np'[q] # NoSlot /\ np'[r] = np'[q] => r = q
      BY <1>2 DEF IInv, ForkInv
    <2> QED BY <2>1, <2>2 DEF ForkInv
  <1>10. TreeInv'
    <2>1. Live(initproc)' /\ pc'[initproc] # "exit" /\ parent'[initproc] = NoSlot
      BY <1>4, <1>5, <1>6 DEF IInv, TreeInv, Live
    <2>2. \A s \in Slots : state'[s] \in {"UNUSED", "EMBRYO"} => parent'[s] = NoSlot
      BY <1>4 DEF IInv, TreeInv
    <2>3. ASSUME NEW s \in Slots \ {initproc}, Live(s)' \/ state'[s] = "ZOMBIE"
          PROVE  /\ parent'[s] # NoSlot /\ Live(parent[s])'
                 /\ parent'[s] = initproc \/ pid'[parent'[s]] < pid'[s]
      <3>1. s # z /\ (Live(s) \/ state[s] = "ZOMBIE")
        BY <1>4, <2>3 DEF Live
      <3>2. /\ parent[s] \in Slots /\ Live(parent[s])
            /\ parent[s] = initproc \/ pid[parent[s]] < pid[s]
        BY <3>1, Zenon DEF IInv, TypeOK, TreeInv, ParentAlive
      <3>3. parent[s] # z
        BY <1>1, <3>2, Zenon DEF Live
      <3> QED BY <1>4, <3>1, <3>2, <3>3 DEF Live
    <2> QED BY <2>1, <2>2, <2>3 DEF TreeInv, ParentAlive
  <1>11. WaitInv'
    BY <1>4, <1>5 DEF IInv, WaitInv
  <1> QED BY <1>3, <1>8, <1>9, <1>10, <1>11 DEF IInv

-----------------------------------------------------------------------------
(* The invariant. *)

LEMMA InitIInv == Init => IInv
  <1> SUFFICES ASSUME Init PROVE IInv
    OBVIOUS
  <1> USE SlotFacts
  <1>1. /\ \A s \in Slots : /\ state[s] = IF s = initproc THEN "RUNNABLE" ELSE "UNUSED"
                            /\ pid[s] = IF s = initproc THEN 1 ELSE 0
                            /\ parent[s] = NoSlot /\ np[s] = NoSlot /\ chan[s] = NoSlot
                            /\ pc[s] = "user"
        /\ nextpid = 2
    BY Zenon DEF Init
  <1>2. TypeOK
    <2>1. nextpid \in 1 .. MaxPid + 1
      BY <1>1, ProcAssumption
    <2>a. 0 \in 0 .. MaxPid /\ 1 \in 0 .. MaxPid
      BY ProcAssumption
    <2>b. pid \in [Slots -> 0 .. MaxPid]
      BY <2>a, Zenon DEF Init
    <2>2. chan \in [Slots -> 0 .. NPROC + 1]
      BY ProcAssumption, Zenon DEF Init, NoSlot
    <2>3. killed \in [Slots -> BOOLEAN]
      BY Zenon DEF Init
    <2>4. name \in [Slots -> Names \cup {""}]
      BY Zenon DEF Init
    <2> QED BY <2>1, <2>b, <2>2, <2>3, <2>4, ZenonT(60) DEF Init, TypeOK
  <1>3. PidInv
    BY <1>1 DEF PidInv, Exists
  <1>4. ForkInv
    BY <1>1 DEF ForkInv
  <1>5. TreeInv
    BY <1>1 DEF TreeInv, ParentAlive, Live
  <1>6. WaitInv
    BY <1>1 DEF WaitInv
  <1> QED BY <1>2, <1>3, <1>4, <1>5, <1>6 DEF IInv

LEMMA NextIInv == IInv /\ [Next]_vars => IInv'
  <1> SUFFICES ASSUME IInv, [Next]_vars PROVE IInv'
    OBVIOUS
  <1>1. CASE UNCHANGED vars
    <2>1. Frame
      BY <1>1 DEF vars, Frame
    <2>2. TypeOK' /\ WaitInv'
      BY <1>1, Zenon DEF vars, IInv, TypeOK, WaitInv
    <2> QED BY <2>1, <2>2, FrameInv DEF IInv
  <1>2. ASSUME NEW p \in Slots,
               \/ fork_alloc(p) \/ fork_fail(p) \/ fork_run(p) \/ fork_name(p)
               \/ \E n \in Names : exec(p, n)
        PROVE  IInv'
    BY <1>2, fork_allocInv, fork_failInv, fork_runInv, fork_nameInv, execInv
  <1>3. ASSUME NEW p \in Slots,
               \/ exit_begin(p) \/ exit_init(p) \/ exit(p)
               \/ sys_wait(p) \/ wait_reap(p) \/ wait_none(p) \/ wait_sleep(p)
        PROVE  IInv'
    BY <1>3, exit_beginInv, exit_initInv, exitInv, sys_waitInv, wait_reapInv,
       wait_noneInv, wait_sleepInv
  <1>4. ASSUME NEW p \in Slots, io_wait(p) \/ io_sleep(p) \/ io_done(p)
        PROVE  IInv'
    BY <1>4, io_waitInv, io_sleepInv, io_doneInv
  <1>5. CASE io_wakeup
    BY <1>5, io_wakeupInv
  <1>6. ASSUME NEW k \in 0 .. MaxPid, kill(k)
        PROVE  IInv'
    BY <1>6, killInv
  <1> QED BY <1>1, <1>2, <1>3, <1>4, <1>5, <1>6 DEF Next

THEOREM ProcInvariant == Spec => []IInv
  BY InitIInv, NextIInv, PTL DEF Spec

-----------------------------------------------------------------------------
(* What the invariant says. *)

\* The fields of the table keep their types; in particular nextpid never runs
\* past the pids that allocproc hands out.
THEOREM ProcTypes == Spec => []TypeOK
  <1>1. IInv => TypeOK
    BY DEF IInv
  <1> QED BY <1>1, ProcInvariant, PTL

\* Every process but init, zombies included, has a living parent that is init
\* or older: exit's handover to init loses nobody, so everything is reaped by
\* somebody (allocproc, fork, exit, wait).
THEOREM ProcParentAlive == Spec => []ParentAlive
  <1>1. IInv => ParentAlive
    BY DEF IInv, TreeInv
  <1> QED BY <1>1, ProcInvariant, PTL

\* A parent asleep in wait has no zombie child: the wakeups of exit cover its
\* own parent and init for the zombies it inherits.
THEOREM ProcNoMissedExit == Spec => []NoMissedExit
  <1>1. IInv => NoMissedExit
    BY Zenon DEF IInv, WaitInv, NoMissedExit, Zombies, Kids
  <1> QED BY <1>1, ProcInvariant, PTL

\* kill's scan for a pid stops at the process of that pid, whatever pids failed
\* forks have left in UNUSED entries.
THEOREM ProcKillReaches == Spec => []KillReaches
  <1>1. ASSUME IInv, NEW s \in Slots, Exists(s)
        PROVE  First({t \in Slots : pid[t] = pid[s]}) = s
    <2> DEFINE S == {t \in Slots : pid[t] = pid[s]}
    <2>1. S \subseteq Slots /\ s \in S
      OBVIOUS
    <2>2. First(S) \in S
      BY <2>1, FirstIs
    <2>3. \A t \in S : t = s
      BY <1>1 DEF IInv, PidInv
    <2> QED BY <2>2, <2>3
  <1>2. IInv => KillReaches
    BY <1>1 DEF KillReaches
  <1> QED BY <1>2, ProcInvariant, PTL

\* The entry a fork works on is its own until fork returns, although ptable.lock
\* is released after allocproc and the child may run before its name is copied.
THEOREM ProcForkOwnsEntry == Spec => []ForkOwnsEntry
  <1>1. ASSUME IInv, NEW p \in Slots, np[p] # NoSlot, NEW q \in Slots
        PROVE  /\ Exists(np[p]) /\ (pc[p] = "fork" => state[np[p]] = "EMBRYO")
               /\ pc[p] = "name" => parent[np[p]] = p
               /\ np[q] = np[p] => q = p
    <2>1. np[q] = np[p] => q = p
      BY <1>1 DEF IInv, ForkInv
    <2>2. Exists(np[p])
      BY <1>1, ForkEntryUsed
    <2>3. pc[p] = "fork" => state[np[p]] = "EMBRYO"
      BY <1>1 DEF IInv, ForkInv
    <2>4. pc[p] = "name" => parent[np[p]] = p
      BY <1>1 DEF IInv, ForkInv
    <2> QED BY <2>1, <2>2, <2>3, <2>4
  <1>2. IInv => ForkOwnsEntry
    BY <1>1 DEF ForkOwnsEntry
  <1> QED BY <1>2, ProcInvariant, PTL


\* The process table is consistent through fork, exit, wait and kill.
THEOREM ProcTable == Spec => []TableConsistent
  BY ProcTypes, ProcForkOwnsEntry, ProcParentAlive, ProcKillReaches, PTL DEF TableConsistent
==============================================================================
