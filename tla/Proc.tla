-------------------------------- MODULE Proc --------------------------------
(***************************************************************************)
(* The process table (kernel/proc.c): allocproc, fork, exit, wait and kill *)
(* with the sleeps they meet, one step per critical section of ptable.lock *)
(* and one per unlocked write of a table entry.  Which of the runnable     *)
(* processes runs is Sched's subject: "RUNNABLE" stands here for RUNNABLE  *)
(* and RUNNING.                                                            *)
(***************************************************************************)
EXTENDS Naturals, FiniteSets

CONSTANTS
  NPROC,    \* entries of the process table
  MaxPid,   \* bound on nextpid
  Names,    \* program names
  Devices   \* do processes also sleep on devices, pipes, ticks...?

ASSUME ProcAssumption == NPROC \in Nat \ {0} /\ MaxPid \in Nat \ {0} /\ Devices \in BOOLEAN

Slots == 1 .. NPROC
initproc == 1
NoSlot == 0
IOChan == NPROC + 1   \* stands for every channel but those of wait

VARIABLES
  state, pid, parent, killed, name,  \* the fields of struct proc
  chan,     \* p->chan: a slot (wait's channel), IOChan or NoSlot
  pc,       \* what the process is doing
  np,       \* the entry a fork in progress has allocated
  nextpid,
  kern      \* "up" or "panic"

vars == <<state, pid, parent, killed, name, chan, pc, np, nextpid, kern>>

Live(s) == state[s] \in {"RUNNABLE", "SLEEPING"}
Exists(s) == state[s] # "UNUSED"
First(S) == CHOOSE s \in S : \A t \in S : s <= t

TypeOK ==
  /\ state \in [Slots -> {"UNUSED", "EMBRYO", "SLEEPING", "RUNNABLE", "ZOMBIE"}]
  /\ pid \in [Slots -> 0 .. MaxPid]
  /\ parent \in [Slots -> Slots \cup {NoSlot}]
  /\ killed \in [Slots -> BOOLEAN]
  /\ name \in [Slots -> Names \cup {""}]
  /\ chan \in [Slots -> 0 .. NPROC + 1]
  /\ pc \in [Slots -> {"user", "fork", "name", "wait", "exit", "io", "tosleep"}]
  /\ np \in [Slots -> Slots \cup {NoSlot}]
  /\ nextpid \in 1 .. MaxPid + 1
  /\ kern \in {"up", "panic"}

\* userinit: init is entry 1, with pid 1.
Init ==
  /\ state = [s \in Slots |-> IF s = initproc THEN "RUNNABLE" ELSE "UNUSED"]
  /\ pid = [s \in Slots |-> IF s = initproc THEN 1 ELSE 0]
  /\ parent = [s \in Slots |-> NoSlot]
  /\ killed = [s \in Slots |-> FALSE]
  /\ \E n \in Names : name = [s \in Slots |-> IF s = initproc THEN n ELSE ""]
  /\ chan = [s \in Slots |-> NoSlot]
  /\ pc = [s \in Slots |-> "user"]
  /\ np = [s \in Slots |-> NoSlot]
  /\ nextpid = 2
  /\ kern = "up"

At(p, l) == kern = "up" /\ state[p] = "RUNNABLE" /\ pc[p] = l
Goto(p, l) == pc' = [pc EXCEPT ![p] = l]

\* trap lets a process into a system call only if it has not been killed.
Syscall(p) == At(p, "user") /\ ~killed[p]

-----------------------------------------------------------------------------
(* fork *)

\* allocproc under ptable.lock: the first UNUSED entry becomes an EMBRYO.
fork_alloc(p) ==
  /\ Syscall(p) /\ nextpid <= MaxPid
  /\ LET Free == {s \in Slots : ~Exists(s)} IN
     /\ Free # {}
     /\ LET c == First(Free) IN
        /\ state' = [state EXCEPT ![c] = "EMBRYO"]
        /\ pid' = [pid EXCEPT ![c] = nextpid]
        /\ np' = [np EXCEPT ![p] = c]
  /\ nextpid' = nextpid + 1
  /\ Goto(p, "fork")
  /\ UNCHANGED <<parent, killed, name, chan, kern>>

\* No memory for the stack or the page table: only the state is undone.
fork_fail(p) ==
  /\ At(p, "fork")
  /\ state' = [state EXCEPT ![np[p]] = "UNUSED"]
  /\ np' = [np EXCEPT ![p] = NoSlot]
  /\ Goto(p, "user")
  /\ UNCHANGED <<pid, parent, killed, name, chan, nextpid, kern>>

\* The copy is made; np->state = RUNNABLE lets the child run.
fork_run(p) ==
  /\ At(p, "fork")
  /\ parent' = [parent EXCEPT ![np[p]] = p]
  /\ state' = [state EXCEPT ![np[p]] = "RUNNABLE"]
  /\ pc' = [pc EXCEPT ![p] = "name", ![np[p]] = "user"]
  /\ UNCHANGED <<pid, killed, name, chan, np, nextpid, kern>>

\* fork's last statement, after the child may already have run.
fork_name(p) ==
  /\ At(p, "name")
  /\ name' = [name EXCEPT ![np[p]] = name[p]]
  /\ np' = [np EXCEPT ![p] = NoSlot]
  /\ Goto(p, "user")
  /\ UNCHANGED <<state, pid, parent, killed, chan, nextpid, kern>>

\* exec, when it succeeds.
exec(p, n) ==
  /\ Syscall(p)
  /\ name' = [name EXCEPT ![p] = n]
  /\ UNCHANGED <<state, pid, parent, killed, chan, pc, np, nextpid, kern>>

-----------------------------------------------------------------------------
(* exit and wait *)

Woken(st, ch) == [s \in Slots |-> IF st[s] = "SLEEPING" /\ chan[s] = ch
                                    THEN "RUNNABLE" ELSE st[s]]

\* sys_exit, or trap finding proc->killed: close the files, which may block.
exit_begin(p) ==
  /\ At(p, "user") /\ p # initproc
  /\ Goto(p, "exit")
  /\ UNCHANGED <<state, pid, parent, killed, name, chan, np, nextpid, kern>>

exit_init(p) ==
  /\ At(p, "user") /\ p = initproc
  /\ kern' = "panic"
  /\ UNCHANGED <<state, pid, parent, killed, name, chan, pc, np, nextpid>>

\* Fault: children are not handed to init.
exit_orphans(p) ==
  /\ At(p, "exit")
  /\ state' = [Woken(state, parent[p]) EXCEPT ![p] = "ZOMBIE"]
  /\ UNCHANGED <<pid, parent, killed, name, chan, pc, np, nextpid, kern>>

\* Fault: the parent is not woken.
exit_silent(p) ==
  LET kids == {s \in Slots : parent[s] = p} IN
  /\ At(p, "exit")
  /\ parent' = [s \in Slots |-> IF s \in kids THEN initproc ELSE parent[s]]
  /\ state' = [state EXCEPT ![p] = "ZOMBIE"]
  /\ UNCHANGED <<pid, killed, name, chan, pc, np, nextpid, kern>>

\* The rest of exit under ptable.lock, up to sched.
exit(p) ==
  LET kids == {s \in Slots : parent[s] = p}
      up == Woken(state, parent[p])
      up2 == IF \E s \in kids : state[s] = "ZOMBIE" THEN Woken(up, initproc) ELSE up
  IN
  /\ At(p, "exit")
  /\ parent' = [s \in Slots |-> IF s \in kids THEN initproc ELSE parent[s]]
  /\ state' = [up2 EXCEPT ![p] = "ZOMBIE"]
  /\ UNCHANGED <<pid, killed, name, chan, pc, np, nextpid, kern>>

sys_wait(p) ==
  /\ Syscall(p)
  /\ Goto(p, "wait")
  /\ UNCHANGED <<state, pid, parent, killed, name, chan, np, nextpid, kern>>

Kids(p) == {s \in Slots : parent[s] = p}
Zombies(p) == {s \in Kids(p) : state[s] = "ZOMBIE"}

\* A pass of wait's loop that finds a zombie.
wait_reap(p) ==
  /\ At(p, "wait") /\ Zombies(p) # {}
  /\ LET z == First(Zombies(p)) IN
     /\ state' = [state EXCEPT ![z] = "UNUSED"]
     /\ pid' = [pid EXCEPT ![z] = 0]
     /\ parent' = [parent EXCEPT ![z] = NoSlot]
     /\ name' = [name EXCEPT ![z] = ""]
     /\ killed' = [killed EXCEPT ![z] = FALSE]
  /\ chan' = [chan EXCEPT ![p] = NoSlot]
  /\ Goto(p, "user")
  /\ UNCHANGED <<np, nextpid, kern>>

\* A pass that gives up.
wait_none(p) ==
  /\ At(p, "wait") /\ Zombies(p) = {} /\ (Kids(p) = {} \/ killed[p])
  /\ chan' = [chan EXCEPT ![p] = NoSlot]
  /\ Goto(p, "user")
  /\ UNCHANGED <<state, pid, parent, killed, name, np, nextpid, kern>>

\* Fault: a killed process goes on waiting.
wait_sleep_deaf(p) ==
  /\ At(p, "wait") /\ Zombies(p) = {} /\ Kids(p) # {}
  /\ state' = [state EXCEPT ![p] = "SLEEPING"]
  /\ chan' = [chan EXCEPT ![p] = p]
  /\ UNCHANGED <<pid, parent, killed, name, pc, np, nextpid, kern>>

\* A pass that sleeps on the process's own address.
wait_sleep(p) ==
  /\ At(p, "wait") /\ Zombies(p) = {} /\ Kids(p) # {} /\ ~killed[p]
  /\ state' = [state EXCEPT ![p] = "SLEEPING"]
  /\ chan' = [chan EXCEPT ![p] = p]
  /\ UNCHANGED <<pid, parent, killed, name, pc, np, nextpid, kern>>

-----------------------------------------------------------------------------
(* kill, and the sleeps that test proc->killed under a lock of their own. *)

\* Any system call, or ^C through killfgproc; the first entry with that pid.
kill(k) ==
  /\ kern = "up"
  /\ LET S == {s \in Slots : pid[s] = k} IN
     /\ S # {}
     /\ LET s == First(S) IN
        /\ killed' = [killed EXCEPT ![s] = TRUE]
        /\ state' = IF state[s] = "SLEEPING" THEN [state EXCEPT ![s] = "RUNNABLE"] ELSE state
  /\ UNCHANGED <<pid, parent, name, chan, pc, np, nextpid, kern>>

\* sys_sleep, piperead, pipewrite, consoleread...: a process that finds
\* nothing to do either returns because it is killed or goes on to sleep.
\* init makes no such call once it forks (user/init.c).
io_wait(p) ==
  /\ Devices /\ p # initproc /\ (Syscall(p) \/ At(p, "io"))
  /\ chan' = [chan EXCEPT ![p] = NoSlot]
  /\ Goto(p, IF killed[p] THEN "user" ELSE "tosleep")
  /\ UNCHANGED <<state, pid, parent, killed, name, np, nextpid, kern>>

\* sleep: its caller holds the device's lock since the test, but kill does not
\* need that lock.
io_sleep(p) ==
  /\ At(p, "tosleep")
  /\ state' = [state EXCEPT ![p] = "SLEEPING"]
  /\ chan' = [chan EXCEPT ![p] = IOChan]
  /\ Goto(p, "io")
  /\ UNCHANGED <<pid, parent, killed, name, np, nextpid, kern>>

\* There was something to do.
io_done(p) ==
  /\ At(p, "io")
  /\ chan' = [chan EXCEPT ![p] = NoSlot]
  /\ Goto(p, "user")
  /\ UNCHANGED <<state, pid, parent, killed, name, np, nextpid, kern>>

\* The device's interrupt, or the other end, calls wakeup.
io_wakeup ==
  /\ Devices /\ kern = "up"
  /\ \E s \in Slots : state[s] = "SLEEPING" /\ chan[s] = IOChan
  /\ state' = Woken(state, IOChan)
  /\ UNCHANGED <<pid, parent, killed, name, chan, pc, np, nextpid, kern>>

-----------------------------------------------------------------------------
\* What a runnable process does without being asked.
Go(p) ==
  \/ fork_fail(p) \/ fork_run(p) \/ fork_name(p)
  \/ (killed[p] /\ (exit_begin(p) \/ exit_init(p))) \/ exit(p)
  \/ wait_reap(p) \/ wait_none(p) \/ wait_sleep(p)
  \/ io_wait(p) /\ pc[p] = "io"
  \/ io_sleep(p) \/ io_done(p)

Next ==
  \/ \E p \in Slots :
       \/ fork_alloc(p) \/ fork_fail(p) \/ fork_run(p) \/ fork_name(p)
       \/ \E n \in Names : exec(p, n)
       \/ exit_begin(p) \/ exit_init(p) \/ exit(p)
       \/ sys_wait(p) \/ wait_reap(p) \/ wait_none(p) \/ wait_sleep(p)
       \/ io_wait(p) \/ io_sleep(p) \/ io_done(p)
  \/ io_wakeup
  \/ \E k \in 0 .. MaxPid : kill(k)

Spec == Init /\ [][Next]_vars

\* Every runnable process is eventually run (the scheduler's round robin and
\* the clock); init calls wait over and over (user/init.c).
FairSpec == /\ Spec
            /\ \A p \in Slots : WF_vars(Go(p))
            /\ WF_vars(sys_wait(initproc))

-----------------------------------------------------------------------------
(* Properties. *)

\* Every process but init has a living parent that is older than itself or is
\* init: fork, exit's handover and the reuse of entries by allocproc never
\* leave a child (in particular a zombie) that nobody can wait for.
ParentAlive ==
  \A s \in Slots \ {initproc} : Live(s) \/ state[s] = "ZOMBIE" =>
    /\ parent[s] # NoSlot /\ Live(parent[s])
    /\ parent[s] = initproc \/ pid[parent[s]] < pid[s]

\* A process asleep in wait has no child to reap: exit's wakeups, those for
\* inherited zombies included, are never missed.
NoMissedExit ==
  \A p \in Slots : state[p] = "SLEEPING" /\ chan[p] = p => Zombies(p) = {}

\* kill(pid) stops at the first entry with that pid; this is the process of
\* that pid, whatever pids failed forks and reaped entries leave behind.
KillReaches ==
  \A s \in Slots : Exists(s) => First({t \in Slots : pid[t] = pid[s]}) = s

\* The entry under construction by a fork is that fork's alone: nobody runs,
\* reaps, or reallocates it before fork is done with it, so fork_fail and the
\* late copy of the name never touch a stranger's entry.
ForkOwnsEntry ==
  \A p, q \in Slots : np[p] # NoSlot =>
    /\ Exists(np[p]) /\ (pc[p] = "fork" => state[np[p]] = "EMBRYO")
    /\ pc[p] = "name" => parent[np[p]] = p
    /\ np[q] = np[p] => q = p

\* trap and wait act on proc->killed: "Process won't exit until it returns to
\* user space", but then it does, unless it had tested proc->killed just
\* before the kill and then slept on a device.
KilledExits ==
  \A s \in Slots : killed[s] /\ Live(s) ~>
    ~Live(s) \/ (state[s] = "SLEEPING" /\ chan[s] = IOChan) \/ kern = "panic"

\* init collects every zombie it inherits.
OrphansReaped ==
  \A s \in Slots : state[s] = "ZOMBIE" /\ parent[s] = initproc
                     ~> state[s] = "UNUSED" \/ kern = "panic"

\* The process table: fork's entries are its own, everybody has a parent that
\* will wait, and kill finds the process it names.
TableConsistent == TypeOK /\ ForkOwnsEntry /\ ParentAlive /\ KillReaches
=============================================================================
