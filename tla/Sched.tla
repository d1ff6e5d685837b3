------------------------------- MODULE Sched -------------------------------
(***************************************************************************)
(* Spinlocks, the per-CPU scheduler and sleep/wakeup (kernel/spinlock.c,   *)
(* scheduler, sched, yield, sleep, wakeup and forkret in kernel/proc.c,    *)
(* the clock interrupt of kernel/trap.c), at the grain of lock operations, *)
(* and the parking of the other CPUs by sys_reboot.                        *)
(*                                                                         *)
(* ptable.lock is handed across swtch: the process takes it and the        *)
(* scheduler of that CPU, or the next process there, releases it.  The     *)
(* processes run the monitor that every sleeping path of the kernel is an  *)
(* instance of: under a lock lk, wait until cond holds, consume it; or set *)
(* it and wakeup.                                                          *)
(***************************************************************************)
EXTENDS Integers, FiniteSets

CONSTANTS
  CPUs,     \* the indices of cpus[]
  BSP,      \* mpbcpu(), the index of the boot processor
  ApicIds,  \* what cpu->id may hold: an index, or another id of the firmware
  Numberings, \* the assignments of ids to CPUs that firmware may report
  Procs, None

ASSUME SchedAssumption ==
  /\ None \notin CPUs \cup Procs
  /\ IsFiniteSet(CPUs) /\ BSP \in CPUs /\ CPUs \subseteq ApicIds
  /\ \A f \in Numberings : /\ f \in [CPUs -> ApicIds]
                           /\ \A c, d \in CPUs : f[c] = f[d] => c = d

Locks == {"pt", "lk"}   \* ptable.lock, and the caller's lock

VARIABLES
  holder,  \* lk->locked and lk->cpu: the CPU that holds each lock, or None
  ncli,    \* cpu->ncli, depth of pushcli nesting
  intena,  \* cpu->intena, were interrupts on before pushcli?
  iflag,   \* FL_IF of each CPU
  cur,     \* proc of each CPU (None while its scheduler runs)
  sch,     \* where the CPU's scheduler is: top, idle (past sti), in its loop
  state,   \* p->state
  onchan,  \* p->chan is the monitor's channel
  saved,   \* the local variable intena of sched, on each kernel stack
  pc,      \* where each process is
  back,    \* where an interrupted process goes on after yield
  cond,    \* what the monitor's sleepers wait for
  apicid,  \* cpu->id: an index from the MP table, an APIC id from the MADT
  request, \* reboot_request
  ack,     \* the i with reboot_ack[i] set
  parked   \* the CPUs in the hlt loop of reboot_halt_if_requested

cpuVars == <<ncli, intena, iflag>>
rebootVars == <<request, ack, parked>>
vars == <<holder, ncli, intena, iflag, cur, sch, state, onchan, saved, pc,
          back, cond, apicid, request, ack, parked>>

Points == {"forkret", "user", "test", "sleep", "sleep_rel", "sleep_set", "sleep_resume",
           "again", "put", "wake", "unlock", "yield", "yield_set", "yield_resume",
           "reboot", "quiet", "timedout"}

TypeOK ==
  /\ holder \in [Locks -> CPUs \cup {None}]
  /\ ncli \in [CPUs -> 0 .. 2]
  /\ intena \in [CPUs -> BOOLEAN] /\ iflag \in [CPUs -> BOOLEAN]
  /\ cur \in [CPUs -> Procs \cup {None}]
  /\ sch \in [CPUs -> {"top", "idle", "loop"}]
  /\ state \in [Procs -> {"RUNNABLE", "RUNNING", "SLEEPING"}]
  /\ onchan \in [Procs -> BOOLEAN] /\ saved \in [Procs -> BOOLEAN]
  /\ pc \in [Procs -> Points] /\ back \in [Procs -> {"user", "again"}]
  /\ cond \in BOOLEAN
  /\ apicid \in Numberings
  /\ request \in BOOLEAN /\ ack \subseteq ApicIds /\ parked \subseteq CPUs

\* After mpmain, before the first sti of each scheduler.
Init ==
  /\ holder = [l \in Locks |-> None]
  /\ ncli = [c \in CPUs |-> 0]
  /\ intena = [c \in CPUs |-> FALSE]
  /\ iflag = [c \in CPUs |-> FALSE]
  /\ cur = [c \in CPUs |-> None]
  /\ sch = [c \in CPUs |-> "top"]
  /\ state = [p \in Procs |-> "RUNNABLE"]
  /\ onchan = [p \in Procs |-> FALSE]
  /\ saved = [p \in Procs |-> FALSE]
  /\ pc = [p \in Procs |-> "forkret"]
  /\ back = [p \in Procs |-> "user"]
  /\ cond = FALSE
  /\ apicid \in Numberings
  /\ request = FALSE /\ ack = {} /\ parked = {}

-----------------------------------------------------------------------------
(* spinlock.c.  The spin itself is waiting for the guard. *)

\* pushcli, then xchg on a free lock.
acquire(c, l) ==
  /\ holder[l] = None
  /\ holder' = [holder EXCEPT ![l] = c]
  /\ ncli' = [ncli EXCEPT ![c] = @ + 1]
  /\ intena' = IF ncli[c] = 0 THEN [intena EXCEPT ![c] = iflag[c]] ELSE intena
  /\ iflag' = [iflag EXCEPT ![c] = FALSE]

\* release by the holding CPU, then popcli.
release(c, l) ==
  /\ holder' = [holder EXCEPT ![l] = None]
  /\ ncli' = [ncli EXCEPT ![c] = @ - 1]
  /\ iflag' = [iflag EXCEPT ![c] = ncli[c] = 1 /\ intena[c]]
  /\ UNCHANGED intena

Holding(c, l) == holder[l] = c

-----------------------------------------------------------------------------
(* Moving between the scheduler and a process. *)

\* The condition of reboot_halt_if_requested.
MustHalt(c) == request /\ apicid[c] # BSP

\* scheduler: past reboot_halt_if_requested, interrupts on.
scheduler_sti(c) ==
  /\ cur[c] = None /\ sch[c] = "top" /\ ~MustHalt(c)
  /\ iflag' = [iflag EXCEPT ![c] = TRUE]
  /\ sch' = [sch EXCEPT ![c] = "idle"]
  /\ UNCHANGED <<holder, ncli, intena, cur, state, onchan, saved, pc, back, cond>>

\* Take ptable.lock for a pass over the table.
scheduler_acquire(c) ==
  /\ cur[c] = None /\ sch[c] = "idle"
  /\ acquire(c, "pt")
  /\ sch' = [sch EXCEPT ![c] = "loop"]
  /\ UNCHANGED <<cur, state, onchan, saved, pc, back, cond>>

\* Fault: sched does not restore intena after swtch.
scheduler_run_norestore(c, p) ==
  /\ cur[c] = None /\ sch[c] = "loop" /\ state[p] = "RUNNABLE"
  /\ cur' = [cur EXCEPT ![c] = p]
  /\ state' = [state EXCEPT ![p] = "RUNNING"]
  /\ UNCHANGED <<holder, cpuVars, sch, onchan, saved, pc, back, cond>>

\* swtch to a RUNNABLE process, ptable.lock still held.
scheduler_run(c, p) ==
  /\ cur[c] = None /\ sch[c] = "loop" /\ state[p] = "RUNNABLE"
  /\ cur' = [cur EXCEPT ![c] = p]
  /\ state' = [state EXCEPT ![p] = "RUNNING"]
  /\ intena' = IF pc[p] = "forkret" THEN intena
                                    ELSE [intena EXCEPT ![c] = saved[p]]
  /\ UNCHANGED <<holder, ncli, iflag, sch, onchan, saved, pc, back, cond>>

\* The pass is over.
scheduler_release(c) ==
  /\ cur[c] = None /\ sch[c] = "loop"
  /\ release(c, "pt")
  /\ sch' = [sch EXCEPT ![c] = "top"]
  /\ UNCHANGED <<cur, state, onchan, saved, pc, back, cond>>

\* What sched panics on.
SchedChecks(c, st) == Holding(c, "pt") /\ ncli[c] = 1 /\ st # "RUNNING" /\ ~iflag[c]

\* sched: remember intena and swtch to this CPU's scheduler.
sched(c, p, st) ==
  /\ SchedChecks(c, st)
  /\ state' = [state EXCEPT ![p] = st]
  /\ saved' = [saved EXCEPT ![p] = intena[c]]
  /\ cur' = [cur EXCEPT ![c] = None]
  /\ UNCHANGED <<holder, cpuVars, sch>>

Goto(p, l) == pc' = [pc EXCEPT ![p] = l]

\* The process that CPU c executes stands at l.
At(c, p, l) == cur[c] = p /\ pc[p] = l

\* A new process: forkret releases the scheduler's lock, trapret enables
\* interrupts.
forkret(c, p) ==
  /\ At(c, p, "forkret")
  /\ holder' = [holder EXCEPT !["pt"] = None]
  /\ ncli' = [ncli EXCEPT ![c] = @ - 1]
  /\ iflag' = [iflag EXCEPT ![c] = TRUE]
  /\ Goto(p, "user")
  /\ UNCHANGED <<intena, cur, sch, state, onchan, saved, back, cond>>

-----------------------------------------------------------------------------
(* The clock interrupt, taken wherever interrupts are on. *)

\* The gate clears FL_IF; unless the CPU has to halt, trap calls yield.
timer(c, p) ==
  /\ cur[c] = p /\ iflag[c] /\ pc[p] \in {"user", "again"}
  /\ c = BSP \/ ~MustHalt(c)
  /\ iflag' = [iflag EXCEPT ![c] = FALSE]
  /\ back' = [back EXCEPT ![p] = pc[p]]
  /\ Goto(p, "yield")
  /\ UNCHANGED <<holder, ncli, intena, cur, sch, state, onchan, saved, cond>>

yield(c, p) ==
  /\ At(c, p, "yield")
  /\ acquire(c, "pt")
  /\ Goto(p, "yield_set")
  /\ UNCHANGED <<cur, sch, state, onchan, saved, back, cond>>

yield_sched(c, p) ==
  /\ At(c, p, "yield_set")
  /\ sched(c, p, "RUNNABLE")
  /\ Goto(p, "yield_resume")
  /\ UNCHANGED <<onchan, back, cond>>

\* Back in yield, perhaps on another CPU: release, then iret restores FL_IF.
yield_resume(c, p) ==
  /\ At(c, p, "yield_resume")
  /\ holder' = [holder EXCEPT !["pt"] = None]
  /\ ncli' = [ncli EXCEPT ![c] = @ - 1]
  /\ iflag' = [iflag EXCEPT ![c] = TRUE]
  /\ Goto(p, back[p])
  /\ UNCHANGED <<intena, cur, sch, state, onchan, saved, back, cond>>

-----------------------------------------------------------------------------
(* The monitor. *)

\* Enter, or come back from sleep, with lk.
enter(c, p) ==
  /\ At(c, p, "user") \/ At(c, p, "again")
  /\ acquire(c, "lk")
  /\ Goto(p, "test")
  /\ UNCHANGED <<cur, sch, state, onchan, saved, back, cond>>

consume(c, p) ==
  /\ At(c, p, "test") /\ cond
  /\ cond' = FALSE
  /\ Goto(p, "unlock")
  /\ UNCHANGED <<holder, cpuVars, cur, sch, state, onchan, saved, back>>

\* The condition does not hold: call sleep.
sleep(c, p) ==
  /\ At(c, p, "test") /\ ~cond
  /\ Goto(p, "sleep")
  /\ UNCHANGED <<holder, cpuVars, cur, sch, state, onchan, saved, back, cond>>

\* sleep: ptable.lock first, then give up lk.
sleep_acquire(c, p) ==
  /\ At(c, p, "sleep")
  /\ acquire(c, "pt")
  /\ Goto(p, "sleep_rel")
  /\ UNCHANGED <<cur, sch, state, onchan, saved, back, cond>>

sleep_release(c, p) ==
  /\ At(c, p, "sleep_rel")
  /\ release(c, "lk")
  /\ Goto(p, "sleep_set")
  /\ UNCHANGED <<cur, sch, state, onchan, saved, back, cond>>

sleep_sched(c, p) ==
  /\ At(c, p, "sleep_set")
  /\ onchan' = [onchan EXCEPT ![p] = TRUE]
  /\ sched(c, p, "SLEEPING")
  /\ Goto(p, "sleep_resume")
  /\ UNCHANGED <<back, cond>>

sleep_resume(c, p) ==
  /\ At(c, p, "sleep_resume")
  /\ onchan' = [onchan EXCEPT ![p] = FALSE]
  /\ release(c, "pt")
  /\ Goto(p, "again")
  /\ UNCHANGED <<cur, sch, state, saved, back, cond>>

\* Producer: cond becomes true under lk, then wakeup takes ptable.lock.
put(c, p) ==
  /\ At(c, p, "user")
  /\ acquire(c, "lk")
  /\ cond' = TRUE
  /\ Goto(p, "put")
  /\ UNCHANGED <<cur, sch, state, onchan, saved, back>>

wakeup_acquire(c, p) ==
  /\ At(c, p, "put")
  /\ acquire(c, "pt")
  /\ Goto(p, "wake")
  /\ UNCHANGED <<cur, sch, state, onchan, saved, back, cond>>

\* Fault: wakeup1 stops at the first sleeper.
wakeup1_first(c, p) ==
  /\ At(c, p, "wake")
  /\ LET S == {q \in Procs : state[q] = "SLEEPING" /\ onchan[q]} IN
       \/ S = {} /\ UNCHANGED state
       \/ \E q \in S : state' = [state EXCEPT ![q] = "RUNNABLE"]
  /\ release(c, "pt")
  /\ Goto(p, "unlock")
  /\ UNCHANGED <<cur, sch, onchan, saved, back, cond>>

\* wakeup1 and release.
wakeup1(c, p) ==
  /\ At(c, p, "wake")
  /\ state' = [q \in Procs |-> IF state[q] = "SLEEPING" /\ onchan[q]
                                 THEN "RUNNABLE" ELSE state[q]]
  /\ release(c, "pt")
  /\ Goto(p, "unlock")
  /\ UNCHANGED <<cur, sch, onchan, saved, back, cond>>

leave(c, p) ==
  /\ At(c, p, "unlock")
  /\ release(c, "lk")
  /\ Goto(p, "user")
  /\ UNCHANGED <<cur, sch, state, onchan, saved, back, cond>>

-----------------------------------------------------------------------------
(* sys_reboot: the caller asks the other CPUs to stop and waits a while. *)

mainVars == <<holder, ncli, intena, cur, sch, state, onchan, saved, back, cond>>

\* reboot_halt_if_requested: acknowledge under the CPU's id, cli, hlt for ever.
\* An interrupt before the cli changes nothing here: the CPU has no lock and no
\* process, and a clock interrupt halts it in the same way.
reboot_halt(c) ==
  /\ MustHalt(c)
  /\ ack' = ack \cup {apicid[c]}
  /\ iflag' = [iflag EXCEPT ![c] = FALSE]
  /\ parked' = parked \cup {c}
  /\ UNCHANGED <<mainVars, pc, request>>

\* At the top of the scheduler's loop.
scheduler_halt(c) == cur[c] = None /\ sch[c] = "top" /\ reboot_halt(c)

\* In the clock interrupt of a CPU that is not cpus[mpbcpu()].
timer_halt(c) == iflag[c] /\ c # BSP /\ reboot_halt(c)

\* cli, clear the acknowledgements, set one's own, raise the request.
reboot_prepare_cpus(c, p) ==
  /\ At(c, p, "user")
  /\ iflag' = [iflag EXCEPT ![c] = FALSE]
  /\ ack' = {apicid[c]}
  /\ request' = TRUE
  /\ Goto(p, "reboot")
  /\ UNCHANGED <<mainVars, parked>>

\* Fault: the boot processor, which does not halt, is not waited for.
all_acked_aps(c, p) ==
  /\ At(c, p, "reboot")
  /\ CPUs \ {apicid[c], BSP} \subseteq ack
  /\ Goto(p, "quiet")
  /\ UNCHANGED <<mainVars, iflag, rebootVars>>

\* The wait ends when every index but the caller's id is acknowledged,
all_acked(c, p) ==
  /\ At(c, p, "reboot")
  /\ CPUs \ {apicid[c]} \subseteq ack
  /\ Goto(p, "quiet")
  /\ UNCHANGED <<mainVars, iflag, rebootVars>>

\* or after 2000000 rounds.
timed_out(c, p) ==
  /\ At(c, p, "reboot")
  /\ ~ (CPUs \ {apicid[c]} \subseteq ack)
  /\ Goto(p, "timedout")
  /\ UNCHANGED <<mainVars, iflag, rebootVars>>

\* cf9_reset: the machine starts again.
reset(c, p) ==
  /\ At(c, p, "quiet") \/ At(c, p, "timedout")
  /\ holder' = [l \in Locks |-> None]
  /\ ncli' = [d \in CPUs |-> 0]
  /\ intena' = [d \in CPUs |-> FALSE] /\ iflag' = [d \in CPUs |-> FALSE]
  /\ cur' = [d \in CPUs |-> None] /\ sch' = [d \in CPUs |-> "top"]
  /\ state' = [q \in Procs |-> "RUNNABLE"] /\ pc' = [q \in Procs |-> "forkret"]
  /\ onchan' = [q \in Procs |-> FALSE] /\ saved' = [q \in Procs |-> FALSE]
  /\ back' = [q \in Procs |-> "user"] /\ cond' = FALSE
  /\ request' = FALSE /\ ack' = {} /\ parked' = {}

-----------------------------------------------------------------------------
Step(c, p) ==
  \/ forkret(c, p)
  \/ timer(c, p) \/ yield(c, p) \/ yield_sched(c, p) \/ yield_resume(c, p)
  \/ enter(c, p) \/ consume(c, p)
  \/ sleep(c, p) \/ sleep_acquire(c, p) \/ sleep_release(c, p)
  \/ sleep_sched(c, p) \/ sleep_resume(c, p)
  \/ put(c, p) \/ wakeup_acquire(c, p) \/ wakeup1(c, p) \/ leave(c, p)

scheduler(c) == \/ scheduler_sti(c) \/ scheduler_acquire(c)
                \/ scheduler_release(c)
                \/ \E p \in Procs : scheduler_run(c, p)

RebootStep(c) ==
  \/ scheduler_halt(c) \/ timer_halt(c)
  \/ \E p \in Procs : \/ reboot_prepare_cpus(c, p)
                      \/ all_acked(c, p) \/ timed_out(c, p)
                      \/ reset(c, p)

Next == /\ UNCHANGED apicid
        /\ \E c \in CPUs \ parked :
             \/ scheduler(c) /\ UNCHANGED rebootVars
             \/ \E p \in Procs : Step(c, p) /\ UNCHANGED rebootVars
             \/ RebootStep(c)

Spec == Init /\ [][Next]_vars

-----------------------------------------------------------------------------
(* Properties. *)

\* The lock each point is about to release, or to acquire.
Releasing == [forkret |-> "pt", sleep_rel |-> "lk", sleep_resume |-> "pt",
              yield_resume |-> "pt", wake |-> "pt", unlock |-> "lk"]
Acquiring == [user |-> "lk", again |-> "lk", sleep |-> "pt", put |-> "pt",
              yield |-> "pt"]

\* None of the panics of release, acquire, popcli and sched can happen: a CPU
\* releases only locks it holds (taken by another process or by the scheduler
\* before a swtch), never spins on its own lock, and enters sched with
\* ptable.lock and nothing else.
NoPanic ==
  \A c \in CPUs, p \in Procs : cur[c] = p =>
    /\ pc[p] \in DOMAIN Releasing => Holding(c, Releasing[pc[p]]) /\ ~iflag[c]
    /\ pc[p] \in DOMAIN Acquiring => ~Holding(c, Acquiring[pc[p]])
    /\ pc[p] \in {"yield_set", "sleep_set"} =>
         Holding(c, "pt") /\ ncli[c] = 1 /\ ~iflag[c]

\* A process executes on at most one CPU, and its state says so; in particular
\* nobody picks up a process that is still on its kernel stack in sched.
OneCPUPerProcess ==
  /\ \A c, d \in CPUs : cur[c] = cur[d] /\ c # d => cur[c] = None
  /\ \A p \in Procs : state[p] = "RUNNING" <=> \E c \in CPUs : cur[c] = p

\* sleep: "Once we hold ptable.lock, we can be guaranteed that we won't miss
\* any wakeup".  A process sleeps on a true condition only while the one that
\* made it true is on its way through wakeup.
NoLostWakeup ==
  \A p \in Procs : state[p] = "SLEEPING" /\ cond =>
    \E q \in Procs : pc[q] \in {"put", "wake"}

\* pushcli and popcli across swtch: a CPU runs code outside every critical
\* section with interrupts on, whichever CPU the code slept on, and has them
\* off while it holds a lock.
InterruptsRestored ==
  /\ \A c \in CPUs \ parked, p \in Procs :
       cur[c] = p /\ pc[p] \in {"user", "again"} => iflag[c]
  /\ \A c \in CPUs, l \in Locks : holder[l] = c => ~iflag[c] /\ ncli[c] > 0

\* The reboot caller needs no lock of a CPU it has stopped: a CPU halts only
\* where it holds none, in the middle of its code or of a process's.
ParkedHoldsNothing == \A c \in parked, l \in Locks : holder[l] # c

\* "Give APs a short window to notice the reboot request ... and park
\* themselves": a caller that did not time out resets a machine on which every
\* other CPU is parked, or is a reboot caller too, whatever ids the firmware
\* gave the CPUs.
QuietReset ==
  \A c \in CPUs, p \in Procs : At(c, p, "quiet") =>
    \A d \in CPUs \ {c} :
      d \in parked \/ \E q \in Procs : cur[d] = q /\ pc[q] \in {"reboot", "quiet", "timedout"}

\* Locks, the current process and the interrupt flag stay in step on every CPU
\* through acquire, release, swtch and the clock interrupt.
CriticalSections == TypeOK /\ NoPanic /\ OneCPUPerProcess /\ InterruptsRestored

\* reboot stops the other CPUs where they hold nothing, and waits for them.
CleanReset == ParkedHoldsNothing /\ QuietReset
=============================================================================
