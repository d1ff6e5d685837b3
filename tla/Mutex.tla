------------------------------- MODULE Mutex -------------------------------
(***************************************************************************)
(* The recursive mutex of the network stack (microps_mutex.c): a spinlock  *)
(* and, for each CPU, an entry that counts how often the CPU has locked    *)
(* it.  The input path locks the mutex again when it runs inside the       *)
(* output path (arp_resolve, the loopback device).  Three things separate  *)
(* a section from its entry.  mutex_lock finds out the CPU before it       *)
(* acquires the spinlock, and may be moved in between.  A section that     *)
(* sleeps (sched_sleep) takes the spinlock again without the entry.  And   *)
(* holding reads lock->cpu before it reads the CPU it runs on, with        *)
(* interrupts on unless the CPU does hold the lock: a caller moved between *)
(* the reads to the CPU it has read is told that it holds the mutex.       *)
(*                                                                         *)
(* The table has 64 entries, for four mutexes on at most eight CPUs: that  *)
(* it is full is not modelled.                                             *)
(***************************************************************************)
EXTENDS Naturals

CONSTANTS CPUs, Procs

None == CHOOSE x : x \notin CPUs

VARIABLES
  holder,   \* the CPU that holds the spinlock, or None
  depth,    \* the depth of each CPU's entry, 0 without one
  on,       \* the CPU a process runs on, or None
  pc,       \* in a call, before: "read" the test of holding reads lock->cpu,
            \* "test" it compares, "held" the work if it holds the mutex,
            \* "lock" acquire; "asleep": in sched_sleep
  op,       \* the call, "lock" or "unlock"
  cpuid,    \* the CPU that the call found out
  seen,     \* the lock->cpu that holding read, None if the lock was free
  level,    \* the calls of mutex_lock that a process has yet to match
  entry,    \* history: whether the entry of the CPU counts the section ("own")
            \* or need not ("stray"), and then has ended a nested one ("ended")
  misled,   \* history: has holding told a caller so that did not hold the mutex?
  panicked

caller == <<pc, op, cpuid, seen>>
vars == <<holder, depth, on, caller, level, entry, misled, panicked>>

Init ==
  /\ holder = None /\ depth = [c \in CPUs |-> 0]
  /\ on = [p \in Procs |-> None] /\ pc = [p \in Procs |-> "run"]
  /\ op = [p \in Procs |-> "lock"]
  /\ cpuid = [p \in Procs |-> None] /\ seen = [p \in Procs |-> None]
  /\ level = [p \in Procs |-> 0] /\ entry = [p \in Procs |-> "own"]
  /\ misled = FALSE /\ panicked = FALSE

Idle(c) == \A p \in Procs : on[p] # c
Goto(p, l) == pc' = [pc EXCEPT ![p] = l]

\* Interrupts are on unless the CPU holds the mutex.
scheduler(p, c) ==
  /\ on[p] = None /\ pc[p] # "asleep" /\ Idle(c)
  /\ on' = [on EXCEPT ![p] = c]
  /\ UNCHANGED <<holder, depth, caller, level, entry, misled, panicked>>

yield(p, c) ==
  /\ on[p] = c /\ holder # c
  /\ on' = [on EXCEPT ![p] = None]
  /\ UNCHANGED <<holder, depth, caller, level, entry, misled, panicked>>

\* Both calls find out the CPU first.
mtx_current_cpu(p, c, o) ==
  /\ on[p] = c /\ pc[p] = "run" /\ (o = "unlock" => level[p] > 0)
  /\ cpuid' = [cpuid EXCEPT ![p] = c] /\ op' = [op EXCEPT ![p] = o]
  /\ Goto(p, "read")
  /\ UNCHANGED <<holder, depth, on, seen, level, entry, misled, panicked>>

holding_read(p, c) ==
  /\ on[p] = c /\ pc[p] = "read"
  /\ seen' = [seen EXCEPT ![p] = holder]
  /\ Goto(p, "test")
  /\ UNCHANGED <<holder, depth, on, op, cpuid, level, entry, misled, panicked>>

holding(p, c) ==
  /\ on[p] = c /\ pc[p] = "test" /\ seen[p] = c
  /\ misled' = (misled \/ holder # c)
  /\ Goto(p, "held")
  /\ UNCHANGED <<holder, depth, on, op, cpuid, seen, level, entry, panicked>>

\* Where a call of mutex_unlock ends.
Ends(p) ==
  /\ level' = [level EXCEPT ![p] = @ - 1]
  /\ entry' = [entry EXCEPT ![p] = IF @ = "own" THEN @ ELSE "ended"]

\* mutex_lock goes on to acquire; mutex_unlock returns -1, which no caller
\* looks at.
holding_not(p, c) ==
  /\ on[p] = c /\ pc[p] = "test" /\ seen[p] # c
  /\ \/ op[p] = "lock" /\ Goto(p, "lock") /\ UNCHANGED <<level, entry>>
     \/ op[p] = "unlock" /\ Goto(p, "run") /\ Ends(p)
  /\ UNCHANGED <<holder, depth, on, op, cpuid, seen, misled, panicked>>

\* A nested lock; an entry that is missing counts from zero.
mutex_lock_nested(p, c) ==
  /\ on[p] = c /\ pc[p] = "held" /\ op[p] = "lock"
  /\ depth' = [depth EXCEPT ![cpuid[p]] = @ + 1]
  /\ level' = [level EXCEPT ![p] = @ + 1]
  /\ Goto(p, "run")
  /\ UNCHANGED <<holder, on, op, cpuid, seen, entry, misled, panicked>>

mutex_lock(p, c) ==
  /\ on[p] = c /\ pc[p] = "lock" /\ holder = None
  /\ holder' = c
  /\ depth' = [depth EXCEPT ![cpuid[p]] = 1]
  /\ Goto(p, "run")
  /\ level' = [level EXCEPT ![p] = @ + 1]
  /\ entry' = [entry EXCEPT ![p] = IF level[p] > 0 THEN @
                                   ELSE IF cpuid[p] = c THEN "own" ELSE "stray"]
  /\ UNCHANGED <<on, op, cpuid, seen, misled, panicked>>

\* release panics without the mutex; if its own test of holding goes wrong it
\* frees the lock, and panics in popcli, interrupts being on.
mutex_unlock(p, c) ==
  /\ on[p] = c /\ pc[p] = "held" /\ op[p] = "unlock"
  /\ \/ /\ depth[cpuid[p]] > 1
        /\ depth' = [depth EXCEPT ![cpuid[p]] = @ - 1]
        /\ UNCHANGED <<holder, panicked>>
     \/ /\ depth[cpuid[p]] <= 1
        /\ depth' = [depth EXCEPT ![cpuid[p]] = 0]
        /\ \/ holder = c /\ holder' = None /\ UNCHANGED panicked
           \/ holder # c /\ holder' \in {holder, None} /\ panicked' = TRUE
  /\ Goto(p, "run") /\ Ends(p)
  /\ UNCHANGED <<on, op, cpuid, seen, misled>>

\* User calls sleep in their outermost section.  sleep releases the spinlock,
\* with interrupts off, and release panics when the CPU does not hold it.
sched_sleep(p, c) ==
  /\ on[p] = c /\ pc[p] = "run" /\ level[p] = 1
  /\ \/ /\ holder = c
        /\ holder' = None
        /\ on' = [on EXCEPT ![p] = None] /\ Goto(p, "asleep")
        /\ entry' = [entry EXCEPT ![p] = IF @ = "own" THEN "stray" ELSE @]
        /\ UNCHANGED panicked
     \/ /\ holder # c
        /\ panicked' = TRUE
        /\ UNCHANGED <<holder, on, pc, entry>>
  /\ UNCHANGED <<depth, op, cpuid, seen, level, misled>>

\* sleep takes the spinlock again, on whatever CPU picked the process up.
sched_sleep_return(p, c) ==
  /\ pc[p] = "asleep" /\ Idle(c) /\ holder = None
  /\ holder' = c
  /\ on' = [on EXCEPT ![p] = c] /\ Goto(p, "run")
  /\ UNCHANGED <<depth, op, cpuid, seen, level, entry, misled, panicked>>

Next ==
  /\ ~panicked
  /\ \E p \in Procs, c \in CPUs :
       \/ scheduler(p, c) \/ yield(p, c)
       \/ \E o \in {"lock", "unlock"} : mtx_current_cpu(p, c, o)
       \/ holding_read(p, c) \/ holding(p, c) \/ holding_not(p, c)
       \/ mutex_lock_nested(p, c) \/ mutex_lock(p, c) \/ mutex_unlock(p, c)
       \/ sched_sleep(p, c) \/ sched_sleep_return(p, c)

Spec == Init /\ [][Next]_vars

-----------------------------------------------------------------------------
TypeOK ==
  /\ holder \in CPUs \cup {None} /\ depth \in [CPUs -> Nat]
  /\ on \in [Procs -> CPUs \cup {None}]
  /\ pc \in [Procs -> {"run", "read", "test", "held", "lock", "asleep"}]
  /\ op \in [Procs -> {"lock", "unlock"}] /\ cpuid \in [Procs -> CPUs \cup {None}]
  /\ seen \in [Procs -> CPUs \cup {None}] /\ level \in [Procs -> Nat]
  /\ entry \in [Procs -> {"own", "stray", "ended"}]
  /\ misled \in BOOLEAN /\ panicked \in BOOLEAN

Inside(p) == level[p] > 0 /\ pc[p] # "asleep"

\* "must be called after mutex locked" (tcp.c, udp.c, arp.c): a process inside
\* a section holds the mutex, across nested sections.  There are two
\* exceptions.  A section that slept, or was moved in mutex_lock, may lose the
\* mutex where a nested section ends; and all bets are off once a caller was
\* moved inside holding and was misled by it.
HeldInside ==
  ~misled => \A p \in Procs : Inside(p) /\ entry[p] # "ended" => on[p] # None /\ holder = on[p]

\* No section ends with the mutex held: the depths that sleepers and moved
\* callers leave in the entries never keep a last mutex_unlock from releasing,
\* unless holding misled a caller.
HolderInside ==
  ~misled => \A c \in CPUs : holder = c => \E p \in Procs : on[p] = c /\ Inside(p)

\* release panics, in sleep or in mutex_unlock, only when holding misled a
\* caller or a section that is about to sleep lost the mutex as above.
PanicAfterLoss ==
  panicked => misled \/ \E p \in Procs : level[p] = 1 /\ entry[p] = "ended"
=============================================================================
