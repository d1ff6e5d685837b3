----------------------------- MODULE SchedProof -----------------------------
(***************************************************************************)
(* TLAPS proofs about Sched, for any number of CPUs and processes.         *)
(***************************************************************************)
EXTENDS Sched, FiniteSetTheorems, TLAPS

\* What CPU c executes: a point of its process, or of its scheduler.
Where(c) == IF cur[c] = None THEN sch[c] ELSE pc[cur[c]]

PtPoints == {"loop", "forkret", "sleep_rel", "sleep_set", "sleep_resume", "wake",
             "yield_set", "yield_resume"}
LkPoints == {"test", "sleep", "sleep_rel", "put", "wake", "unlock"}

\* Where a process stands while no CPU executes it.
OffPoints == {"forkret", "sleep_resume", "yield_resume"}

\* The holder of each lock is the CPU that stands inside its critical section,
\* whoever took the lock; ncli counts the locks.
LocksInv ==
  /\ \A c \in CPUs : holder["pt"] = c <=> Where(c) \in PtPoints
  /\ \A c \in CPUs : holder["lk"] = c <=> Where(c) \in LkPoints
  /\ \A c \in CPUs : ncli[c] = (IF holder["pt"] = c THEN 1 ELSE 0)
                               + (IF holder["lk"] = c THEN 1 ELSE 0)

\* Who runs: a process that no CPU executes is inside sched or forkret.
RunInv ==
  /\ \A c \in CPUs : cur[c] # None => sch[c] = "loop" /\ state[cur[c]] = "RUNNING"
  /\ \A c, d \in CPUs : cur[c] = cur[d] /\ cur[c] # None => c = d
  /\ \A p \in Procs : state[p] = "RUNNING" => \E c \in CPUs : cur[c] = p
  /\ \A p \in Procs : state[p] # "RUNNING" => pc[p] \in OffPoints
  /\ \A p \in Procs : state[p] = "SLEEPING" => pc[p] = "sleep_resume" /\ onchan[p]

\* Interrupts are off in critical sections and on at home; the value popcli
\* will restore is TRUE from the first acquire to the last release, across a
\* sleep (where it is kept on the kernel stack).
IntrInv ==
  /\ \A c \in CPUs : iflag[c] => holder["pt"] # c /\ holder["lk"] # c
  /\ \A c \in CPUs \ parked : Where(c) \in {"user", "again"} => iflag[c]
  /\ \A c \in CPUs : Where(c) \in LkPoints \cup {"sleep_set", "sleep_resume"} => intena[c]
  /\ \A p \in Procs : pc[p] = "sleep_resume" => saved[p]
  /\ \A c \in parked : holder["pt"] # c /\ holder["lk"] # c

\* The condition is false from the test to the release of lk in sleep; from
\* there until sched a producer can be no further than before ptable.lock.
WakeInv ==
  /\ \A p \in Procs : pc[p] \in {"sleep", "sleep_rel"} => ~cond
  /\ \A p \in Procs : pc[p] = "sleep_set" /\ cond => \E q \in Procs : pc[q] = "put"
  /\ NoLostWakeup

IInv == TypeOK /\ LocksInv /\ RunInv /\ IntrInv /\ WakeInv

-----------------------------------------------------------------------------
(* The shape of a step: where the CPUs stand after it. *)

\* A process executing on c moves to l; nothing else about who runs changes.
LEMMA Moved ==
  ASSUME TypeOK, RunInv, NEW c \in CPUs, NEW p \in Procs, NEW l \in Points,
         cur[c] = p, pc' = [pc EXCEPT ![p] = l], UNCHANGED <<cur, sch, state>>,
         \A q \in Procs \ {p} : onchan'[q] = onchan[q]
  PROVE  /\ Where(c) = pc[p] /\ Where(c)' = l
         /\ \A d \in CPUs \ {c} : Where(d)' = Where(d)
         /\ RunInv'
  <1>1. state[p] = "RUNNING" /\ p # None
    BY SchedAssumption, ZenonT(60) DEF RunInv
  <1>2. \A d \in CPUs \ {c} : cur[d] # p
    BY <1>1, Zenon DEF RunInv
  <1>3. pc' = [pc EXCEPT ![p] = l] /\ pc \in [Procs -> Points]
    BY Zenon DEF TypeOK
  <1>4. \A d \in CPUs \ {c} : Where(d)' = Where(d)
    BY <1>2, <1>3 DEF Where, TypeOK
  <1>5. Where(c) = pc[p] /\ Where(c)' = l
    BY <1>1, <1>3, Zenon DEF Where
  <1>6. RunInv'
    BY <1>1, <1>3 DEF RunInv
  <1> QED BY <1>4, <1>5, <1>6, Zenon

\* The scheduler of c moves.
LEMMA SchMoved ==
  ASSUME TypeOK, RunInv, NEW c \in CPUs, NEW l \in {"top", "idle", "loop"},
         cur[c] = None, sch' = [sch EXCEPT ![c] = l],
         UNCHANGED <<cur, state, pc, onchan>>
  PROVE  /\ Where(c) = sch[c] /\ Where(c)' = l
         /\ \A d \in CPUs \ {c} : Where(d)' = Where(d)
         /\ RunInv'
  <1>1. \A d \in CPUs \ {c} : Where(d)' = Where(d)
    BY Zenon DEF Where, TypeOK
  <1>2. Where(c) = sch[c] /\ Where(c)' = l
    BY Zenon DEF Where, TypeOK
  <1>3. RunInv'
    BY DEF RunInv, TypeOK
  <1> QED BY <1>1, <1>2, <1>3, Zenon

\* A process inside a critical section stands on the CPU that holds the lock.
LEMMA HeldBySomeone ==
  ASSUME TypeOK, LocksInv, RunInv, NEW q \in Procs
  PROVE  /\ pc[q] \in LkPoints => holder["lk"] # None
         /\ pc[q] = "sleep_set" => holder["pt"] # None
  <1>1. SUFFICES ASSUME pc[q] \in LkPoints \cup {"sleep_set"}
                 PROVE  /\ pc[q] \in LkPoints => holder["lk"] # None
                        /\ pc[q] = "sleep_set" => holder["pt"] # None
    OBVIOUS
  <1>2. state[q] = "RUNNING"
    BY <1>1, Zenon DEF RunInv, OffPoints, LkPoints
  <1>3. PICK d \in CPUs : cur[d] = q
    BY <1>2, Zenon DEF RunInv
  <1>4. Where(d) = pc[q] /\ d # None
    BY <1>3, SchedAssumption, Zenon DEF Where
  <1> QED BY <1>4, Zenon DEF LocksInv, PtPoints

Env == UNCHANGED <<apicid, request, ack, parked>>

-----------------------------------------------------------------------------
(* Every action preserves IInv: where c stands tells which locks it holds. *)

LEMMA forkretInv ==
  ASSUME IInv, NEW c \in CPUs \ parked, NEW p \in Procs, forkret(c, p), Env
  PROVE  IInv'
  <1> USE DEF IInv
  <1>1. /\ Where(c) = "forkret" /\ Where(c)' = "user"
        /\ \A d \in CPUs \ {c} : Where(d)' = Where(d)
        /\ RunInv'
    <2>1. /\ c \in CPUs /\ cur[c] = p /\ pc[p] = "forkret" /\ "user" \in Points
          /\ pc' = [pc EXCEPT ![p] = "user"] /\ UNCHANGED <<cur, sch, state>>
          /\ \A q \in Procs \ {p} : onchan'[q] = onchan[q]
      BY Zenon DEF forkret, At, Goto, Points
    <2> QED BY <2>1, Moved, ZenonT(60)
  <1>2. holder["pt"] = c /\ holder["lk"] # c /\ ncli[c] = 1
    BY <1>1 DEF LocksInv, PtPoints, LkPoints
  <1>3. TypeOK'
    BY <1>2, SchedAssumption DEF TypeOK, forkret, At, Goto, Env, Points, Locks
  <1>4. LocksInv'
    BY <1>1, <1>2, SchedAssumption DEF TypeOK, LocksInv, forkret, PtPoints, LkPoints, Locks
  <1>5. IntrInv'
    BY <1>1, <1>2, SchedAssumption DEF TypeOK, IntrInv, forkret, Goto, Env, LkPoints, Locks
  <1>6. WakeInv'
    BY ZenonT(60) DEF TypeOK, WakeInv, NoLostWakeup, forkret, At, Goto
  <1> QED BY <1>1, <1>3, <1>4, <1>5, <1>6, Zenon

LEMMA timerInv ==
  ASSUME IInv, NEW c \in CPUs \ parked, NEW p \in Procs, timer(c, p), Env
  PROVE  IInv'
  <1> USE DEF IInv
  <1>1. /\ Where(c) \in {"user", "again"} /\ Where(c)' = "yield"
        /\ \A d \in CPUs \ {c} : Where(d)' = Where(d)
        /\ RunInv'
    <2>1. /\ c \in CPUs /\ cur[c] = p /\ pc[p] \in {"user", "again"} /\ "yield" \in Points
          /\ pc' = [pc EXCEPT ![p] = "yield"] /\ UNCHANGED <<cur, sch, state>>
          /\ \A q \in Procs \ {p} : onchan'[q] = onchan[q]
      BY Zenon DEF timer, At, Goto, Points
    <2> QED BY <2>1, Moved, ZenonT(60)
  <1>2. holder["pt"] # c /\ holder["lk"] # c /\ ncli[c] = 0
    BY <1>1 DEF LocksInv, PtPoints, LkPoints
  <1>3. TypeOK'
    BY <1>2, SchedAssumption, Zenon DEF TypeOK, timer, At, Goto, Env, Points, Locks
  <1>4. LocksInv'
    BY <1>1, <1>2, SchedAssumption DEF TypeOK, LocksInv, timer, PtPoints, LkPoints, Locks
  <1>5. IntrInv'
    BY <1>1, <1>2, SchedAssumption DEF TypeOK, IntrInv, timer, Goto, Env, LkPoints, Locks
  <1>6. WakeInv'
    BY DEF TypeOK, WakeInv, NoLostWakeup, timer, At, Goto
  <1> QED BY <1>1, <1>3, <1>4, <1>5, <1>6, Zenon

LEMMA yieldInv ==
  ASSUME IInv, NEW c \in CPUs \ parked, NEW p \in Procs, yield(c, p), Env
  PROVE  IInv'
  <1> USE DEF IInv
  <1>1. /\ Where(c) = "yield" /\ Where(c)' = "yield_set"
        /\ \A d \in CPUs \ {c} : Where(d)' = Where(d)
        /\ RunInv'
    <2>1. /\ c \in CPUs /\ cur[c] = p /\ pc[p] = "yield" /\ "yield_set" \in Points
          /\ pc' = [pc EXCEPT ![p] = "yield_set"] /\ UNCHANGED <<cur, sch, state>>
          /\ \A q \in Procs \ {p} : onchan'[q] = onchan[q]
      BY Zenon DEF yield, At, Goto, Points, acquire
    <2> QED BY <2>1, Moved, ZenonT(60)
  <1>2. holder["pt"] # c /\ holder["lk"] # c /\ ncli[c] = 0
    BY <1>1 DEF LocksInv, PtPoints, LkPoints
  <1>3. TypeOK'
    BY <1>2, SchedAssumption DEF TypeOK, yield, At, Goto, Env, Points, Locks, acquire
  <1>4. LocksInv'
    BY <1>1, <1>2, SchedAssumption, SMTT(30), Z3T(30)
       DEF TypeOK, LocksInv, yield, PtPoints, LkPoints, Locks, acquire
  <1>5. IntrInv'
    BY <1>1, <1>2, SchedAssumption DEF TypeOK, IntrInv, yield, Goto, Env, LkPoints, Locks, acquire
  <1>6. WakeInv'
    BY ZenonT(60) DEF TypeOK, WakeInv, NoLostWakeup, yield, At, Goto, acquire
  <1> QED BY <1>1, <1>3, <1>4, <1>5, <1>6, Zenon

LEMMA yield_resumeInv ==
  ASSUME IInv, NEW c \in CPUs \ parked, NEW p \in Procs, yield_resume(c, p), Env
  PROVE  IInv'
  <1> USE DEF IInv
  <1>1. /\ Where(c) = "yield_resume" /\ Where(c)' = back[p]
        /\ \A d \in CPUs \ {c} : Where(d)' = Where(d)
        /\ RunInv'
    <2>1. /\ c \in CPUs /\ cur[c] = p /\ pc[p] = "yield_resume" /\ back[p] \in Points
          /\ pc' = [pc EXCEPT ![p] = back[p]] /\ UNCHANGED <<cur, sch, state>>
          /\ \A q \in Procs \ {p} : onchan'[q] = onchan[q]
      BY Zenon DEF TypeOK, yield_resume, At, Goto, Points
    <2> QED BY <2>1, Moved, ZenonT(60)
  <1>2. holder["pt"] = c /\ holder["lk"] # c /\ ncli[c] = 1
    BY <1>1 DEF LocksInv, PtPoints, LkPoints
  <1>3. TypeOK'
    BY <1>2, SchedAssumption, SMTT(30), Z3T(30) DEF TypeOK, yield_resume, At, Goto, Env, Points, Locks
  <1>4. LocksInv'
    BY <1>1, <1>2, SchedAssumption, SMTT(30), Z3T(30)
       DEF TypeOK, LocksInv, yield_resume, PtPoints, LkPoints, Locks
  <1>5. IntrInv'
    BY <1>1, <1>2, SchedAssumption, SMTT(30), Z3T(30)
       DEF TypeOK, IntrInv, yield_resume, Goto, Env, LkPoints, Locks
  <1>6. WakeInv'
    BY ZenonT(60) DEF TypeOK, WakeInv, NoLostWakeup, yield_resume, At, Goto
  <1> QED BY <1>1, <1>3, <1>4, <1>5, <1>6, Zenon

LEMMA enterInv ==
  ASSUME IInv, NEW c \in CPUs \ parked, NEW p \in Procs, enter(c, p), Env
  PROVE  IInv'
  <1> USE DEF IInv
  <1>1. /\ Where(c) \in {"user", "again"} /\ Where(c)' = "test"
        /\ \A d \in CPUs \ {c} : Where(d)' = Where(d)
        /\ RunInv'
    <2>1. /\ c \in CPUs /\ cur[c] = p /\ pc[p] \in {"user", "again"} /\ "test" \in Points
          /\ pc' = [pc EXCEPT ![p] = "test"] /\ UNCHANGED <<cur, sch, state>>
          /\ \A q \in Procs \ {p} : onchan'[q] = onchan[q]
      BY Zenon DEF enter, At, Goto, Points, acquire
    <2> QED BY <2>1, Moved, ZenonT(60)
  <1>2. holder["pt"] # c /\ holder["lk"] # c /\ ncli[c] = 0
    BY <1>1 DEF LocksInv, PtPoints, LkPoints
  <1>3. TypeOK'
    BY <1>2, SchedAssumption DEF TypeOK, enter, At, Goto, Env, Points, Locks, acquire
  <1>4. LocksInv'
    BY <1>1, <1>2, SchedAssumption DEF TypeOK, LocksInv, enter, PtPoints, LkPoints, Locks, acquire
  <1>5. IntrInv'
    BY <1>1, <1>2, SchedAssumption DEF TypeOK, IntrInv, enter, Goto, Env, LkPoints, Locks, acquire
  <1>6. WakeInv'
    BY Zenon DEF TypeOK, WakeInv, NoLostWakeup, enter, At, Goto, acquire
  <1> QED BY <1>1, <1>3, <1>4, <1>5, <1>6, Zenon

LEMMA consumeInv ==
  ASSUME IInv, NEW c \in CPUs \ parked, NEW p \in Procs, consume(c, p), Env
  PROVE  IInv'
  <1> USE DEF IInv
  <1>1. /\ Where(c) = "test" /\ Where(c)' = "unlock"
        /\ \A d \in CPUs \ {c} : Where(d)' = Where(d)
        /\ RunInv'
    <2>1. /\ c \in CPUs /\ cur[c] = p /\ pc[p] = "test" /\ "unlock" \in Points
          /\ pc' = [pc EXCEPT ![p] = "unlock"] /\ UNCHANGED <<cur, sch, state>>
          /\ \A q \in Procs \ {p} : onchan'[q] = onchan[q]
      BY Zenon DEF consume, At, Goto, Points, cpuVars
    <2> QED BY <2>1, Moved, ZenonT(60)
  <1>2. holder["pt"] # c /\ holder["lk"] = c /\ ncli[c] = 1
    BY <1>1 DEF LocksInv, PtPoints, LkPoints
  <1>3. TypeOK'
    <2>1. pc' \in [Procs -> Points]
      BY Zenon DEF TypeOK, consume, Goto, Points
    <2>2. cond' \in BOOLEAN
      BY Zenon DEF consume
    <2> QED BY <2>1, <2>2, Zenon DEF TypeOK, consume, Env, cpuVars
  <1>4. LocksInv'
    BY <1>1, <1>2, SchedAssumption, SMTT(30), Z3T(30)
       DEF TypeOK, LocksInv, consume, PtPoints, LkPoints, Locks, cpuVars
  <1>5. IntrInv'
    BY <1>1, <1>2, SchedAssumption DEF TypeOK, IntrInv, consume, Goto, Env, LkPoints, Locks, cpuVars
  <1>6. WakeInv'
    BY Zenon DEF TypeOK, WakeInv, NoLostWakeup, consume, At, Goto, cpuVars
  <1> QED BY <1>1, <1>3, <1>4, <1>5, <1>6, Zenon

LEMMA sleepInv ==
  ASSUME IInv, NEW c \in CPUs \ parked, NEW p \in Procs, sleep(c, p), Env
  PROVE  IInv'
  <1> USE DEF IInv
  <1>1. /\ Where(c) = "test" /\ Where(c)' = "sleep"
        /\ \A d \in CPUs \ {c} : Where(d)' = Where(d)
        /\ RunInv'
    <2>1. /\ c \in CPUs /\ cur[c] = p /\ pc[p] = "test" /\ "sleep" \in Points
          /\ pc' = [pc EXCEPT ![p] = "sleep"] /\ UNCHANGED <<cur, sch, state>>
          /\ \A q \in Procs \ {p} : onchan'[q] = onchan[q]
      BY Zenon DEF sleep, At, Goto, Points, cpuVars
    <2> QED BY <2>1, Moved, ZenonT(60)
  <1>2. holder["pt"] # c /\ holder["lk"] = c /\ ncli[c] = 1
    BY <1>1 DEF LocksInv, PtPoints, LkPoints
  <1>3. TypeOK'
    BY Zenon DEF TypeOK, sleep, Goto, Env, Points, cpuVars
  <1>4. LocksInv'
    BY <1>1, <1>2, SchedAssumption DEF TypeOK, LocksInv, sleep, PtPoints, LkPoints, Locks, cpuVars
  <1>5. IntrInv'
    BY <1>1, <1>2, SchedAssumption DEF TypeOK, IntrInv, sleep, Goto, Env, LkPoints, Locks, cpuVars
  <1>6. WakeInv'
    BY Zenon DEF TypeOK, WakeInv, NoLostWakeup, sleep, At, Goto, cpuVars
  <1> QED BY <1>1, <1>3, <1>4, <1>5, <1>6, Zenon

LEMMA sleep_acquireInv ==
  ASSUME IInv, NEW c \in CPUs \ parked, NEW p \in Procs, sleep_acquire(c, p), Env
  PROVE  IInv'
  <1> USE DEF IInv
  <1>1. /\ Where(c) = "sleep" /\ Where(c)' = "sleep_rel"
        /\ \A d \in CPUs \ {c} : Where(d)' = Where(d)
        /\ RunInv'
    <2>1. /\ c \in CPUs /\ cur[c] = p /\ pc[p] = "sleep" /\ "sleep_rel" \in Points
          /\ pc' = [pc EXCEPT ![p] = "sleep_rel"] /\ UNCHANGED <<cur, sch, state>>
          /\ \A q \in Procs \ {p} : onchan'[q] = onchan[q]
      BY Zenon DEF sleep_acquire, At, Goto, Points, acquire
    <2> QED BY <2>1, Moved, ZenonT(60)
  <1>2. holder["pt"] # c /\ holder["lk"] = c /\ ncli[c] = 1
    BY <1>1 DEF LocksInv, PtPoints, LkPoints
  <1>3. TypeOK'
    BY <1>2, SchedAssumption DEF TypeOK, sleep_acquire, At, Goto, Env, Points, Locks, acquire
  <1>4. LocksInv'
    BY <1>1, <1>2, SchedAssumption, SMTT(30), Z3T(30)
       DEF TypeOK, LocksInv, sleep_acquire, PtPoints, LkPoints, Locks, acquire
  <1>5. IntrInv'
    BY <1>1, <1>2, SchedAssumption DEF TypeOK, IntrInv, sleep_acquire, Goto, Env, LkPoints, Locks, acquire
  <1>6. WakeInv'
    BY Zenon DEF TypeOK, WakeInv, NoLostWakeup, sleep_acquire, At, Goto, acquire
  <1> QED BY <1>1, <1>3, <1>4, <1>5, <1>6, Zenon

LEMMA sleep_releaseInv ==
  ASSUME IInv, NEW c \in CPUs \ parked, NEW p \in Procs, sleep_release(c, p), Env
  PROVE  IInv'
  <1> USE DEF IInv
  <1>1. /\ Where(c) = "sleep_rel" /\ Where(c)' = "sleep_set"
        /\ \A d \in CPUs \ {c} : Where(d)' = Where(d)
        /\ RunInv'
    <2>1. /\ c \in CPUs /\ cur[c] = p /\ pc[p] = "sleep_rel" /\ "sleep_set" \in Points
          /\ pc' = [pc EXCEPT ![p] = "sleep_set"] /\ UNCHANGED <<cur, sch, state>>
          /\ \A q \in Procs \ {p} : onchan'[q] = onchan[q]
      BY Zenon DEF sleep_release, At, Goto, Points, release
    <2> QED BY <2>1, Moved, ZenonT(60)
  <1>2. holder["pt"] = c /\ holder["lk"] = c /\ ncli[c] = 2
    BY <1>1 DEF LocksInv, PtPoints, LkPoints
  <1>3. TypeOK'
    BY <1>2, SchedAssumption DEF TypeOK, sleep_release, At, Goto, Env, Points, Locks, release
  <1>4. LocksInv'
    BY <1>1, <1>2, SchedAssumption, SMTT(30), Z3T(30)
       DEF TypeOK, LocksInv, sleep_release, PtPoints, LkPoints, Locks, release
  <1>5. IntrInv'
    BY <1>1, <1>2, SchedAssumption DEF TypeOK, IntrInv, sleep_release, Goto, Env, LkPoints, Locks, release
  <1>6. WakeInv'
    BY Zenon DEF TypeOK, WakeInv, NoLostWakeup, sleep_release, At, Goto, release
  <1> QED BY <1>1, <1>3, <1>4, <1>5, <1>6, Zenon

LEMMA sleep_resumeInv ==
  ASSUME IInv, NEW c \in CPUs \ parked, NEW p \in Procs, sleep_resume(c, p), Env
  PROVE  IInv'
  <1> USE DEF IInv
  <1>1. /\ Where(c) = "sleep_resume" /\ Where(c)' = "again"
        /\ \A d \in CPUs \ {c} : Where(d)' = Where(d)
        /\ RunInv'
    <2>1. /\ c \in CPUs /\ cur[c] = p /\ pc[p] = "sleep_resume" /\ "again" \in Points
          /\ pc' = [pc EXCEPT ![p] = "again"] /\ UNCHANGED <<cur, sch, state>>
          /\ \A q \in Procs \ {p} : onchan'[q] = onchan[q]
      BY Zenon DEF TypeOK, sleep_resume, At, Goto, Points, release
    <2> QED BY <2>1, Moved, ZenonT(60)
  <1>2. holder["pt"] = c /\ holder["lk"] # c /\ ncli[c] = 1
    BY <1>1 DEF LocksInv, PtPoints, LkPoints
  <1>3. TypeOK'
    BY <1>2, SchedAssumption, SMTT(30), Z3T(30) DEF TypeOK, sleep_resume, At, Goto, Env, Points, Locks, release
  <1>4. LocksInv'
    <2>1. holder' = [holder EXCEPT !["pt"] = None] /\ ncli' = [ncli EXCEPT ![c] = 0]
      BY <1>2, SMTT(30), Z3T(30) DEF sleep_resume, release
    <2> QED BY <1>1, <1>2, <2>1, SchedAssumption
            DEF TypeOK, LocksInv, PtPoints, LkPoints, Locks
  <1>5. IntrInv'
    BY <1>1, <1>2, SchedAssumption DEF TypeOK, IntrInv, sleep_resume, Goto, Env, LkPoints, Locks, release
  <1>6. WakeInv'
    BY Zenon DEF TypeOK, WakeInv, NoLostWakeup, sleep_resume, At, Goto, release
  <1> QED BY <1>1, <1>3, <1>4, <1>5, <1>6, Zenon

LEMMA putInv ==
  ASSUME IInv, NEW c \in CPUs \ parked, NEW p \in Procs, put(c, p), Env
  PROVE  IInv'
  <1> USE DEF IInv
  <1>1. /\ Where(c) = "user" /\ Where(c)' = "put"
        /\ \A d \in CPUs \ {c} : Where(d)' = Where(d)
        /\ RunInv'
    <2>1. /\ c \in CPUs /\ cur[c] = p /\ pc[p] = "user" /\ "put" \in Points
          /\ pc' = [pc EXCEPT ![p] = "put"] /\ UNCHANGED <<cur, sch, state>>
          /\ \A q \in Procs \ {p} : onchan'[q] = onchan[q]
      BY Zenon DEF put, At, Goto, Points, acquire
    <2> QED BY <2>1, Moved, ZenonT(60)
  <1>2. holder["pt"] # c /\ holder["lk"] # c /\ ncli[c] = 0
    BY <1>1 DEF LocksInv, PtPoints, LkPoints
  <1>3. TypeOK'
    BY <1>2, SchedAssumption, SMTT(30), Z3T(30) DEF TypeOK, put, At, Goto, Env, Points, Locks, acquire
  <1>4. LocksInv'
    BY <1>1, <1>2, SchedAssumption, SMTT(30), Z3T(30)
       DEF TypeOK, LocksInv, put, PtPoints, LkPoints, Locks, acquire
  <1>5. IntrInv'
    BY <1>1, <1>2, SchedAssumption DEF TypeOK, IntrInv, put, Goto, Env, LkPoints, Locks, acquire
  <1>6. WakeInv'
    <2>1. \A q \in Procs : pc[q] \notin {"sleep", "sleep_rel"}
      BY HeldBySomeone, Zenon DEF put, acquire, LkPoints
    <2>2. pc'[p] = "put" /\ \A q \in Procs \ {p} : pc'[q] = pc[q]
      BY Zenon DEF TypeOK, put, Goto
    <2> QED BY <2>1, <2>2, Zenon DEF WakeInv, NoLostWakeup
  <1> QED BY <1>1, <1>3, <1>4, <1>5, <1>6, Zenon

LEMMA wakeup_acquireInv ==
  ASSUME IInv, NEW c \in CPUs \ parked, NEW p \in Procs, wakeup_acquire(c, p), Env
  PROVE  IInv'
  <1> USE DEF IInv
  <1>1. /\ Where(c) = "put" /\ Where(c)' = "wake"
        /\ \A d \in CPUs \ {c} : Where(d)' = Where(d)
        /\ RunInv'
    <2>1. /\ c \in CPUs /\ cur[c] = p /\ pc[p] = "put" /\ "wake" \in Points
          /\ pc' = [pc EXCEPT ![p] = "wake"] /\ UNCHANGED <<cur, sch, state>>
          /\ \A q \in Procs \ {p} : onchan'[q] = onchan[q]
      BY Zenon DEF wakeup_acquire, At, Goto, Points, acquire
    <2> QED BY <2>1, Moved, ZenonT(60)
  <1>2. holder["pt"] # c /\ holder["lk"] = c /\ ncli[c] = 1
    BY <1>1 DEF LocksInv, PtPoints, LkPoints
  <1>3. TypeOK'
    BY <1>2, SchedAssumption DEF TypeOK, wakeup_acquire, At, Goto, Env, Points, Locks, acquire
  <1>4. LocksInv'
    BY <1>1, <1>2, SchedAssumption, SMTT(30), Z3T(30)
       DEF TypeOK, LocksInv, wakeup_acquire, PtPoints, LkPoints, Locks, acquire
  <1>5. IntrInv'
    BY <1>1, <1>2, SchedAssumption DEF TypeOK, IntrInv, wakeup_acquire, Goto, Env, LkPoints, Locks, acquire
  <1>6. WakeInv'
    <2>1. \A q \in Procs : pc[q] # "sleep_set"
      BY HeldBySomeone, Zenon DEF wakeup_acquire, acquire
    <2>2. pc'[p] = "wake" /\ \A q \in Procs \ {p} : pc'[q] = pc[q]
      BY Zenon DEF TypeOK, wakeup_acquire, Goto
    <2>3. UNCHANGED <<cond, state>>
      BY Zenon DEF wakeup_acquire
    <2> QED BY <2>1, <2>2, <2>3, Zenon DEF WakeInv, NoLostWakeup
  <1> QED BY <1>1, <1>3, <1>4, <1>5, <1>6, Zenon

LEMMA leaveInv ==
  ASSUME IInv, NEW c \in CPUs \ parked, NEW p \in Procs, leave(c, p), Env
  PROVE  IInv'
  <1> USE DEF IInv
  <1>1. /\ Where(c) = "unlock" /\ Where(c)' = "user"
        /\ \A d \in CPUs \ {c} : Where(d)' = Where(d)
        /\ RunInv'
    <2>1. /\ c \in CPUs /\ cur[c] = p /\ pc[p] = "unlock" /\ "user" \in Points
          /\ pc' = [pc EXCEPT ![p] = "user"] /\ UNCHANGED <<cur, sch, state>>
          /\ \A q \in Procs \ {p} : onchan'[q] = onchan[q]
      BY Zenon DEF leave, At, Goto, Points, release
    <2> QED BY <2>1, Moved, ZenonT(60)
  <1>2. holder["pt"] # c /\ holder["lk"] = c /\ ncli[c] = 1
    BY <1>1 DEF LocksInv, PtPoints, LkPoints
  <1>3. TypeOK'
    BY <1>2, SchedAssumption DEF TypeOK, leave, At, Goto, Env, Points, Locks, release
  <1>4. LocksInv'
    BY <1>1, <1>2, SchedAssumption, SMTT(30), Z3T(30)
       DEF TypeOK, LocksInv, leave, PtPoints, LkPoints, Locks, release
  <1>5. IntrInv'
    BY <1>1, <1>2, SchedAssumption DEF TypeOK, IntrInv, leave, Goto, Env, LkPoints, Locks, release
  <1>6. WakeInv'
    BY ZenonT(60) DEF TypeOK, WakeInv, NoLostWakeup, leave, At, Goto, release
  <1> QED BY <1>1, <1>3, <1>4, <1>5, <1>6, Zenon

LEMMA reboot_prepare_cpusInv ==
  ASSUME IInv, NEW c \in CPUs \ parked, NEW p \in Procs, reboot_prepare_cpus(c, p), UNCHANGED apicid
  PROVE  IInv'
  <1> USE DEF IInv
  <1>1. /\ Where(c) = "user" /\ Where(c)' = "reboot"
        /\ \A d \in CPUs \ {c} : Where(d)' = Where(d)
        /\ RunInv'
    <2>1. /\ c \in CPUs /\ cur[c] = p /\ pc[p] = "user" /\ "reboot" \in Points
          /\ pc' = [pc EXCEPT ![p] = "reboot"] /\ UNCHANGED <<cur, sch, state>>
          /\ \A q \in Procs \ {p} : onchan'[q] = onchan[q]
      BY Zenon DEF reboot_prepare_cpus, At, Goto, Points, mainVars
    <2> QED BY <2>1, Moved, ZenonT(60)
  <1>2. holder["pt"] # c /\ holder["lk"] # c /\ ncli[c] = 0
    BY <1>1 DEF LocksInv, PtPoints, LkPoints
  <1>3. TypeOK'
    BY <1>2, SchedAssumption, SMTT(30), Z3T(30)
       DEF TypeOK, reboot_prepare_cpus, At, Goto, Points, Locks, mainVars
  <1>4. LocksInv'
    BY <1>1, <1>2, SchedAssumption, SMTT(30), Z3T(30)
       DEF TypeOK, LocksInv, reboot_prepare_cpus, PtPoints, LkPoints, Locks, mainVars
  <1>5. IntrInv'
    BY <1>1, <1>2, SchedAssumption DEF TypeOK, IntrInv, reboot_prepare_cpus, Goto, LkPoints, Locks, mainVars
  <1>6. WakeInv'
    BY ZenonT(60) DEF TypeOK, WakeInv, NoLostWakeup, reboot_prepare_cpus, At, Goto, mainVars
  <1> QED BY <1>1, <1>3, <1>4, <1>5, <1>6, Zenon

LEMMA all_ackedInv ==
  ASSUME IInv, NEW c \in CPUs \ parked, NEW p \in Procs, all_acked(c, p), UNCHANGED apicid
  PROVE  IInv'
  <1> USE DEF IInv
  <1>1. /\ Where(c) = "reboot" /\ Where(c)' = "quiet"
        /\ \A d \in CPUs \ {c} : Where(d)' = Where(d)
        /\ RunInv'
    <2>1. /\ c \in CPUs /\ cur[c] = p /\ pc[p] = "reboot" /\ "quiet" \in Points
          /\ pc' = [pc EXCEPT ![p] = "quiet"] /\ UNCHANGED <<cur, sch, state>>
          /\ \A q \in Procs \ {p} : onchan'[q] = onchan[q]
      BY Zenon DEF all_acked, At, Goto, Points, mainVars, rebootVars
    <2> QED BY <2>1, Moved, ZenonT(60)
  <1>2. holder["pt"] # c /\ holder["lk"] # c /\ ncli[c] = 0
    BY <1>1 DEF LocksInv, PtPoints, LkPoints
  <1>3. TypeOK'
    BY <1>2, SchedAssumption, Zenon DEF TypeOK, all_acked, At, Goto, Points, Locks, mainVars, rebootVars
  <1>4. LocksInv'
    BY <1>1, <1>2, SchedAssumption, SMTT(30), Z3T(30)
       DEF TypeOK, LocksInv, all_acked, PtPoints, LkPoints, Locks, mainVars, rebootVars
  <1>5. IntrInv'
    BY <1>1, <1>2, SchedAssumption, SMTT(30), Z3T(30)
       DEF TypeOK, IntrInv, all_acked, Goto, LkPoints, Locks, mainVars, rebootVars
  <1>6. WakeInv'
    BY ZenonT(60) DEF TypeOK, WakeInv, NoLostWakeup, all_acked, At, Goto, mainVars, rebootVars
  <1> QED BY <1>1, <1>3, <1>4, <1>5, <1>6, Zenon

LEMMA timed_outInv ==
  ASSUME IInv, NEW c \in CPUs \ parked, NEW p \in Procs, timed_out(c, p), UNCHANGED apicid
  PROVE  IInv'
  <1> USE DEF IInv
  <1>1. /\ Where(c) = "reboot" /\ Where(c)' = "timedout"
        /\ \A d \in CPUs \ {c} : Where(d)' = Where(d)
        /\ RunInv'
    <2>1. /\ c \in CPUs /\ cur[c] = p /\ pc[p] = "reboot" /\ "timedout" \in Points
          /\ pc' = [pc EXCEPT ![p] = "timedout"] /\ UNCHANGED <<cur, sch, state>>
          /\ \A q \in Procs \ {p} : onchan'[q] = onchan[q]
      BY Zenon DEF timed_out, At, Goto, Points, mainVars, rebootVars
    <2> QED BY <2>1, Moved, ZenonT(60)
  <1>2. holder["pt"] # c /\ holder["lk"] # c /\ ncli[c] = 0
    BY <1>1 DEF LocksInv, PtPoints, LkPoints
  <1>3. TypeOK'
    BY <1>2, SchedAssumption, Zenon DEF TypeOK, timed_out, At, Goto, Points, Locks, mainVars, rebootVars
  <1>4. LocksInv'
    BY <1>1, <1>2, SchedAssumption, SMTT(30), Z3T(30)
       DEF TypeOK, LocksInv, timed_out, PtPoints, LkPoints, Locks, mainVars, rebootVars
  <1>5. IntrInv'
    BY <1>1, <1>2, SchedAssumption, SMTT(30), Z3T(30)
       DEF TypeOK, IntrInv, timed_out, Goto, LkPoints, Locks, mainVars, rebootVars
  <1>6. WakeInv'
    BY Zenon DEF TypeOK, WakeInv, NoLostWakeup, timed_out, At, Goto, mainVars, rebootVars
  <1> QED BY <1>1, <1>3, <1>4, <1>5, <1>6, Zenon

LEMMA wakeup1Inv ==
  ASSUME IInv, NEW c \in CPUs \ parked, NEW p \in Procs, wakeup1(c, p), Env
  PROVE  IInv'
  <1> USE DEF IInv
  <1>1. cur[c] = p /\ pc[p] = "wake" /\ state[p] = "RUNNING" /\ p # None
    BY SchedAssumption DEF RunInv, wakeup1, At
  <1>2. \A d \in CPUs \ {c} : cur[d] # p
    BY <1>1, Zenon DEF RunInv
  <1>3. Where(c) = "wake" /\ Where(c)' = "unlock"
    BY <1>1, Zenon DEF TypeOK, Where, wakeup1, Goto
  <1>4. \A d \in CPUs \ {c} : Where(d)' = Where(d)
    BY <1>2, SMTT(30), Z3T(30) DEF TypeOK, Where, wakeup1, Goto
  <1>5. /\ \A q \in Procs : state[q] = "RUNNING" <=> state'[q] = "RUNNING"
        /\ \A q \in Procs : state'[q] # "SLEEPING"
        /\ state' \in [Procs -> {"RUNNABLE", "RUNNING", "SLEEPING"}]
    BY SMTT(30), Z3T(30) DEF TypeOK, RunInv, wakeup1
  <1>6. RunInv'
    BY <1>1, <1>5 DEF TypeOK, RunInv, wakeup1, Goto
  <1>7. holder["pt"] = c /\ holder["lk"] = c /\ ncli[c] = 2
    BY <1>3, SMTT(30), Z3T(30) DEF LocksInv, PtPoints, LkPoints
  <1>8. TypeOK'
    BY <1>5, <1>7, SchedAssumption, SMTT(30), Z3T(30) DEF TypeOK, wakeup1, Goto, Env, Points, Locks, release
  <1>9. LocksInv'
    BY <1>3, <1>4, <1>7, SchedAssumption, SMTT(30), Z3T(30)
       DEF TypeOK, LocksInv, wakeup1, PtPoints, LkPoints, Locks, release
  <1>10. IntrInv'
    BY <1>3, <1>4, <1>7, SchedAssumption, SMTT(30), Z3T(30)
       DEF TypeOK, IntrInv, wakeup1, Goto, Env, LkPoints, Locks, release
  <1>11. WakeInv'
    <2>1. \A q \in Procs : pc[q] # "sleep_set"
      <3>1. SUFFICES ASSUME NEW q \in Procs, pc[q] = "sleep_set" PROVE FALSE
        OBVIOUS
      <3>2. PICK d \in CPUs : cur[d] = q
        BY <3>1, Zenon DEF RunInv, OffPoints
      <3>3. d # c /\ Where(d) = "sleep_set"
        BY <1>1, <3>1, <3>2, SchedAssumption, Zenon DEF Where
      <3> QED BY <1>7, <3>3, Zenon DEF LocksInv, PtPoints
    <2>2. pc'[p] = "unlock" /\ \A q \in Procs \ {p} : pc'[q] = pc[q]
      BY Zenon DEF TypeOK, wakeup1, Goto
    <2>3. UNCHANGED cond
      BY Zenon DEF wakeup1
    <2> QED BY <1>5, <2>1, <2>2, <2>3, Zenon DEF WakeInv, NoLostWakeup
  <1> QED BY <1>6, <1>8, <1>9, <1>10, <1>11, Zenon

LEMMA yield_schedInv ==
  ASSUME IInv, NEW c \in CPUs \ parked, NEW p \in Procs, yield_sched(c, p), Env
  PROVE  IInv'
  <1> USE DEF IInv
  <1>1. cur[c] = p /\ pc[p] = "yield_set" /\ state[p] = "RUNNING" /\ p # None
    BY SchedAssumption DEF RunInv, yield_sched, At
  <1>2. /\ sch[c] = "loop"
        /\ \A d \in CPUs \ {c} : cur[d] # p
    BY <1>1, Zenon DEF RunInv
  <1>3. /\ cur' = [cur EXCEPT ![c] = None] /\ pc' = [pc EXCEPT ![p] = "yield_resume"]
        /\ state' = [state EXCEPT ![p] = "RUNNABLE"] /\ UNCHANGED <<holder, ncli, sch>>
    BY Zenon DEF yield_sched, sched, Goto, cpuVars
  <1>4. Where(c) = "yield_set" /\ Where(c)' = "loop"
    BY <1>1, <1>2, <1>3, Zenon DEF TypeOK, Where
  <1>5. \A d \in CPUs \ {c} : Where(d)' = Where(d)
    BY <1>2, <1>3, Zenon DEF TypeOK, Where
  <1>6. RunInv'
    BY <1>1, <1>2, <1>3, SMTT(30), Z3T(30) DEF TypeOK, RunInv, OffPoints, yield_sched
  <1>7. TypeOK'
    BY <1>3, ZenonT(60) DEF TypeOK, yield_sched, sched, cpuVars, Env, Points
  <1>8. LocksInv'
    BY <1>3, <1>4, <1>5, Zenon DEF LocksInv, PtPoints, LkPoints
  <1>9. IntrInv'
    BY <1>3, <1>4, <1>5, SMTT(30), Z3T(30) DEF TypeOK, IntrInv, yield_sched, sched, cpuVars, Env, LkPoints
  <1>10. WakeInv'
    BY <1>1, <1>3, SMTT(30), Z3T(30) DEF TypeOK, WakeInv, NoLostWakeup, yield_sched
  <1> QED BY <1>6, <1>7, <1>8, <1>9, <1>10, Zenon

LEMMA sleep_schedInv ==
  ASSUME IInv, NEW c \in CPUs \ parked, NEW p \in Procs, sleep_sched(c, p), Env
  PROVE  IInv'
  <1> USE DEF IInv
  <1>1. cur[c] = p /\ pc[p] = "sleep_set" /\ state[p] = "RUNNING" /\ p # None
    BY SchedAssumption DEF RunInv, sleep_sched, At
  <1>2. /\ sch[c] = "loop"
        /\ \A d \in CPUs \ {c} : cur[d] # p
    BY <1>1, Zenon DEF RunInv
  <1>3. /\ cur' = [cur EXCEPT ![c] = None] /\ pc' = [pc EXCEPT ![p] = "sleep_resume"]
        /\ state' = [state EXCEPT ![p] = "SLEEPING"] /\ UNCHANGED <<holder, ncli, sch>>
    BY Zenon DEF sleep_sched, sched, Goto, cpuVars
  <1>4. Where(c) = "sleep_set" /\ Where(c)' = "loop"
    BY <1>1, <1>2, <1>3, Zenon DEF TypeOK, Where
  <1>5. \A d \in CPUs \ {c} : Where(d)' = Where(d)
    BY <1>2, <1>3, Zenon DEF TypeOK, Where
  <1>6. RunInv'
    BY <1>1, <1>2, <1>3, SMTT(30), Z3T(30) DEF TypeOK, RunInv, OffPoints, sleep_sched
  <1>7. TypeOK'
    BY <1>3 DEF TypeOK, sleep_sched, sched, cpuVars, Env, Points
  <1>8. LocksInv'
    BY <1>3, <1>4, <1>5, ZenonT(60) DEF LocksInv, PtPoints, LkPoints
  <1>9. IntrInv'
    BY <1>3, <1>4, <1>5, SMTT(30), Z3T(30) DEF TypeOK, IntrInv, sleep_sched, sched, cpuVars, Env, LkPoints
  <1>10. WakeInv'
    BY <1>1, <1>3, ZenonT(60) DEF TypeOK, WakeInv, NoLostWakeup, sleep_sched
  <1> QED BY <1>6, <1>7, <1>8, <1>9, <1>10, Zenon

LEMMA scheduler_runInv ==
  ASSUME IInv, NEW c \in CPUs \ parked, NEW p \in Procs, scheduler_run(c, p), Env
  PROVE  IInv'
  <1> USE DEF IInv
  <1>1. /\ cur[c] = None /\ sch[c] = "loop" /\ state[p] = "RUNNABLE" /\ p # None
        /\ cur' = [cur EXCEPT ![c] = p] /\ state' = [state EXCEPT ![p] = "RUNNING"]
        /\ UNCHANGED <<holder, ncli, iflag, sch, onchan, saved, pc, back, cond>>
    BY SchedAssumption, Zenon DEF scheduler_run
  <1>2. pc[p] \in OffPoints /\ \A d \in CPUs : cur[d] # p
    BY <1>1, Zenon DEF TypeOK, RunInv
  <1>3. Where(c) = "loop" /\ Where(c)' = pc[p]
    BY <1>1, Zenon DEF TypeOK, Where
  <1>4. \A d \in CPUs \ {c} : Where(d)' = Where(d)
    BY <1>1, Zenon DEF TypeOK, Where
  <1>5. RunInv'
    <2>1. \A d \in CPUs \ {c} : cur'[d] = cur[d]
      BY <1>1, Zenon DEF TypeOK
    <2>2. cur'[c] = p /\ state'[p] = "RUNNING" /\ \A q \in Procs \ {p} : state'[q] = state[q]
      BY <1>1, Zenon DEF TypeOK
    <2>3. \A d, e \in CPUs : cur'[d] = cur'[e] /\ cur'[d] # None => d = e
      BY <1>2, <2>1, <2>2 DEF RunInv
    <2>4. \A d \in CPUs : cur'[d] # None => sch'[d] = "loop" /\ state'[cur'[d]] = "RUNNING"
      <3>1. SUFFICES ASSUME NEW d \in CPUs \ {c}, cur[d] # None
                     PROVE  sch[d] = "loop" /\ state'[cur[d]] = "RUNNING"
        BY <1>1, <2>1, <2>2
      <3>2. cur[d] \in Procs /\ cur[d] # p
        BY <1>2, <3>1, Zenon DEF TypeOK
      <3> QED BY <2>2, <3>1, <3>2, Zenon DEF RunInv
    <2>5. \A q \in Procs : state'[q] = "RUNNING" => \E d \in CPUs : cur'[d] = q
      <3>1. SUFFICES ASSUME NEW q \in Procs \ {p}, state[q] = "RUNNING"
                     PROVE  \E d \in CPUs : cur'[d] = q
        BY <2>2, Zenon
      <3>2. PICK d \in CPUs : cur[d] = q
        BY <3>1, Zenon DEF RunInv
      <3>3. d # c
        BY <1>1, <3>2, SchedAssumption, Zenon
      <3> QED BY <2>1, <3>2, <3>3, Zenon
    <2> QED BY <1>1, <2>2, <2>3, <2>4, <2>5, SMTT(30), Z3T(30) DEF RunInv
  <1>6. TypeOK'
    BY <1>1, SMTT(30), Z3T(30) DEF TypeOK, scheduler_run, Env
  <1>7. LocksInv'
    BY <1>1, <1>2, <1>3, <1>4, SMTT(30), Z3T(30) DEF LocksInv, PtPoints, LkPoints, OffPoints
  <1>8. IntrInv'
    BY <1>1, <1>2, <1>3, <1>4, SMTT(30), Z3T(30) DEF TypeOK, IntrInv, scheduler_run, Env, LkPoints, OffPoints
  <1>9. WakeInv'
    BY <1>1, Zenon DEF TypeOK, WakeInv, NoLostWakeup
  <1> QED BY <1>5, <1>6, <1>7, <1>8, <1>9, Zenon

LEMMA scheduler_stiInv ==
  ASSUME IInv, NEW c \in CPUs \ parked, scheduler_sti(c), Env
  PROVE  IInv'
  <1> USE DEF IInv
  <1>1. /\ Where(c) = "top" /\ Where(c)' = "idle"
        /\ \A d \in CPUs \ {c} : Where(d)' = Where(d)
        /\ RunInv'
    <2>1. /\ c \in CPUs /\ cur[c] = None /\ sch[c] = "top" /\ sch' = [sch EXCEPT ![c] = "idle"]
          /\ UNCHANGED <<cur, state, pc, onchan>> /\ "idle" \in {"top", "idle", "loop"}
      BY Zenon DEF scheduler_sti
    <2> QED BY <2>1, SchMoved, Zenon
  <1>2. holder["pt"] # c /\ holder["lk"] # c /\ ncli[c] = 0
    BY <1>1 DEF LocksInv, PtPoints, LkPoints
  <1>3. TypeOK'
    BY <1>2, SchedAssumption, ZenonT(60) DEF TypeOK, scheduler_sti, Env, Locks
  <1>4. LocksInv'
    BY <1>1, <1>2, SchedAssumption, SMTT(30), Z3T(30)
       DEF TypeOK, LocksInv, scheduler_sti, PtPoints, LkPoints, Locks
  <1>5. IntrInv'
    BY <1>1, <1>2, SchedAssumption, SMTT(30), Z3T(30) DEF TypeOK, IntrInv, scheduler_sti, Env, LkPoints, Locks
  <1>6. WakeInv'
    BY Zenon DEF WakeInv, NoLostWakeup, scheduler_sti
  <1> QED BY <1>1, <1>3, <1>4, <1>5, <1>6, Zenon

LEMMA scheduler_acquireInv ==
  ASSUME IInv, NEW c \in CPUs \ parked, scheduler_acquire(c), Env
  PROVE  IInv'
  <1> USE DEF IInv
  <1>1. /\ Where(c) = "idle" /\ Where(c)' = "loop"
        /\ \A d \in CPUs \ {c} : Where(d)' = Where(d)
        /\ RunInv'
    <2>1. /\ c \in CPUs /\ cur[c] = None /\ sch[c] = "idle" /\ sch' = [sch EXCEPT ![c] = "loop"]
          /\ UNCHANGED <<cur, state, pc, onchan>> /\ "loop" \in {"top", "idle", "loop"}
      BY Zenon DEF scheduler_acquire
    <2> QED BY <2>1, SchMoved, Zenon
  <1>2. holder["pt"] # c /\ holder["lk"] # c /\ ncli[c] = 0
    BY <1>1, SMTT(30), Z3T(30) DEF LocksInv, PtPoints, LkPoints
  <1>3. TypeOK'
    BY <1>2, SchedAssumption, SMTT(30), Z3T(30) DEF TypeOK, scheduler_acquire, Env, Locks, acquire
  <1>4. LocksInv'
    BY <1>1, <1>2, SchedAssumption, SMTT(30), Z3T(30)
       DEF TypeOK, LocksInv, scheduler_acquire, PtPoints, LkPoints, Locks, acquire
  <1>5. IntrInv'
    BY <1>1, <1>2, SchedAssumption, SMT, Z3, SMTT(20)
       DEF TypeOK, IntrInv, scheduler_acquire, Env, LkPoints, Locks, acquire
  <1>6. WakeInv'
    BY Zenon DEF WakeInv, NoLostWakeup, scheduler_acquire
  <1> QED BY <1>1, <1>3, <1>4, <1>5, <1>6, Zenon

LEMMA scheduler_releaseInv ==
  ASSUME IInv, NEW c \in CPUs \ parked, scheduler_release(c), Env
  PROVE  IInv'
  <1> USE DEF IInv
  <1>1. /\ Where(c) = "loop" /\ Where(c)' = "top"
        /\ \A d \in CPUs \ {c} : Where(d)' = Where(d)
        /\ RunInv'
    <2>1. /\ c \in CPUs /\ cur[c] = None /\ sch[c] = "loop" /\ sch' = [sch EXCEPT ![c] = "top"]
          /\ UNCHANGED <<cur, state, pc, onchan>> /\ "top" \in {"top", "idle", "loop"}
      BY Zenon DEF scheduler_release
    <2> QED BY <2>1, SchMoved, Zenon
  <1>2. holder["pt"] = c /\ holder["lk"] # c /\ ncli[c] = 1
    BY <1>1, SMTT(30), Z3T(30) DEF LocksInv, PtPoints, LkPoints
  <1>3. TypeOK'
    BY <1>2, SchedAssumption, SMTT(30), Z3T(30) DEF TypeOK, scheduler_release, Env, Locks, release
  <1>4. LocksInv'
    <2>1. holder' = [holder EXCEPT !["pt"] = None] /\ ncli' = [ncli EXCEPT ![c] = 0]
      BY <1>2, SMTT(30), Z3T(30) DEF scheduler_release, release
    <2> QED BY <1>1, <1>2, <2>1, SchedAssumption, SMT, Z3, SMTT(20)
            DEF TypeOK, LocksInv, PtPoints, LkPoints, Locks
  <1>5. IntrInv'
    BY <1>1, <1>2, SchedAssumption, SMT, Z3, SMTT(20)
       DEF TypeOK, IntrInv, scheduler_release, Env, LkPoints, Locks, release
  <1>6. WakeInv'
    BY Zenon DEF WakeInv, NoLostWakeup, scheduler_release
  <1> QED BY <1>1, <1>3, <1>4, <1>5, <1>6, Zenon

LEMMA haltInv ==
  ASSUME IInv, NEW c \in CPUs \ parked, scheduler_halt(c) \/ timer_halt(c), UNCHANGED apicid
  PROVE  IInv'
  <1> USE DEF IInv
  <1>1. /\ reboot_halt(c)
        /\ holder' = holder /\ ncli' = ncli /\ intena' = intena /\ cur' = cur
        /\ sch' = sch /\ state' = state /\ onchan' = onchan /\ saved' = saved
        /\ back' = back /\ cond' = cond /\ pc' = pc
    BY Zenon DEF scheduler_halt, timer_halt, reboot_halt, mainVars
  <1>2. holder["pt"] # c /\ holder["lk"] # c
    <2>1. CASE scheduler_halt(c)
      <3>1. Where(c) = "top"
        BY <2>1, Zenon DEF scheduler_halt, Where
      <3> QED BY <3>1, Zenon DEF LocksInv, PtPoints, LkPoints
    <2>2. CASE timer_halt(c)
      BY <2>2, Zenon DEF timer_halt, IntrInv
    <2> QED BY <2>1, <2>2, Zenon
  <1>3. \A d \in CPUs : Where(d)' = Where(d)
    BY <1>1, Zenon DEF Where
  <1>4. TypeOK'
    <2>1. iflag' \in [CPUs -> BOOLEAN] /\ parked' \subseteq CPUs /\ request' \in BOOLEAN
      BY <1>1, Zenon DEF TypeOK, reboot_halt
    <2>2. apicid[c] \in ApicIds
      BY SchedAssumption DEF TypeOK
    <2>3. ack' \subseteq ApicIds /\ apicid' \in Numberings
      BY <1>1, <2>2, Zenon DEF TypeOK, reboot_halt
    <2> QED BY <1>1, <2>1, <2>3, Zenon DEF TypeOK
  <1>5. LocksInv' /\ RunInv' /\ WakeInv'
    <2>1. LocksInv'
      <3>1. holder' = holder /\ ncli' = ncli
        BY <1>1, Zenon
      <3> QED BY <1>3, <3>1, Zenon DEF LocksInv
    <2>2. RunInv'
      <3>1. sch' = sch /\ cur' = cur /\ state' = state /\ pc' = pc /\ onchan' = onchan
        BY <1>1, Zenon
      <3> QED BY <3>1, ZenonT(60) DEF RunInv
    <2>3. WakeInv'
      <3>1. cond' = cond /\ state' = state /\ pc' = pc
        BY <1>1, Zenon
      <3> QED BY <3>1, Zenon DEF WakeInv, NoLostWakeup
    <2> QED BY <2>1, <2>2, <2>3, Zenon
  <1>6. IntrInv'
    BY <1>1, <1>2, <1>3, SMTT(30), Z3T(30) DEF TypeOK, IntrInv, reboot_halt
  <1> QED BY <1>4, <1>5, <1>6, Zenon

\* The state of a machine that has just started, by main or by a reset.
Started ==
  /\ holder = [l \in Locks |-> None]
  /\ ncli = [c \in CPUs |-> 0]
  /\ intena = [c \in CPUs |-> FALSE] /\ iflag = [c \in CPUs |-> FALSE]
  /\ cur = [c \in CPUs |-> None] /\ sch = [c \in CPUs |-> "top"]
  /\ state = [p \in Procs |-> "RUNNABLE"] /\ pc = [p \in Procs |-> "forkret"]
  /\ onchan = [p \in Procs |-> FALSE] /\ saved = [p \in Procs |-> FALSE]
  /\ back = [p \in Procs |-> "user"] /\ cond = FALSE
  /\ request = FALSE /\ ack = {} /\ parked = {}
  /\ apicid \in Numberings

LEMMA StartedInv == Started => IInv
  <1> SUFFICES ASSUME Started PROVE IInv
    OBVIOUS
  <1>1. TypeOK
    <2>1. /\ holder \in [Locks -> CPUs \cup {None}] /\ ncli \in [CPUs -> 0 .. 2]
          /\ cur \in [CPUs -> Procs \cup {None}] /\ sch \in [CPUs -> {"top", "idle", "loop"}]
          /\ state \in [Procs -> {"RUNNABLE", "RUNNING", "SLEEPING"}]
          /\ pc \in [Procs -> Points] /\ back \in [Procs -> {"user", "again"}]
      BY DEF Started, Points
    <2>2. /\ intena \in [CPUs -> BOOLEAN] /\ iflag \in [CPUs -> BOOLEAN]
          /\ onchan \in [Procs -> BOOLEAN] /\ saved \in [Procs -> BOOLEAN]
      BY Zenon DEF Started
    <2>3. /\ cond \in BOOLEAN /\ request \in BOOLEAN /\ apicid \in Numberings
          /\ ack \subseteq ApicIds /\ parked \subseteq CPUs
      BY Zenon DEF Started
    <2> QED BY <2>1, <2>2, <2>3, Zenon DEF TypeOK
  <1>2. \A c \in CPUs : Where(c) = "top"
    BY Zenon DEF Started, Where
  <1>3. LocksInv
    BY <1>2, SchedAssumption DEF Started, LocksInv, PtPoints, LkPoints, Locks
  <1>4. RunInv /\ WakeInv
    BY Zenon DEF Started, RunInv, WakeInv, NoLostWakeup, OffPoints
  <1>5. IntrInv
    BY <1>2, Zenon DEF Started, IntrInv, LkPoints
  <1> QED BY <1>1, <1>3, <1>4, <1>5, Zenon DEF IInv

LEMMA resetInv ==
  ASSUME IInv, NEW c \in CPUs, NEW p \in Procs, reset(c, p), UNCHANGED apicid
  PROVE  IInv'
  <1>1. Started'
    BY Zenon DEF IInv, TypeOK, Started, reset
  <1>2. (Started => IInv)'
    BY StartedInv, PTL
  <1> QED BY <1>1, <1>2, Zenon

-----------------------------------------------------------------------------
(* The invariants. *)

LEMMA InitIInv == Init => IInv
  <1>1. Init => Started
    BY Zenon DEF Init, Started
  <1> QED BY <1>1, StartedInv, Zenon

LEMMA NextIInv == IInv /\ [Next]_vars => IInv'
  <1> SUFFICES ASSUME IInv, [Next]_vars PROVE IInv'
    OBVIOUS
  <1>1. CASE UNCHANGED vars
    <2>1. \A c \in CPUs : Where(c)' = Where(c)
      BY <1>1, ZenonT(60) DEF vars, Where
    <2>2. TypeOK' /\ RunInv' /\ WakeInv'
      BY <1>1, SMTT(30), Z3T(30) DEF vars, IInv, TypeOK, RunInv, WakeInv, NoLostWakeup
    <2>3. LocksInv' /\ IntrInv'
      BY <1>1, <2>1 DEF vars, IInv, TypeOK, LocksInv, IntrInv
    <2> QED BY <2>2, <2>3, Zenon DEF IInv
  <1>2. ASSUME NEW c \in CPUs \ parked, scheduler(c), UNCHANGED <<apicid, rebootVars>>
        PROVE  IInv'
    BY <1>2, scheduler_stiInv, scheduler_acquireInv, scheduler_releaseInv, scheduler_runInv, Zenon
       DEF scheduler, rebootVars, Env
  <1>3. ASSUME NEW c \in CPUs \ parked, NEW p \in Procs, Step(c, p),
               UNCHANGED <<apicid, rebootVars>>
        PROVE  IInv'
    <2> USE <1>3 DEF Env, rebootVars
    <2>1. CASE forkret(c, p) \/ timer(c, p) \/ yield(c, p) \/ yield_sched(c, p) \/ yield_resume(c, p)
      BY <2>1, forkretInv, timerInv, yieldInv, yield_schedInv, yield_resumeInv, Zenon
    <2>2. CASE enter(c, p) \/ consume(c, p) \/ sleep(c, p) \/ sleep_acquire(c, p) \/ sleep_release(c, p)
      BY <2>2, enterInv, consumeInv, sleepInv, sleep_acquireInv, sleep_releaseInv, Zenon
    <2>3. CASE sleep_sched(c, p) \/ sleep_resume(c, p) \/ put(c, p)
      BY <2>3, sleep_schedInv, sleep_resumeInv, putInv, Zenon
    <2>4. CASE wakeup_acquire(c, p) \/ wakeup1(c, p) \/ leave(c, p)
      BY <2>4, wakeup_acquireInv, wakeup1Inv, leaveInv, Zenon
    <2> QED BY <2>1, <2>2, <2>3, <2>4, Zenon DEF Step
  <1>4. ASSUME NEW c \in CPUs \ parked, RebootStep(c), UNCHANGED apicid
        PROVE  IInv'
    BY <1>4, haltInv, reboot_prepare_cpusInv, all_ackedInv, timed_outInv, resetInv, Zenon DEF RebootStep
  <1> QED BY <1>1, <1>2, <1>3, <1>4, Zenon DEF Next

\* The invariant of the scheduler: who holds each lock, who runs, when
\* interrupts are on and who may be asleep follow from where the CPUs stand.
THEOREM SchedInvariant == Spec => []IInv
  BY InitIInv, NextIInv, PTL DEF Spec

\* cpu->ncli never exceeds the two locks of the model, and the other types.
THEOREM SchedTypes == Spec => []TypeOK
  <1>1. IInv => TypeOK
    BY Zenon DEF IInv
  <1> QED BY <1>1, SchedInvariant, PTL

\* No panic of acquire, release, popcli or sched, on any number of CPUs.
THEOREM SchedNoPanic == Spec => []NoPanic
  <1>1. IInv => NoPanic
    <2> SUFFICES ASSUME IInv, NEW c \in CPUs, NEW p \in Procs, cur[c] = p
                 PROVE  /\ pc[p] \in DOMAIN Releasing => Holding(c, Releasing[pc[p]]) /\ ~iflag[c]
                        /\ pc[p] \in DOMAIN Acquiring => ~Holding(c, Acquiring[pc[p]])
                        /\ pc[p] \in {"yield_set", "sleep_set"} =>
                             Holding(c, "pt") /\ ncli[c] = 1 /\ ~iflag[c]
      BY Zenon DEF NoPanic
    <2>1. Where(c) = pc[p]
      BY SchedAssumption, ZenonT(60) DEF Where
    <2>2. /\ holder["pt"] = c <=> pc[p] \in PtPoints
          /\ holder["lk"] = c <=> pc[p] \in LkPoints
          /\ ncli[c] = (IF holder["pt"] = c THEN 1 ELSE 0) + (IF holder["lk"] = c THEN 1 ELSE 0)
          /\ iflag[c] => holder["pt"] # c /\ holder["lk"] # c
      BY <2>1, SMTT(30), Z3T(30) DEF IInv, LocksInv, IntrInv
    <2>3. pc[p] \in DOMAIN Releasing => Holding(c, Releasing[pc[p]]) /\ ~iflag[c]
      BY <2>2, SMTT(30), Z3T(30) DEF Releasing, Holding, PtPoints, LkPoints
    <2>4. pc[p] \in DOMAIN Acquiring => ~Holding(c, Acquiring[pc[p]])
      BY <2>2, SMTT(30), Z3T(30) DEF Acquiring, Holding, PtPoints, LkPoints
    <2>5. pc[p] \in {"yield_set", "sleep_set"} => Holding(c, "pt") /\ ncli[c] = 1 /\ ~iflag[c]
      BY <2>2, SMTT(30), Z3T(30) DEF Holding, PtPoints, LkPoints
    <2> QED BY <2>3, <2>4, <2>5, Zenon
  <1> QED BY <1>1, SchedInvariant, PTL

\* A process executes on at most one CPU and its state says so.
THEOREM SchedOneCPU == Spec => []OneCPUPerProcess
  <1>1. IInv => OneCPUPerProcess
    BY SchedAssumption, SMTT(30), Z3T(30) DEF IInv, RunInv, OneCPUPerProcess
  <1> QED BY <1>1, SchedInvariant, PTL

\* sleep misses no wakeup, whatever the number of sleepers and CPUs.
THEOREM SchedNoLostWakeup == Spec => []NoLostWakeup
  <1>1. IInv => NoLostWakeup
    BY Zenon DEF IInv, WakeInv
  <1> QED BY <1>1, SchedInvariant, PTL

\* pushcli and popcli restore the interrupt flag across swtch.
THEOREM SchedInterrupts == Spec => []InterruptsRestored
  <1>1. IInv => InterruptsRestored
    <2> SUFFICES ASSUME IInv PROVE InterruptsRestored
      OBVIOUS
    <2>1. ASSUME NEW c \in CPUs \ parked, NEW p \in Procs, cur[c] = p, pc[p] \in {"user", "again"}
          PROVE  iflag[c]
      BY <2>1, SchedAssumption, ZenonT(60) DEF IInv, IntrInv, Where
    <2>2. ASSUME NEW c \in CPUs, NEW l \in Locks, holder[l] = c
          PROVE  ~iflag[c] /\ ncli[c] > 0
      BY <2>2, SMTT(30), Z3T(30) DEF IInv, IntrInv, LocksInv, Locks
    <2> QED BY <2>1, <2>2, Zenon DEF InterruptsRestored
  <1> QED BY <1>1, SchedInvariant, PTL

\* A CPU that reboot_halt_if_requested has stopped holds no lock.
THEOREM SchedParked == Spec => []ParkedHoldsNothing
  <1>1. IInv => ParkedHoldsNothing
    BY Zenon DEF IInv, IntrInv, ParkedHoldsNothing, Locks
  <1> QED BY <1>1, SchedInvariant, PTL

-----------------------------------------------------------------------------
(* The wait of reboot_prepare_cpus. *)

Callers == {"reboot", "quiet", "timedout"}

\* A CPU that runs nothing but hlt or sys_reboot.
Stopped(d) == d \in parked \/ (cur[d] # None /\ pc[cur[d]] \in Callers)

\* Every acknowledgement is that of a stopped CPU, under its id.
AckInv == \A i \in ack : \E d \in CPUs : apicid[d] = i /\ Stopped(d)

\* A caller past the wait, not by timeout: nobody runs anything else.
QuietInv == \A b \in CPUs, q \in Procs : At(b, q, "quiet") => \A d \in CPUs : Stopped(d)

QInv == IInv /\ AckInv /\ QuietInv

\* As many ids as CPUs: when every index but the caller's id is acknowledged,
\* every CPU is stopped.
LEMMA AllAckedStopsAll ==
  ASSUME TypeOK, AckInv, NEW c \in CPUs, Stopped(c), CPUs \ {apicid[c]} \subseteq ack
  PROVE  \A d \in CPUs : Stopped(d)
  <1> DEFINE S == {d \in CPUs : Stopped(d)}
             T == {apicid[d] : d \in S}
  <1>1. CPUs \subseteq T
    BY Zenon DEF AckInv
  <1>2. IsFiniteSet(S) /\ Cardinality(S) <= Cardinality(CPUs)
    <2>1. S \in SUBSET CPUs
      OBVIOUS
    <2> QED BY <2>1, FS_Subset, SchedAssumption, Zenon
  <1>3. IsFiniteSet(T) /\ Cardinality(T) <= Cardinality(S)
    <2> DEFINE f == [d \in S |-> apicid[d]]
    <2>1. f \in Surjection(S, T)
      BY Zenon DEF Surjection
    <2> QED BY <1>2, <2>1, FS_Surjection, Zenon
  <1>4. Cardinality(CPUs) <= Cardinality(T)
    BY <1>1, <1>3, FS_Subset, Zenon
  <1>5. Cardinality(S) = Cardinality(CPUs)
    <2>1. Cardinality(S) \in Nat /\ Cardinality(T) \in Nat /\ Cardinality(CPUs) \in Nat
      BY <1>2, <1>3, FS_CardinalityType, SchedAssumption, Zenon
    <2> QED BY <1>2, <1>3, <1>4, <2>1, SMTT(30), Z3T(30)
  <1>6. S = CPUs
    <2>1. S \in SUBSET CPUs
      OBVIOUS
    <2> QED BY <1>5, <2>1, FS_Subset, SchedAssumption, Zenon
  <1> QED BY <1>6, Zenon

\* A step of the kernel proper touches only CPU c and its process, which is
\* not in sys_reboot, before or after.
Apart(c, p) ==
  /\ cur[c] \in {p, None} /\ pc[p] \notin Callers /\ pc'[p] \notin Callers
  /\ \A q \in Procs \ {p} : pc'[q] = pc[q]
  /\ \A d \in CPUs \ {c} : cur'[d] = cur[d]

LEMMA StepApart ==
  ASSUME TypeOK, NEW c \in CPUs, NEW p \in Procs, Step(c, p)
  PROVE  Apart(c, p)
  <1> USE DEF TypeOK, At, Goto, Callers, Apart
  <1>1. CASE forkret(c, p) \/ timer(c, p) \/ yield(c, p)
    BY <1>1, SMTT(30), Z3T(30) DEF forkret, timer, yield
  <1>2. CASE yield_sched(c, p) \/ sleep_sched(c, p)
    BY <1>2 DEF yield_sched, sleep_sched, sched
  <1>3. CASE yield_resume(c, p)
    BY <1>3, Zenon DEF yield_resume
  <1>4. CASE enter(c, p) \/ consume(c, p) \/ sleep(c, p)
    BY <1>4, SMTT(30), Z3T(30) DEF enter, consume, sleep
  <1>5. CASE sleep_acquire(c, p) \/ sleep_release(c, p) \/ sleep_resume(c, p)
    BY <1>5 DEF sleep_acquire, sleep_release, sleep_resume
  <1>6. CASE put(c, p) \/ wakeup_acquire(c, p)
    BY <1>6, Zenon DEF put, wakeup_acquire
  <1>7. CASE wakeup1(c, p) \/ leave(c, p)
    BY <1>7, ZenonT(60) DEF wakeup1, leave
  <1> QED BY <1>1, <1>2, <1>3, <1>4, <1>5, <1>6, <1>7, ZenonT(60) DEF Step

\* Such a step starts no CPU that is stopped and makes nobody quiet.
LEMMA ApartQ ==
  ASSUME QInv, NEW c \in CPUs \ parked, NEW p \in Procs, Apart(c, p),
         UNCHANGED <<apicid, rebootVars>>, cur'[c] \in {p, None}
  PROVE  AckInv' /\ QuietInv'
  <1>1. ack' = ack /\ parked' = parked /\ apicid' = apicid
    BY Zenon DEF rebootVars
  <1>2. ~ Stopped(c)
    BY Zenon DEF Stopped, Apart
  <1>3. ASSUME NEW d \in CPUs, Stopped(d) PROVE Stopped(d)'
    <2>1. CASE d \in parked
      BY <1>1, <2>1, Zenon DEF Stopped
    <2>2. CASE cur[d] # None /\ pc[cur[d]] \in Callers
      <3>1. d # c /\ cur[d] \in Procs /\ cur[d] # p
        BY <1>2, <1>3, <2>2, Zenon DEF QInv, IInv, TypeOK, Apart
      <3> QED BY <2>2, <3>1, Zenon DEF Stopped, Apart
    <2> QED BY <1>3, <2>1, <2>2, Zenon DEF Stopped
  <1>4. AckInv'
    BY <1>1, <1>3, Zenon DEF QInv, AckInv
  <1>5. ASSUME NEW b \in CPUs, NEW q \in Procs, At(b, q, "quiet")'
        PROVE  At(b, q, "quiet")
    BY <1>5, SchedAssumption, ZenonT(60) DEF At, Apart, Callers
  <1>6. ASSUME NEW b \in CPUs, NEW q \in Procs, At(b, q, "quiet")', NEW d \in CPUs
        PROVE  Stopped(d)'
    BY <1>3, <1>5, <1>6, Zenon DEF QInv, QuietInv
  <1> QED BY <1>4, <1>6, Zenon DEF QuietInv

\* The steps of sys_reboot and of the CPUs it stops.
LEMMA RebootQ ==
  ASSUME QInv, NEW c \in CPUs \ parked, RebootStep(c), UNCHANGED apicid
  PROVE  AckInv' /\ QuietInv'
  <1> USE DEF QInv
  <1>1. CASE scheduler_halt(c) \/ timer_halt(c)
    <2>1. /\ ack' = ack \cup {apicid[c]} /\ parked' = parked \cup {c}
          /\ cur' = cur /\ pc' = pc
      BY <1>1, Zenon DEF scheduler_halt, timer_halt, reboot_halt, mainVars
    <2>2. \A d \in CPUs : Stopped(d) => Stopped(d)'
      BY <2>1, Zenon DEF Stopped
    <2>3. Stopped(c)'
      BY <2>1, Zenon DEF Stopped
    <2>4. AckInv'
      BY <2>1, <2>2, <2>3, Zenon DEF AckInv
    <2>5. QuietInv'
      BY <2>1, <2>2, Zenon DEF QuietInv, At
    <2> QED BY <2>4, <2>5, Zenon
  <1>2. ASSUME NEW p \in Procs, reboot_prepare_cpus(c, p)
        PROVE  AckInv' /\ QuietInv'
    <2>1. /\ ack' = {apicid[c]} /\ parked' = parked /\ cur' = cur
          /\ pc' = [pc EXCEPT ![p] = "reboot"] /\ cur[c] = p /\ pc[p] = "user" /\ p # None
      BY <1>2, SchedAssumption, Zenon DEF reboot_prepare_cpus, mainVars, At, Goto
    <2>2. Stopped(c)' /\ ~ Stopped(c)
      BY <2>1, Zenon DEF Stopped, Callers, IInv, TypeOK
    <2>3. AckInv'
      BY <2>1, <2>2, Zenon DEF AckInv
    <2>4. QuietInv'
      BY <2>1, <2>2, ZenonT(60) DEF QuietInv, At, IInv, TypeOK
    <2> QED BY <2>3, <2>4, Zenon
  <1>3. ASSUME NEW p \in Procs, all_acked(c, p) \/ timed_out(c, p)
        PROVE  AckInv' /\ QuietInv'
    <2>1. /\ ack' = ack /\ parked' = parked /\ cur' = cur
          /\ \/ pc' = [pc EXCEPT ![p] = "quiet"] /\ all_acked(c, p)
             \/ pc' = [pc EXCEPT ![p] = "timedout"]
          /\ cur[c] = p /\ pc[p] = "reboot" /\ p # None
      BY <1>3, SchedAssumption, Zenon DEF all_acked, timed_out, mainVars, rebootVars, At, Goto
    <2>2. \A d \in CPUs : Stopped(d) => Stopped(d)'
      BY <2>1, SMT, Z3, SMTT(20) DEF Stopped, Callers, IInv, TypeOK
    <2>3. AckInv'
      BY <2>1, <2>2, ZenonT(60) DEF AckInv
    <2>4. Stopped(c)
      BY <2>1, Zenon DEF Stopped, Callers
    <2>5. all_acked(c, p) => \A d \in CPUs : Stopped(d)
      BY <2>4, AllAckedStopsAll, ZenonT(60) DEF all_acked, IInv
    <2>6. QuietInv'
      BY <2>1, <2>2, <2>5, SMT, Z3, SMTT(20) DEF QuietInv, At, IInv, TypeOK
    <2> QED BY <2>3, <2>6, Zenon
  <1>4. ASSUME NEW p \in Procs, reset(c, p)
        PROVE  AckInv' /\ QuietInv'
    BY <1>4, SchedAssumption, ZenonT(60) DEF reset, AckInv, QuietInv, At
  <1> QED BY <1>1, <1>2, <1>3, <1>4, Zenon DEF RebootStep

LEMMA QInvStep == QInv /\ [Next]_vars => QInv'
  <1> SUFFICES ASSUME QInv, [Next]_vars PROVE QInv'
    OBVIOUS
  <1>0. IInv'
    BY NextIInv, Zenon DEF QInv
  <1> SUFFICES AckInv' /\ QuietInv'
    BY <1>0, Zenon DEF QInv
  <1>1. CASE UNCHANGED vars
    <2>1. ack' = ack /\ apicid' = apicid /\ cur' = cur /\ pc' = pc /\ parked' = parked
      BY <1>1, Zenon DEF vars
    <2> QED BY <2>1, Zenon DEF QInv, QuietInv, AckInv, Stopped, At
  <1>2. ASSUME NEW c \in CPUs \ parked, UNCHANGED <<apicid, rebootVars>>,
               scheduler_sti(c) \/ scheduler_acquire(c) \/ scheduler_release(c)
        PROVE  AckInv' /\ QuietInv'
    <2>1. cur' = cur /\ pc' = pc /\ ack' = ack /\ parked' = parked /\ apicid' = apicid
      BY <1>2, Zenon DEF scheduler_sti, scheduler_acquire, scheduler_release, rebootVars
    <2> QED BY <2>1, ZenonT(60) DEF QInv, QuietInv, AckInv, Stopped, At
  <1>3. ASSUME NEW c \in CPUs \ parked, UNCHANGED <<apicid, rebootVars>>,
               NEW p \in Procs, scheduler_run(c, p)
        PROVE  AckInv' /\ QuietInv'
    <2>1. pc[p] \in OffPoints /\ pc' = pc /\ cur' = [cur EXCEPT ![c] = p] /\ cur[c] = None
      BY <1>3, Zenon DEF scheduler_run, QInv, IInv, RunInv
    <2>2. Apart(c, p) /\ cur'[c] \in {p, None}
      BY <2>1, Zenon DEF Apart, QInv, IInv, TypeOK, OffPoints, Callers
    <2> QED BY <1>3, <2>2, ApartQ, Zenon
  <1>4. ASSUME NEW c \in CPUs \ parked, UNCHANGED <<apicid, rebootVars>>,
               NEW p \in Procs, Step(c, p)
        PROVE  AckInv' /\ QuietInv'
    <2>1. Apart(c, p)
      BY <1>4, StepApart, Zenon DEF QInv, IInv
    <2>2. cur[c] = p /\ cur'[c] \in {cur[c], None}
      <3> USE DEF At, QInv, IInv, TypeOK
      <3>1. CASE yield_sched(c, p) \/ sleep_sched(c, p)
        BY <3>1, Zenon DEF yield_sched, sleep_sched, sched
      <3>2. CASE forkret(c, p) \/ timer(c, p) \/ yield(c, p) \/ yield_resume(c, p)
        BY <3>2, Zenon DEF forkret, timer, yield, yield_resume
      <3>3. CASE enter(c, p) \/ consume(c, p) \/ sleep(c, p) \/ sleep_acquire(c, p)
        BY <3>3, Zenon DEF enter, consume, sleep, sleep_acquire
      <3>4. CASE sleep_release(c, p) \/ sleep_resume(c, p) \/ put(c, p)
        BY <3>4, Zenon DEF sleep_release, sleep_resume, put
      <3>5. CASE wakeup_acquire(c, p) \/ wakeup1(c, p) \/ leave(c, p)
        BY <3>5, Zenon DEF wakeup_acquire, wakeup1, leave
      <3> QED BY <1>4, <3>1, <3>2, <3>3, <3>4, <3>5, ZenonT(60) DEF Step
    <2> QED BY <1>4, <2>1, <2>2, ApartQ, Zenon
  <1>5. ASSUME NEW c \in CPUs \ parked, RebootStep(c), UNCHANGED apicid
        PROVE  AckInv' /\ QuietInv'
    BY <1>5, RebootQ, Zenon
  <1> QED BY <1>1, <1>2, <1>3, <1>4, <1>5, Zenon DEF Next, scheduler

\* A reboot caller whose wait did not time out resets a machine on which every
\* other CPU is stopped, for any number of CPUs and any numbering of them.
THEOREM SchedQuietReset == Spec => []QuietReset
  <1>1. Init => QInv
    BY InitIInv, SchedAssumption, Zenon DEF Init, QInv, QuietInv, AckInv, At
  <1>2. QInv => QuietReset
    <2> SUFFICES ASSUME QInv, NEW c \in CPUs, NEW p \in Procs, At(c, p, "quiet"),
                        NEW d \in CPUs \ {c}, d \notin parked
                 PROVE  \E q \in Procs : cur[d] = q /\ pc[q] \in {"reboot", "quiet", "timedout"}
      BY Zenon DEF QuietReset
    <2>1. cur[d] # None /\ pc[cur[d]] \in Callers /\ cur[d] \in Procs
      BY Zenon DEF QInv, QuietInv, Stopped, IInv, TypeOK
    <2> QED BY <2>1, Zenon DEF Callers
  <1> QED BY <1>1, <1>2, QInvStep, PTL DEF Spec

\* Locks, current processes and interrupt flags stay in step, on any number of
\* CPUs.
THEOREM SchedCriticalSections == Spec => []CriticalSections
  BY SchedTypes, SchedNoPanic, SchedOneCPU, SchedInterrupts, PTL DEF CriticalSections

\* reboot_prepare_cpus stops CPUs where they hold no lock, and a caller that did
\* not time out is the last one running.
THEOREM SchedCleanReset == Spec => []CleanReset
  BY SchedParked, SchedQuietReset, PTL DEF CleanReset
=============================================================================
