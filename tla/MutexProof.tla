----------------------------- MODULE MutexProof -----------------------------
(***************************************************************************)
(* TLAPS proofs about Mutex, for any CPUs and processes.                   *)
(***************************************************************************)
EXTENDS Mutex, TLAPS

LEMMA NoneIsNoCPU == None \notin CPUs
  BY NoSetContainsEverything DEF None

\* A call has found out a CPU, and mutex_unlock has a section to end.
ArgsInv ==
  \A p \in Procs :
    /\ pc[p] \in {"read", "test", "held", "lock"} => cpuid[p] \in CPUs
    /\ pc[p] \in {"read", "test", "held"} /\ op[p] = "unlock" => level[p] > 0

\* A CPU runs one process; a sleeper has slept in its outermost section, which
\* its entry then need not count.
CallsInv ==
  /\ \A p, q \in Procs : on[p] = on[q] /\ on[p] # None => p = q
  /\ \A p \in Procs : pc[p] = "asleep" => on[p] = None /\ level[p] = 1 /\ entry[p] # "own"
  /\ \A p \in Procs : pc[p] = "held" => on[p] # None /\ holder = on[p]

\* The process of the CPU that holds the mutex is not moved, so that its calls
\* find out and read that CPU.
ReadsInv ==
  \A p \in Procs : on[p] # None /\ holder = on[p] =>
    /\ pc[p] \in {"run", "read", "test", "held"}
    /\ pc[p] \in {"read", "test", "held"} => cpuid[p] = on[p]
    /\ pc[p] = "test" => seen[p] = on[p]

\* The entry of the CPU that holds the mutex never counts more sections than
\* its process is in; any other entry counts at most one.
DepthInv ==
  /\ \A p \in Procs : on[p] # None /\ holder = on[p] =>
       /\ level[p] > 0 /\ depth[on[p]] <= level[p]
       /\ entry[p] = "own" => depth[on[p]] = level[p]
  /\ \A c \in CPUs : holder # c => depth[c] <= 1

IInv ==
  /\ TypeOK /\ ArgsInv /\ PanicAfterLoss
  /\ ~misled => CallsInv /\ ReadsInv /\ DepthInv /\ HeldInside /\ HolderInside

LEMMA InitIInv == Init => IInv
  <1> SUFFICES ASSUME Init PROVE IInv
    OBVIOUS
  <1>1. TypeOK /\ ArgsInv
    BY DEF Init, TypeOK, ArgsInv
  <1>2. CallsInv /\ ReadsInv /\ DepthInv
    BY NoneIsNoCPU DEF Init, CallsInv, ReadsInv, DepthInv
  <1>3. HeldInside /\ HolderInside
    BY NoneIsNoCPU DEF Init, HeldInside, HolderInside, Inside
  <1>4. PanicAfterLoss
    BY DEF Init, PanicAfterLoss
  <1> QED BY <1>1, <1>2, <1>3, <1>4 DEF IInv

LEMMA schedulerInv ==
  ASSUME IInv, ~panicked, NEW p \in Procs, NEW c \in CPUs, scheduler(p, c)
  PROVE  IInv'
  <1> USE NoneIsNoCPU DEF scheduler, Idle, caller
  <1>1. TypeOK' /\ ArgsInv'
    <2>1. TypeOK /\ ArgsInv
      BY DEF IInv
    <2>2. TypeOK'
      BY <2>1 DEF TypeOK, ArgsInv
    <2>3. ArgsInv'
      BY <2>1 DEF TypeOK, ArgsInv
    <2> QED BY <2>2, <2>3
  <1>2. CASE misled'
    BY <1>1, <1>2 DEF IInv, PanicAfterLoss
  <1>3. CASE ~misled'
    <2>1. ~misled /\ TypeOK /\ ArgsInv /\ CallsInv /\ ReadsInv /\ DepthInv /\ HeldInside /\ HolderInside
      BY <1>3 DEF IInv
    <2>2. CallsInv'
      BY <2>1 DEF TypeOK, ArgsInv, CallsInv, ReadsInv, HolderInside
    <2>3. ReadsInv'
      BY <2>1 DEF TypeOK, ArgsInv, CallsInv, ReadsInv, DepthInv, HolderInside
    <2>4. DepthInv'
      BY <2>1 DEF TypeOK, ArgsInv, CallsInv, ReadsInv, DepthInv, HolderInside
    <2>5. HeldInside'
      BY <2>1 DEF TypeOK, ArgsInv, CallsInv, ReadsInv, DepthInv, HeldInside, Inside
    <2>6. HolderInside'
      BY <2>1 DEF TypeOK, ArgsInv, CallsInv, ReadsInv, DepthInv, HolderInside, Inside
    <2>7. PanicAfterLoss'
      BY <2>1, <1>3 DEF IInv, PanicAfterLoss
    <2> QED BY <1>1, <2>2, <2>3, <2>4, <2>5, <2>6, <2>7 DEF IInv
  <1> QED BY <1>2, <1>3

LEMMA yieldInv ==
  ASSUME IInv, ~panicked, NEW p \in Procs, NEW c \in CPUs, yield(p, c)
  PROVE  IInv'
  <1> USE NoneIsNoCPU DEF yield, caller
  <1>1. TypeOK' /\ ArgsInv'
    <2>1. TypeOK /\ ArgsInv
      BY DEF IInv
    <2>2. TypeOK'
      BY <2>1 DEF TypeOK, ArgsInv
    <2>3. ArgsInv'
      BY <2>1 DEF TypeOK, ArgsInv
    <2> QED BY <2>2, <2>3
  <1>2. CASE misled'
    BY <1>1, <1>2 DEF IInv, PanicAfterLoss
  <1>3. CASE ~misled'
    <2>1. ~misled /\ TypeOK /\ ArgsInv /\ CallsInv /\ ReadsInv /\ DepthInv /\ HeldInside /\ HolderInside
      BY <1>3 DEF IInv
    <2>2. CallsInv'
      BY <2>1 DEF TypeOK, ArgsInv, CallsInv, ReadsInv, HolderInside
    <2>3. ReadsInv'
      BY <2>1 DEF TypeOK, ArgsInv, CallsInv, ReadsInv, DepthInv, HolderInside
    <2>4. DepthInv'
      BY <2>1 DEF TypeOK, ArgsInv, CallsInv, ReadsInv, DepthInv, HolderInside
    <2>5. HeldInside'
      BY <2>1 DEF TypeOK, ArgsInv, CallsInv, ReadsInv, DepthInv, HeldInside, Inside
    <2>6. HolderInside'
      BY <2>1 DEF TypeOK, ArgsInv, CallsInv, ReadsInv, DepthInv, HolderInside, Inside
    <2>7. PanicAfterLoss'
      BY <2>1, <1>3 DEF IInv, PanicAfterLoss
    <2> QED BY <1>1, <2>2, <2>3, <2>4, <2>5, <2>6, <2>7 DEF IInv
  <1> QED BY <1>2, <1>3

LEMMA mtx_current_cpuInv ==
  ASSUME IInv, ~panicked, NEW p \in Procs, NEW c \in CPUs, NEW o \in {"lock", "unlock"},
         mtx_current_cpu(p, c, o)
  PROVE  IInv'
  <1> USE NoneIsNoCPU DEF mtx_current_cpu, Goto
  <1>1. TypeOK' /\ ArgsInv'
    <2>1. TypeOK /\ ArgsInv
      BY DEF IInv
    <2>2. TypeOK'
      BY <2>1 DEF TypeOK, ArgsInv
    <2>3. ArgsInv'
      BY <2>1 DEF TypeOK, ArgsInv
    <2> QED BY <2>2, <2>3
  <1>2. CASE misled'
    BY <1>1, <1>2 DEF IInv, PanicAfterLoss
  <1>3. CASE ~misled'
    <2>1. ~misled /\ TypeOK /\ ArgsInv /\ CallsInv /\ ReadsInv /\ DepthInv /\ HeldInside /\ HolderInside
      BY <1>3 DEF IInv
    <2>2. CallsInv'
      BY <2>1 DEF TypeOK, ArgsInv, CallsInv, ReadsInv, HolderInside
    <2>3. ReadsInv'
      BY <2>1 DEF TypeOK, ArgsInv, CallsInv, ReadsInv, DepthInv, HolderInside
    <2>4. DepthInv'
      BY <2>1 DEF TypeOK, ArgsInv, CallsInv, ReadsInv, DepthInv, HolderInside
    <2>5. HeldInside'
      BY <2>1 DEF TypeOK, ArgsInv, CallsInv, ReadsInv, DepthInv, HeldInside, Inside
    <2>6. HolderInside'
      BY <2>1 DEF TypeOK, ArgsInv, CallsInv, ReadsInv, DepthInv, HolderInside, Inside
    <2>7. PanicAfterLoss'
      BY <2>1, <1>3 DEF IInv, PanicAfterLoss
    <2> QED BY <1>1, <2>2, <2>3, <2>4, <2>5, <2>6, <2>7 DEF IInv
  <1> QED BY <1>2, <1>3

LEMMA holding_readInv ==
  ASSUME IInv, ~panicked, NEW p \in Procs, NEW c \in CPUs, holding_read(p, c)
  PROVE  IInv'
  <1> USE NoneIsNoCPU DEF holding_read, Goto
  <1>1. TypeOK' /\ ArgsInv'
    <2>1. TypeOK /\ ArgsInv
      BY DEF IInv
    <2>2. TypeOK'
      BY <2>1 DEF TypeOK, ArgsInv
    <2>3. ArgsInv'
      BY <2>1 DEF TypeOK, ArgsInv
    <2> QED BY <2>2, <2>3
  <1>2. CASE misled'
    BY <1>1, <1>2 DEF IInv, PanicAfterLoss
  <1>3. CASE ~misled'
    <2>1. ~misled /\ TypeOK /\ ArgsInv /\ CallsInv /\ ReadsInv /\ DepthInv /\ HeldInside /\ HolderInside
      BY <1>3 DEF IInv
    <2>2. CallsInv'
      BY <2>1 DEF TypeOK, ArgsInv, CallsInv, ReadsInv, HolderInside
    <2>3. ReadsInv'
      BY <2>1 DEF TypeOK, ArgsInv, CallsInv, ReadsInv, DepthInv, HolderInside
    <2>4. DepthInv'
      BY <2>1 DEF TypeOK, ArgsInv, CallsInv, ReadsInv, DepthInv, HolderInside
    <2>5. HeldInside'
      BY <2>1 DEF TypeOK, ArgsInv, CallsInv, ReadsInv, DepthInv, HeldInside, Inside
    <2>6. HolderInside'
      BY <2>1 DEF TypeOK, ArgsInv, CallsInv, ReadsInv, DepthInv, HolderInside, Inside
    <2>7. PanicAfterLoss'
      BY <2>1, <1>3 DEF IInv, PanicAfterLoss
    <2> QED BY <1>1, <2>2, <2>3, <2>4, <2>5, <2>6, <2>7 DEF IInv
  <1> QED BY <1>2, <1>3

LEMMA holdingInv ==
  ASSUME IInv, ~panicked, NEW p \in Procs, NEW c \in CPUs, holding(p, c)
  PROVE  IInv'
  <1> USE NoneIsNoCPU DEF holding, Goto
  <1>1. TypeOK' /\ ArgsInv'
    <2>1. TypeOK /\ ArgsInv
      BY DEF IInv
    <2>2. TypeOK'
      BY <2>1 DEF TypeOK, ArgsInv
    <2>3. ArgsInv'
      BY <2>1 DEF TypeOK, ArgsInv
    <2> QED BY <2>2, <2>3
  <1>2. CASE misled'
    BY <1>1, <1>2 DEF IInv, PanicAfterLoss
  <1>3. CASE ~misled'
    <2>1. ~misled /\ TypeOK /\ ArgsInv /\ CallsInv /\ ReadsInv /\ DepthInv /\ HeldInside /\ HolderInside
      BY <1>3 DEF IInv
    <2>2. CallsInv'
      <3>1. holder = c
        BY <1>3, Zenon
      <3> QED BY <2>1, <3>1 DEF TypeOK, CallsInv
    <2>3. ReadsInv'
      BY <2>1 DEF TypeOK, ArgsInv, CallsInv, ReadsInv, DepthInv, HolderInside
    <2>4. DepthInv'
      BY <2>1 DEF TypeOK, ArgsInv, CallsInv, ReadsInv, DepthInv, HolderInside
    <2>5. HeldInside'
      BY <2>1 DEF TypeOK, ArgsInv, CallsInv, ReadsInv, DepthInv, HeldInside, Inside
    <2>6. HolderInside'
      BY <2>1 DEF TypeOK, ArgsInv, CallsInv, ReadsInv, DepthInv, HolderInside, Inside
    <2>7. PanicAfterLoss'
      BY <2>1, <1>3 DEF IInv, PanicAfterLoss
    <2> QED BY <1>1, <2>2, <2>3, <2>4, <2>5, <2>6, <2>7 DEF IInv
  <1> QED BY <1>2, <1>3

LEMMA holding_notInv ==
  ASSUME IInv, ~panicked, NEW p \in Procs, NEW c \in CPUs, holding_not(p, c)
  PROVE  IInv'
  <1> USE NoneIsNoCPU DEF holding_not, Goto, Ends
  <1>1. TypeOK' /\ ArgsInv'
    <2>1. TypeOK /\ ArgsInv
      BY DEF IInv
    <2>2. TypeOK'
      BY <2>1 DEF TypeOK, ArgsInv
    <2>3. ArgsInv'
      BY <2>1 DEF TypeOK, ArgsInv
    <2> QED BY <2>2, <2>3
  <1>2. CASE misled'
    BY <1>1, <1>2 DEF IInv, PanicAfterLoss
  <1>3. CASE ~misled'
    <2>1. ~misled /\ TypeOK /\ ArgsInv /\ CallsInv /\ ReadsInv /\ DepthInv /\ HeldInside /\ HolderInside
      BY <1>3 DEF IInv
    <2>2. CallsInv'
      BY <2>1 DEF TypeOK, ArgsInv, CallsInv, ReadsInv, HolderInside
    <2>3. ReadsInv'
      BY <2>1 DEF TypeOK, ArgsInv, CallsInv, ReadsInv, DepthInv, HolderInside
    <2>4. DepthInv'
      BY <2>1 DEF TypeOK, ArgsInv, CallsInv, ReadsInv, DepthInv, HolderInside
    <2>5. HeldInside'
      BY <2>1 DEF TypeOK, ArgsInv, CallsInv, ReadsInv, DepthInv, HeldInside, Inside
    <2>6. HolderInside'
      BY <2>1 DEF TypeOK, ArgsInv, CallsInv, ReadsInv, DepthInv, HolderInside, Inside
    <2>7. PanicAfterLoss'
      BY <2>1, <1>3 DEF IInv, PanicAfterLoss
    <2> QED BY <1>1, <2>2, <2>3, <2>4, <2>5, <2>6, <2>7 DEF IInv
  <1> QED BY <1>2, <1>3

LEMMA mutex_lock_nestedInv ==
  ASSUME IInv, ~panicked, NEW p \in Procs, NEW c \in CPUs, mutex_lock_nested(p, c)
  PROVE  IInv'
  <1> USE NoneIsNoCPU DEF mutex_lock_nested, Goto
  <1>1. TypeOK' /\ ArgsInv'
    <2>1. TypeOK /\ ArgsInv
      BY DEF IInv
    <2>2. TypeOK'
      BY <2>1 DEF TypeOK, ArgsInv
    <2>3. ArgsInv'
      BY <2>1 DEF TypeOK, ArgsInv
    <2> QED BY <2>2, <2>3
  <1>2. CASE misled'
    BY <1>1, <1>2 DEF IInv, PanicAfterLoss
  <1>3. CASE ~misled'
    <2>1. ~misled /\ TypeOK /\ ArgsInv /\ CallsInv /\ ReadsInv /\ DepthInv /\ HeldInside /\ HolderInside
      BY <1>3 DEF IInv
    <2>2. CallsInv'
      BY <2>1 DEF TypeOK, ArgsInv, CallsInv, ReadsInv, HolderInside
    <2>3. ReadsInv'
      BY <2>1 DEF TypeOK, ArgsInv, CallsInv, ReadsInv, DepthInv, HolderInside
    <2>4. DepthInv'
      BY <2>1 DEF TypeOK, ArgsInv, CallsInv, ReadsInv, DepthInv, HolderInside
    <2>5. HeldInside'
      BY <2>1 DEF TypeOK, ArgsInv, CallsInv, ReadsInv, DepthInv, HeldInside, Inside
    <2>6. HolderInside'
      BY <2>1 DEF TypeOK, ArgsInv, CallsInv, ReadsInv, DepthInv, HolderInside, Inside
    <2>7. PanicAfterLoss'
      BY <2>1, <1>3 DEF IInv, PanicAfterLoss
    <2> QED BY <1>1, <2>2, <2>3, <2>4, <2>5, <2>6, <2>7 DEF IInv
  <1> QED BY <1>2, <1>3

LEMMA mutex_lockInv ==
  ASSUME IInv, ~panicked, NEW p \in Procs, NEW c \in CPUs, mutex_lock(p, c)
  PROVE  IInv'
  <1> USE NoneIsNoCPU DEF mutex_lock, Goto
  <1>1. TypeOK' /\ ArgsInv'
    <2>1. TypeOK /\ ArgsInv
      BY DEF IInv
    <2>2. TypeOK'
      BY <2>1 DEF TypeOK, ArgsInv
    <2>3. ArgsInv'
      BY <2>1 DEF TypeOK, ArgsInv
    <2> QED BY <2>2, <2>3
  <1>2. CASE misled'
    BY <1>1, <1>2 DEF IInv, PanicAfterLoss
  <1>3. CASE ~misled'
    <2>1. ~misled /\ TypeOK /\ ArgsInv /\ CallsInv /\ ReadsInv /\ DepthInv /\ HeldInside /\ HolderInside
      BY <1>3 DEF IInv
    <2>2. CallsInv'
      BY <2>1 DEF TypeOK, ArgsInv, CallsInv, ReadsInv, HolderInside
    <2>3. ReadsInv'
      BY <2>1 DEF TypeOK, ArgsInv, CallsInv, ReadsInv, DepthInv, HolderInside
    <2>4. DepthInv'
      <3>1. cpuid[p] \in CPUs /\ \A d \in CPUs : depth'[d] <= 1
        BY <2>1 DEF TypeOK, ArgsInv, DepthInv
      <3>2. \A q \in Procs : on'[q] = c => q = p
        BY <2>1 DEF CallsInv
      <3>3. level[p] > 0 => entry[p] = "ended"
        BY <2>1 DEF HeldInside, Inside, TypeOK
      <3>4. level'[p] = level[p] + 1 /\ level[p] \in Nat
        BY <2>1 DEF TypeOK
      <3>5. entry'[p] = "own" => depth'[c] = level'[p]
        BY <2>1, <3>1, <3>3, <3>4 DEF TypeOK
      <3>6. level'[p] > 0 /\ depth'[c] <= level'[p]
        BY <1>1, <3>1, <3>4 DEF TypeOK
      <3> QED BY <2>1, <3>1, <3>2, <3>5, <3>6 DEF DepthInv, TypeOK
    <2>5. HeldInside'
      BY <2>1 DEF TypeOK, ArgsInv, CallsInv, ReadsInv, DepthInv, HeldInside, Inside
    <2>6. HolderInside'
      BY <2>1 DEF TypeOK, ArgsInv, CallsInv, ReadsInv, DepthInv, HolderInside, Inside
    <2>7. PanicAfterLoss'
      BY <2>1, <1>3 DEF IInv, PanicAfterLoss
    <2> QED BY <1>1, <2>2, <2>3, <2>4, <2>5, <2>6, <2>7 DEF IInv
  <1> QED BY <1>2, <1>3

LEMMA mutex_unlockInv ==
  ASSUME IInv, ~panicked, NEW p \in Procs, NEW c \in CPUs, mutex_unlock(p, c)
  PROVE  IInv'
  <1> USE NoneIsNoCPU DEF mutex_unlock, Goto, Ends
  <1>1. TypeOK' /\ ArgsInv'
    <2>1. TypeOK /\ ArgsInv
      BY DEF IInv
    <2>2. TypeOK'
      <3>1. cpuid[p] \in CPUs /\ level[p] > 0 /\ level[p] \in Nat /\ depth[cpuid[p]] \in Nat
        BY <2>1 DEF TypeOK, ArgsInv
      <3>2. depth' \in [CPUs -> Nat] /\ level' \in [Procs -> Nat]
        BY <2>1, <3>1 DEF TypeOK
      <3>3. holder' \in CPUs \cup {None} /\ entry' \in [Procs -> {"own", "stray", "ended"}]
        BY <2>1 DEF TypeOK
      <3>4. panicked' \in BOOLEAN
        BY <2>1, Zenon DEF TypeOK
      <3>5. pc' \in [Procs -> {"run", "read", "test", "held", "lock", "asleep"}]
        BY <2>1 DEF TypeOK
      <3> QED BY <2>1, <3>2, <3>3, <3>4, <3>5, Zenon DEF TypeOK
    <2>3. ArgsInv'
      BY <2>1 DEF TypeOK, ArgsInv
    <2> QED BY <2>2, <2>3
  <1>2. CASE misled'
    BY <1>1, <1>2 DEF IInv, PanicAfterLoss
  <1>3. CASE ~misled'
    <2>1. ~misled /\ TypeOK /\ ArgsInv /\ CallsInv /\ ReadsInv /\ DepthInv /\ HeldInside /\ HolderInside
      BY <1>3 DEF IInv
    <2>2. CallsInv'
      BY <2>1 DEF TypeOK, ArgsInv, CallsInv, ReadsInv, HolderInside
    <2>3. ReadsInv'
      BY <2>1 DEF TypeOK, ArgsInv, CallsInv, ReadsInv, DepthInv, HolderInside
    <2>4. DepthInv'
      BY <2>1 DEF TypeOK, ArgsInv, CallsInv, ReadsInv, DepthInv, HolderInside
    <2>5. HeldInside'
      BY <2>1 DEF TypeOK, ArgsInv, CallsInv, ReadsInv, DepthInv, HeldInside, Inside
    <2>6. HolderInside'
      BY <2>1 DEF TypeOK, ArgsInv, CallsInv, ReadsInv, DepthInv, HolderInside, Inside
    <2>7. PanicAfterLoss'
      <3>1. holder = c
        BY <2>1 DEF CallsInv
      <3>2. ~panicked'
        BY <3>1, Zenon
      <3> QED BY <3>2 DEF PanicAfterLoss
    <2> QED BY <1>1, <2>2, <2>3, <2>4, <2>5, <2>6, <2>7 DEF IInv
  <1> QED BY <1>2, <1>3

LEMMA sched_sleepInv ==
  ASSUME IInv, ~panicked, NEW p \in Procs, NEW c \in CPUs, sched_sleep(p, c)
  PROVE  IInv'
  <1> USE NoneIsNoCPU DEF sched_sleep, Goto
  <1>1. TypeOK' /\ ArgsInv'
    <2>1. TypeOK /\ ArgsInv
      BY DEF IInv
    <2>2. TypeOK'
      BY <2>1 DEF TypeOK, ArgsInv
    <2>3. ArgsInv'
      BY <2>1 DEF TypeOK, ArgsInv
    <2> QED BY <2>2, <2>3
  <1>2. CASE misled'
    BY <1>1, <1>2 DEF IInv, PanicAfterLoss
  <1>3. CASE ~misled'
    <2>1. ~misled /\ TypeOK /\ ArgsInv /\ CallsInv /\ ReadsInv /\ DepthInv /\ HeldInside /\ HolderInside
      BY <1>3 DEF IInv
    <2>2. CallsInv'
      BY <2>1 DEF TypeOK, ArgsInv, CallsInv, ReadsInv, HolderInside
    <2>3. ReadsInv'
      BY <2>1 DEF TypeOK, ArgsInv, CallsInv, ReadsInv, DepthInv, HolderInside
    <2>4. DepthInv'
      BY <2>1 DEF TypeOK, ArgsInv, CallsInv, ReadsInv, DepthInv, HolderInside
    <2>5. HeldInside'
      BY <2>1 DEF TypeOK, ArgsInv, CallsInv, ReadsInv, DepthInv, HeldInside, Inside
    <2>6. HolderInside'
      BY <2>1 DEF TypeOK, ArgsInv, CallsInv, ReadsInv, DepthInv, HolderInside, Inside
    <2>7. PanicAfterLoss'
      <3>1. CASE holder = c
        BY <3>1, Zenon DEF PanicAfterLoss
      <3>2. CASE holder # c
        <4>1. level[p] = 1 /\ entry[p] = "ended"
          BY <2>1, <3>2 DEF HeldInside, Inside
        <4>2. level' = level /\ entry' = entry
          BY <3>2, Zenon
        <4> QED BY <4>1, <4>2 DEF PanicAfterLoss
      <3> QED BY <3>1, <3>2
    <2> QED BY <1>1, <2>2, <2>3, <2>4, <2>5, <2>6, <2>7 DEF IInv
  <1> QED BY <1>2, <1>3

LEMMA sched_sleep_returnInv ==
  ASSUME IInv, ~panicked, NEW p \in Procs, NEW c \in CPUs, sched_sleep_return(p, c)
  PROVE  IInv'
  <1> USE NoneIsNoCPU DEF sched_sleep_return, Goto, Idle
  <1>1. TypeOK' /\ ArgsInv'
    <2>1. TypeOK /\ ArgsInv
      BY DEF IInv
    <2>2. TypeOK'
      BY <2>1 DEF TypeOK, ArgsInv
    <2>3. ArgsInv'
      BY <2>1 DEF TypeOK, ArgsInv
    <2> QED BY <2>2, <2>3
  <1>2. CASE misled'
    BY <1>1, <1>2 DEF IInv, PanicAfterLoss
  <1>3. CASE ~misled'
    <2>1. ~misled /\ TypeOK /\ ArgsInv /\ CallsInv /\ ReadsInv /\ DepthInv /\ HeldInside /\ HolderInside
      BY <1>3 DEF IInv
    <2>2. CallsInv'
      BY <2>1 DEF TypeOK, ArgsInv, CallsInv, ReadsInv, HolderInside
    <2>3. ReadsInv'
      BY <2>1 DEF TypeOK, ArgsInv, CallsInv, ReadsInv, DepthInv, HolderInside
    <2>4. DepthInv'
      BY <2>1 DEF TypeOK, ArgsInv, CallsInv, ReadsInv, DepthInv, HolderInside
    <2>5. HeldInside'
      BY <2>1 DEF TypeOK, ArgsInv, CallsInv, ReadsInv, DepthInv, HeldInside, Inside
    <2>6. HolderInside'
      BY <2>1 DEF TypeOK, ArgsInv, CallsInv, ReadsInv, DepthInv, HolderInside, Inside
    <2>7. PanicAfterLoss'
      BY <2>1, <1>3 DEF IInv, PanicAfterLoss
    <2> QED BY <1>1, <2>2, <2>3, <2>4, <2>5, <2>6, <2>7 DEF IInv
  <1> QED BY <1>2, <1>3

LEMMA NextIInv == IInv /\ [Next]_vars => IInv'
  <1> SUFFICES ASSUME IInv, [Next]_vars PROVE IInv'
    OBVIOUS
  <1>1. CASE UNCHANGED vars
    BY <1>1 DEF vars, caller, IInv, TypeOK, ArgsInv, CallsInv, ReadsInv, DepthInv, HeldInside,
       HolderInside, PanicAfterLoss, Inside
  <1>2. CASE Next
    BY <1>2, schedulerInv, yieldInv, mtx_current_cpuInv, holding_readInv, holdingInv,
       holding_notInv, mutex_lock_nestedInv, mutex_lockInv, mutex_unlockInv, sched_sleepInv,
       sched_sleep_returnInv, Zenon DEF Next
  <1> QED BY <1>1, <1>2

-----------------------------------------------------------------------------
(* The theorems. *)

\* What the entries count and what a caller reads of the lock, as long as
\* holding misled nobody.
THEOREM MutexInvariant == Spec => []IInv
  BY InitIInv, NextIInv, PTL DEF Spec

\* mutex_lock and mutex_unlock keep the mutex for the whole of a section, with
\* the nested sections in it.  The theorem excepts a section that slept, or was
\* moved in mutex_lock, once a nested section in it has ended, and everything
\* after a caller was moved between the two reads of holding and was misled.
THEOREM MutexHeld == Spec => []HeldInside
  <1>1. IInv => HeldInside
    BY DEF IInv, HeldInside
  <1> QED BY <1>1, MutexInvariant, PTL

\* The mutex is always released: whoever holds it is inside a section, as long
\* as holding misled nobody.
THEOREM MutexReleased == Spec => []HolderInside
  <1>1. IInv => HolderInside
    BY DEF IInv, HolderInside
  <1> QED BY <1>1, MutexInvariant, PTL

\* release panics, in sched_sleep or in mutex_unlock, only after holding misled
\* a caller or in a section that lost the mutex where a nested section ended.
THEOREM MutexPanic == Spec => []PanicAfterLoss
  <1>1. IInv => PanicAfterLoss
    BY DEF IInv
  <1> QED BY <1>1, MutexInvariant, PTL
=============================================================================
