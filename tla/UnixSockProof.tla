--------------------------- MODULE UnixSockProof ----------------------------
(***************************************************************************)
(* Proofs about UnixSock, for every number of processes, files, listeners  *)
(* and queue slots.  What is needed of the files is nothing: the arguments *)
(* are about l->lock and about what may be reset without it.               *)
(***************************************************************************)
EXTENDS UnixSock, TLAPS

MAX == USOCK_PENDING_MAX

LockPcs == {"listen", "store", "tail", "up", "take", "head", "down", "drain"}

\* Labels at which a process works on a listener entry.
EntryPcs == LockPcs \cup {"accept", "pipe1", "pipe2", "ep", "push", "free", "clear"}

\* The labels outside l->lock from which a process does not clear a queue, and
\* those of them at which it is not working on an entry.
Away == {"idle", "close", "bad"}
Outside == Away \cup {"accept", "pipe1", "pipe2", "ep", "push", "free"}
Labels == Outside \cup LockPcs \cup {"clear"}

Works == [i : Slots, c : Int, clr : BOOLEAN, n : Nat]

Types ==
  /\ pc \in [Procs -> Labels] /\ lis \in [Procs -> Listeners \cup {None}]
  /\ work \in [Procs -> Works] /\ after \in [Procs -> {"idle", "bad"}]
  /\ asleep \in [Procs -> BOOLEAN]
  /\ used \in [Listeners -> BOOLEAN] /\ listening \in [Listeners -> BOOLEAN]
  /\ backlog \in [Listeners -> 0 .. MAX] /\ cnt \in [Listeners -> -1 .. MAX]
  /\ head \in [Listeners -> Slots] /\ tail \in [Listeners -> Slots]

\* l->lock excludes: two processes at labels under the lock are at different
\* entries.
Exclusive ==
  \A p, q \in Procs : pc[p] \in LockPcs /\ pc[q] \in LockPcs /\ lis[p] = lis[q] => p = q

\* What the holder of l->lock knows about cnt, which only a reset to 0 can
\* change under it, and about the values it has read: there is room for what
\* connect has tested, something to take for accept and clear, and what clear
\* has collected and what is left fit the array.
Knows(p) ==
  LET c == cnt[lis[p]]  w == work[p] IN
  /\ pc[p] \in EntryPcs => lis[p] \in Listeners
  /\ w.clr => pc[p] \in {"take", "head", "down", "drain"}
  /\ ~w.clr => w.n = 0 /\ pc[p] # "drain"
  /\ w.n <= MAX
  /\ pc[p] \in {"store", "tail"} => c <= MAX - 1
  /\ pc[p] = "up" => c <= MAX - 1 /\ w.c \in -1 .. MAX - 1
  /\ pc[p] \in {"take", "head", "down"} => c >= 0 /\ w.n + c <= MAX /\ w.n < MAX
  /\ pc[p] = "down" => w.c >= 0 /\ w.n + w.c <= MAX
  /\ pc[p] = "drain" => w.n + c <= MAX

\* Nobody sleeps on an entry from which accept is taking an endpoint, unless
\* a close will wake it.
Takers ==
  \A p, q \in Procs :
    asleep[p] /\ pc[q] \in {"take", "head", "down"} /\ lis[q] = lis[p] => Clearing(lis[p])

\* A process sleeps in accept only.
Sleepers == \A p \in Procs : asleep[p] => pc[p] = "accept"

IInv ==
  /\ Types /\ Exclusive /\ Sleepers /\ \A p \in Procs : Knows(p)
  /\ AcceptorsBlocked /\ Takers

-----------------------------------------------------------------------------
(* What a step of p leaves alone. *)

Clears(q) == pc[q] \in {"clear", "drain"} \/ (pc[q] \in {"take", "head", "down"} /\ work[q].clr)

\* The other processes stay where they are.
Moves(p) == \A q \in Procs : q # p => pc'[q] = pc[q] /\ lis'[q] = lis[q] /\ work'[q] = work[q]

\* p is under l->lock after the step only if it was before, or the lock is free.
Acquires(p) ==
  pc'[p] \in LockPcs => (pc[p] \in LockPcs /\ lis'[p] = lis[p]) \/ ~Locked(lis'[p])

\* Whatever can be under way on an entry other than a close by p still is.
LEMMA StillClearing ==
  ASSUME NEW p \in Procs, NEW l, Moves(p), Clearing(l),
         Clears(p) /\ lis[p] = l => Clears(p)' /\ lis'[p] = l
  PROVE  Clearing(l)'
  <1>1. PICK q \in Procs : lis[q] = l /\ Clears(q)
    BY Zenon DEF Clearing, Clears
  <1>2. lis'[q] = l /\ Clears(q)'
    <2>1. CASE q = p
      BY <1>1, <2>1, Zenon
    <2>2. CASE q # p
      BY <1>1, <2>2, Zenon DEF Moves, Clears
    <2> QED BY <2>1, <2>2, Zenon
  <1> QED BY <1>2, Zenon DEF Clearing, Clears

LEMMA StillExclusive ==
  ASSUME Exclusive, NEW p \in Procs, Moves(p), Acquires(p)
  PROVE  Exclusive'
  <1> SUFFICES ASSUME NEW q \in Procs, NEW r \in Procs, pc'[q] \in LockPcs, pc'[r] \in LockPcs,
                      lis'[q] = lis'[r]
               PROVE  q = r
    BY Zenon DEF Exclusive
  <1>1. CASE q # p /\ r # p
    BY <1>1, Zenon DEF Moves, Exclusive
  <1>2. ASSUME NEW t \in Procs, t # p, pc'[t] \in LockPcs, pc'[p] \in LockPcs, lis'[t] = lis'[p]
        PROVE  FALSE
    <2>1. pc[t] \in LockPcs /\ lis[t] = lis'[p]
      BY <1>2, Zenon DEF Moves
    <2>2. Locked(lis'[p])
      BY <2>1, Zenon DEF Locked, LockPcs
    <2>3. pc[p] \in LockPcs /\ lis'[p] = lis[p]
      BY <1>2, <2>2, Zenon DEF Acquires
    <2> QED BY <1>2, <2>1, <2>3, Zenon DEF Exclusive
  <1> QED BY <1>1, <1>2, Zenon

\* The holder of another lock keeps what it knows; a reset keeps it too.
LEMMA StillKnows ==
  ASSUME IInv, NEW p \in Procs, Moves(p), NEW l \in Listeners, NEW v \in Int,
         cnt' = cnt \/ (cnt' = [cnt EXCEPT ![l] = v]
                        /\ (v = 0 \/ (pc[p] \in LockPcs /\ lis[p] = l))),
         NEW q \in Procs, q # p
  PROVE  Knows(q)'
  <1>1. Knows(q) /\ pc'[q] = pc[q] /\ lis'[q] = lis[q] /\ work'[q] = work[q] /\ work[q] \in Works
    BY Zenon DEF IInv, Moves, Types
  <1>2. MAX \in Nat \ {0} /\ cnt \in [Listeners -> -1 .. MAX]
    BY UnixSockAssumption, Zenon DEF MAX, IInv, Types
  <1>3. CASE lis[q] \notin Listeners
    <2>1. pc[q] \notin EntryPcs
      BY <1>1, <1>3, Zenon DEF Knows
    <2>2. pc[q] \notin {"store", "tail", "up", "take", "head", "down", "drain"}
      BY <2>1, Zenon DEF EntryPcs, LockPcs
    <2> QED BY <1>1, <1>3, <2>1, <2>2, Zenon DEF Knows
  <1>4. CASE lis[q] \in Listeners /\ cnt'[lis[q]] = cnt[lis[q]]
    BY <1>1, <1>4, Zenon DEF Knows
  <1>5. CASE lis[q] = l /\ cnt'[l] = 0
    BY <1>1, <1>2, <1>5, SMT, SMTT(30) DEF Knows, Works
  <1>6. CASE lis[q] = l /\ pc[p] \in LockPcs /\ lis[p] = l
    <2>1. pc[q] \notin LockPcs
      BY <1>6, Zenon DEF IInv, Exclusive
    <2>2. pc[q] \notin {"store", "tail", "up", "take", "head", "down", "drain"}
      BY <2>1, Zenon DEF LockPcs
    <2> QED BY <1>1, <2>2, Zenon DEF Knows
  <1>7. CASE lis[q] \in Listeners /\ lis[q] # l
    BY <1>2, <1>4, <1>7, Zenon
  <1> QED BY <1>2, <1>3, <1>4, <1>5, <1>6, <1>7, Zenon

\* A step of p that neither wakes, nor puts to sleep, nor changes what
\* acceptors wait for.
LEMMA QuietStep ==
  ASSUME IInv, NEW p \in Procs, ~asleep[p], Moves(p), Acquires(p), Types', Knows(p)',
         asleep' = asleep, used' = used, listening' = listening, cnt' = cnt,
         Clears(p) => Clears(p)' /\ lis'[p] = lis[p],
         pc'[p] \in {"take", "head", "down"} =>
           \/ pc[p] \in {"take", "head", "down"} /\ lis'[p] = lis[p]
           \/ Clears(p)'
           \/ \A r \in Procs : asleep[r] /\ lis[r] = lis'[p] => Clearing(lis[r])
  PROVE  IInv'
  <1>1. Exclusive'
    BY StillExclusive, Zenon DEF IInv
  <1>2. \A q \in Procs : Knows(q)'
    <2> SUFFICES ASSUME NEW q \in Procs, q # p PROVE Knows(q)'
      BY Zenon
    <2>1. CASE Listeners = {}
      <3>1. lis[q] \notin Listeners /\ Knows(q)
        BY <2>1, Zenon DEF IInv
      <3>2. pc[q] \notin EntryPcs
        BY <3>1, Zenon DEF Knows
      <3>3. pc[q] \notin {"store", "tail", "up", "take", "head", "down", "drain"}
        BY <3>2, Zenon DEF EntryPcs, LockPcs
      <3> QED BY <3>1, <3>2, <3>3, Zenon DEF Knows, Moves
    <2>2. CASE Listeners # {}
      <3>1. PICK l \in Listeners : TRUE
        BY <2>2, Zenon
      <3>2. 0 \in Int
        BY SMT
      <3> QED BY <3>1, <3>2, StillKnows, Zenon
    <2> QED BY <2>1, <2>2, Zenon
  <1>3. \A l : Clearing(l) => Clearing(l)'
    BY StillClearing, Zenon
  <1>4. \A l : Waits(l) => Waits(l)'
    BY Zenon DEF Waits
  <1>5. \A r \in Procs : asleep'[r] => asleep[r] /\ r # p /\ lis'[r] = lis[r]
    BY Zenon DEF Moves
  <1>6. AcceptorsBlocked'
    BY <1>3, <1>4, <1>5, Zenon DEF IInv, AcceptorsBlocked
  <1>7. Takers'
    <2> SUFFICES ASSUME NEW k, NEW r \in Procs, NEW q \in Procs, asleep'[r],
                        pc'[q] \in {"take", "head", "down"}, lis'[q] = k, lis'[r] = k
                 PROVE  Clearing(k)'
      BY Zenon DEF Takers
    <2>1. asleep[r] /\ lis[r] = k
      BY <1>5, Zenon
    <2>2. CASE q = p /\ Clears(p)'
      BY <2>2, Zenon DEF Clearing, Clears
    <2>3. CASE q = p /\ pc[p] \in {"take", "head", "down"} /\ lis'[p] = lis[p]
      BY <1>3, <2>1, <2>3, Zenon DEF IInv, Takers
    <2>4. CASE q = p /\ \A t \in Procs : asleep[t] /\ lis[t] = lis'[p] => Clearing(lis[t])
      BY <1>3, <2>1, <2>4, Zenon
    <2>5. CASE q # p
      BY <1>3, <2>1, <2>5, Zenon DEF IInv, Takers, Moves
    <2> QED BY <2>2, <2>3, <2>4, <2>5, Zenon
  <1>8. Sleepers'
    BY <1>5, Zenon DEF IInv, Sleepers, Moves
  <1> QED BY <1>1, <1>2, <1>6, <1>7, <1>8, Zenon DEF IInv

LEMMA SleepsOn ==
  ASSUME IInv, NEW r \in Procs, asleep[r]
  PROVE  lis[r] \in Listeners
  <1>1. pc[r] = "accept" /\ Knows(r)
    BY Zenon DEF IInv, Sleepers
  <1>2. pc[r] \in EntryPcs
    BY <1>1, Zenon DEF EntryPcs
  <1> QED BY <1>1, <1>2, Zenon DEF Knows

\* A step of p that wakes the acceptors of the entry it changes.
LEMMA WakingStep ==
  ASSUME IInv, NEW p \in Procs, NEW l \in Listeners, lis[p] = l, ~asleep[p],
         Moves(p), Acquires(p), Types', \A q \in Procs : Knows(q)', wakeup(l),
         \A k \in Listeners : k # l => (Waits(k) => Waits(k)'),
         pc'[p] \notin {"take", "head", "down"}
  PROVE  IInv'
  <1>1. Exclusive'
    BY StillExclusive, Zenon DEF IInv
  <1>2. \A r \in Procs : asleep'[r] => asleep[r] /\ r # p /\ lis'[r] = lis[r] /\ lis[r] # l
    BY Zenon DEF Moves, wakeup
  <1>3. \A k : k # l /\ Clearing(k) => Clearing(k)'
    BY StillClearing, Zenon
  <1>4. \A r \in Procs : asleep[r] => lis[r] \in Listeners
    BY SleepsOn, Zenon
  <1>5. AcceptorsBlocked'
    BY <1>2, <1>3, <1>4, Zenon DEF IInv, AcceptorsBlocked
  <1>6. Takers'
    BY <1>2, <1>3, Zenon DEF IInv, Takers, Moves
  <1>7. Sleepers'
    BY <1>2, Zenon DEF IInv, Sleepers, Moves
  <1> QED BY <1>1, <1>5, <1>6, <1>7, Zenon DEF IInv

\* A step of p outside l->lock.
LEMMA OutsideStep ==
  ASSUME IInv, NEW p \in Procs, ~asleep[p], Moves(p), Types',
         asleep' = asleep, used' = used, listening' = listening, cnt' = cnt,
         pc[p] \notin LockPcs, pc[p] # "clear", pc'[p] \notin LockPcs, pc'[p] # "clear",
         pc'[p] \in EntryPcs => lis'[p] \in Listeners,
         work'[p] \in {work[p], NoWork}
  PROVE  IInv'
  <1>1. Knows(p) /\ MAX \in Nat
    BY UnixSockAssumption, Zenon DEF IInv, MAX
  <1>2. ~work[p].clr /\ work[p].n = 0
    BY <1>1, Zenon DEF Knows, LockPcs
  <1>3. ~work'[p].clr /\ work'[p].n = 0
    BY <1>2, SMT DEF NoWork
  <1>4. Knows(p)'
    BY <1>1, <1>3, SMT DEF Knows, LockPcs
  <1>5. Acquires(p)
    BY Zenon DEF Acquires
  <1>6. ~Clears(p) /\ pc'[p] \notin {"take", "head", "down"}
    BY Zenon DEF Clears, LockPcs
  <1> QED BY <1>4, <1>5, <1>6, QuietStep, Zenon

\* What the steps outside l->lock have in common.
Calls(p, x, k) ==
  /\ pc' = [pc EXCEPT ![p] = x] /\ lis' = [lis EXCEPT ![p] = k]
  /\ work' = work \/ work' = [work EXCEPT ![p] = NoWork]
  /\ after' \in [Procs -> {"idle", "bad"}]
  /\ asleep' = asleep /\ entry' = entry /\ head' = head /\ tail' = tail /\ cnt' = cnt

LEMMA CallStep ==
  ASSUME IInv, NEW p \in Procs, ~asleep[p], NEW x \in Outside, NEW k \in Listeners \cup {None},
         Calls(p, x, k), pc[p] \in Outside, x \in Away \/ k \in Listeners
  PROVE  IInv'
  <1>1. Types
    BY Zenon DEF IInv
  <1>2. NoWork \in Works
    BY UnixSockAssumption, SMT DEF NoWork, Works, Slots
  <1>3. used' = used /\ listening' = listening /\ backlog' = backlog
    BY Zenon DEF Calls, entry
  <1>4. /\ pc[p] \notin LockPcs /\ pc[p] # "clear" /\ x \in Labels /\ x \notin LockPcs /\ x # "clear"
        /\ x \in EntryPcs => k \in Listeners
    <2>1. x \in Labels
      BY Zenon DEF Labels
    <2>2. Outside \cap (LockPcs \cup {"clear"}) = {} /\ Away \cap EntryPcs = {}
      BY SMT DEF Outside, Away, LockPcs, EntryPcs
    <2> QED BY <2>1, <2>2, Zenon
  <1>5. pc' \in [Procs -> Labels] /\ lis' \in [Procs -> Listeners \cup {None}] /\ work' \in [Procs -> Works]
    BY <1>1, <1>2, <1>4, Zenon DEF Types, Calls
  <1>6. Types'
    BY <1>1, <1>3, <1>5, Zenon DEF Types, Calls
  <1>7. Moves(p) /\ pc'[p] = x /\ lis'[p] = k /\ work'[p] \in {work[p], NoWork}
    BY <1>1, Zenon DEF Types, Calls, Moves
  <1> QED BY <1>3, <1>4, <1>6, <1>7, OutsideStep, Zenon DEF Calls

\* An action that ends a call, or changes files only, or goes on to close files.
LEMMA Steps ==
  ASSUME IInv, NEW p \in Procs
  PROVE  /\ lis' = lis => lis' = [lis EXCEPT ![p] = lis[p]]
         /\ pc' = pc => pc' = [pc EXCEPT ![p] = pc[p]]
         /\ lis[p] \in Listeners \cup {None} /\ pc[p] \in Labels /\ None \in Listeners \cup {None}
         /\ after[p] \in {"idle", "bad"} /\ after \in [Procs -> {"idle", "bad"}]
         /\ Forget(p) => lis' = [lis EXCEPT ![p] = None] /\ work' = [work EXCEPT ![p] = NoWork]
                         /\ after' \in [Procs -> {"idle", "bad"}]
         /\ \A s, n : CloseAll(p, s, n) =>
              pc' = [pc EXCEPT ![p] = n] \/ pc' = [pc EXCEPT ![p] = "close"]
  BY Zenon DEF IInv, Types, Forget, CloseAll, Goto

LEMMA idleInv ==
  ASSUME IInv, NEW p \in Procs, NEW f,
         \/ sys_socket(p) \/ (\E q \in Procs : fork(p, q)) \/ sys_close(p, f) \/ sys_accept(p, f)
         \/ (\E n \in Paths : connect_find(p, f, n))
  PROVE  IInv'
  <1>1. pc[p] = "idle" /\ ~asleep[p]
    BY Zenon DEF sys_socket, fork, sys_close, sys_accept, connect_find, At
  <1>2. /\ asleep' = asleep /\ entry' = entry /\ head' = head /\ tail' = tail /\ cnt' = cnt
        /\ work' = work /\ after' = after
    BY Zenon DEF sys_socket, fork, sys_close, sys_accept, connect_find, queue, locals
  <1>3. pc[p] \in Outside /\ {"idle", "close", "accept", "pipe1"} \subseteq Outside
        /\ {"idle", "close"} \subseteq Away
    BY <1>1, SMT DEF Outside, Away
  <1>4. CASE sys_socket(p) \/ \E q \in Procs : fork(p, q)
    <2>1. lis' = lis /\ pc' = pc
      BY <1>4, Zenon DEF sys_socket, fork, locals
    <2>2. Calls(p, "idle", lis[p])
      BY <1>1, <1>2, <2>1, Steps, Zenon DEF Calls
    <2> QED BY <1>1, <1>3, <2>2, Steps, CallStep, Zenon
  <1>5. CASE sys_close(p, f)
    <2>1. lis' = lis /\ CloseAll(p, <<f>>, "idle")
      BY <1>5, Zenon DEF sys_close, locals
    <2>2. Calls(p, "idle", lis[p]) \/ Calls(p, "close", lis[p])
      BY <1>1, <1>2, <2>1, Steps, Zenon DEF Calls
    <2> QED BY <1>1, <1>3, <2>2, Steps, CallStep, Zenon
  <1>6. CASE sys_accept(p, f)
    <2>1. lid[f] \in Listeners /\ Calls(p, "accept", lid[f])
      BY <1>2, <1>6, Steps, Zenon DEF sys_accept, Goto, Calls
    <2> QED BY <1>1, <1>3, <2>1, CallStep, Zenon
  <1>7. CASE \E n \in Paths : connect_find(p, f, n)
    <2>1. PICK l \in Listeners : Calls(p, "pipe1", l)
      BY <1>2, <1>7, Steps, Zenon DEF connect_find, Bound, Goto, Calls
    <2> QED BY <1>1, <1>3, <2>1, CallStep, Zenon
  <1> QED BY <1>4, <1>5, <1>6, <1>7, Zenon

LEMMA acceptReturnInv ==
  ASSUME IInv, NEW p \in Procs, usock_accept_killed(p) \/ usock_accept_fail(p)
  PROVE  IInv'
  <1>1. pc[p] = "accept" /\ ~asleep[p] /\ Return(p)
        /\ asleep' = asleep /\ entry' = entry /\ head' = head /\ tail' = tail /\ cnt' = cnt
    BY Zenon DEF usock_accept_killed, usock_accept_fail, At, queue
  <1>2. Calls(p, "idle", None)
    BY <1>1, Steps, Zenon DEF Calls, Return, Goto
  <1>3. pc[p] \in Outside /\ "idle" \in Outside /\ "idle" \in Away
    BY <1>1, SMT DEF Outside, Away
  <1> QED BY <1>1, <1>2, <1>3, Steps, CallStep, Zenon

LEMMA connectInv ==
  ASSUME IInv, NEW p \in Procs,
         \/ connect_pipe1(p) \/ connect_pipe2(p) \/ make_endpoint(p) \/ make_endpoint_fail(p)
         \/ connect_bad(p) \/ (connect_test(p) /\ Refuses(lis[p]))
  PROVE  IInv'
  <1>1. pc[p] \in {"pipe1", "pipe2", "ep", "bad", "push"} /\ ~asleep[p]
    BY Zenon DEF connect_pipe1, connect_pipe2, make_endpoint, make_endpoint_fail, connect_bad,
                 connect_test, At
  <1>2. asleep' = asleep /\ entry' = entry /\ head' = head /\ tail' = tail /\ cnt' = cnt
    BY Zenon DEF connect_pipe1, connect_pipe2, make_endpoint, make_endpoint_fail, connect_bad,
                 connect_test, pipealloc, queue
  <1>3. pc[p] \in Outside /\ Away \subseteq Outside /\ "idle" \in Away /\ "close" \in Away
    BY <1>1, SMT DEF Outside, Away
  <1>4. CASE connect_bad(p)
    <2>1. Calls(p, "idle", None) \/ Calls(p, "close", None)
      BY <1>2, <1>4, Steps, Zenon DEF connect_bad, Calls
    <2> QED BY <1>1, <1>3, <2>1, Steps, CallStep, Zenon
  <1>5. CASE ~connect_bad(p)
    <2>1. lis' = lis /\ work' = work
      BY <1>5, Zenon DEF connect_pipe1, connect_pipe2, make_endpoint, make_endpoint_fail,
                         connect_test, pipealloc, locals
    <2>2. after' \in [Procs -> {"idle", "bad"}]
      BY <1>5, Steps, Zenon DEF connect_pipe1, connect_pipe2, make_endpoint, make_endpoint_fail,
                         connect_test, pipealloc, locals
    <2>3. \E x \in {"pipe2", "ep", "push", "bad", "close"} :
            /\ pc' = [pc EXCEPT ![p] = x]
            /\ x \in {"pipe2", "ep", "push"} => pc[p] \in {"pipe1", "pipe2", "ep"}
      BY <1>5, Steps, Zenon DEF connect_pipe1, connect_pipe2, make_endpoint, make_endpoint_fail,
                         connect_test, pipealloc, At, Goto
    <2>4. PICK x \in {"pipe2", "ep", "push", "bad", "close"} :
            /\ Calls(p, x, lis[p])
            /\ x \in {"pipe2", "ep", "push"} => pc[p] \in {"pipe1", "pipe2", "ep"}
      BY <1>2, <2>1, <2>2, <2>3, Steps, Zenon DEF Calls
    <2>5. pc[p] \in {"pipe1", "pipe2", "ep"} => lis[p] \in Listeners
      BY Zenon DEF IInv, Knows, EntryPcs
    <2>6. x \in Outside /\ (x \in Away \/ lis[p] \in Listeners)
      BY <2>4, <2>5, SMT DEF Outside, Away
    <2> QED BY <1>1, <1>3, <2>4, <2>6, Steps, CallStep, Zenon
  <1> QED BY <1>4, <1>5, Zenon

LEMMA filecloseInv ==
  ASSUME IInv, NEW p \in Procs, fileclose(p) \/ fileclose_panic(p)
  PROVE  IInv'
  <1>1. pc[p] = "close" /\ ~asleep[p] /\ asleep' = asleep /\ entry' = entry
        /\ head' = head /\ tail' = tail /\ cnt' = cnt /\ work' = work /\ after' = after
    BY Zenon DEF fileclose, fileclose_panic, At, queue, locals
  <1>2. pc[p] \in Outside /\ Away \subseteq Outside /\ "free" \in Outside /\ "close" \in Away
    BY <1>1, SMT DEF Outside, Away
  <1>3. CASE fileclose_panic(p)
    <2>1. Calls(p, "close", lis[p])
      BY <1>1, <1>3, Steps, Zenon DEF fileclose_panic, Calls, locals
    <2> QED BY <1>1, <1>2, <2>1, Steps, CallStep, Zenon
  <1>4. CASE fileclose(p)
    <2>1. \/ \E k \in Listeners : pc' = [pc EXCEPT ![p] = "free"] /\ lis' = [lis EXCEPT ![p] = k]
          \/ lis' = lis /\ \E s : CloseAll(p, s, after[p])
      BY <1>4, Zenon DEF fileclose, Goto
    <2>2. \/ \E k \in Listeners : Calls(p, "free", k)
          \/ \E x \in Away : Calls(p, x, lis[p])
      BY <1>1, <2>1, Steps, Zenon DEF Calls, Away
    <2>3. CASE \E k \in Listeners : Calls(p, "free", k)
      BY <1>1, <1>2, <2>3, CallStep, Zenon
    <2>4. CASE \E x \in Away : Calls(p, x, lis[p])
      BY <1>1, <1>2, <2>4, Steps, CallStep, Zenon
    <2> QED BY <2>2, <2>3, <2>4, Zenon
  <1> QED BY <1>3, <1>4, Zenon
-----------------------------------------------------------------------------
(* Steps that take l->lock or are made under it. *)

\* What a step writes: the label, entry and work of p, and the indexes.
Writes(p, x, k, w) ==
  /\ pc' = [pc EXCEPT ![p] = x] /\ lis' = [lis EXCEPT ![p] = k] /\ work' = [work EXCEPT ![p] = w]
  /\ head' \in [Listeners -> Slots] /\ tail' \in [Listeners -> Slots]
  /\ after' = after

LEMMA WriteStep ==
  ASSUME IInv, NEW p \in Procs, NEW x \in Labels, NEW k \in Listeners \cup {None},
         NEW w \in Works, Writes(p, x, k, w)
  PROVE  /\ Moves(p) /\ pc'[p] = x /\ lis'[p] = k /\ work'[p] = w
         /\ pc' \in [Procs -> Labels] /\ lis' \in [Procs -> Listeners \cup {None}]
         /\ work' \in [Procs -> Works] /\ after' \in [Procs -> {"idle", "bad"}]
         /\ entry' = entry /\ cnt' = cnt /\ asleep' = asleep =>
              Types' /\ used' = used /\ listening' = listening
  <1>1. Types
    BY Zenon DEF IInv
  <1>2. /\ pc' \in [Procs -> Labels] /\ lis' \in [Procs -> Listeners \cup {None}]
        /\ work' \in [Procs -> Works] /\ after' \in [Procs -> {"idle", "bad"}]
    BY <1>1, Zenon DEF Types, Writes
  <1>3. Moves(p) /\ pc'[p] = x /\ lis'[p] = k /\ work'[p] = w
    BY <1>1, Zenon DEF Types, Writes, Moves
  <1>4. ASSUME entry' = entry, cnt' = cnt, asleep' = asleep
        PROVE  Types' /\ used' = used /\ listening' = listening
    <2>1. used' = used /\ listening' = listening /\ backlog' = backlog
      BY <1>4, Zenon DEF entry
    <2> QED BY <1>1, <1>2, <1>4, <2>1, Zenon DEF Types, Writes
  <1> QED BY <1>2, <1>3, <1>4, Zenon

\* What is known of p and of its entry before a step.
LEMMA Before ==
  ASSUME IInv, NEW p \in Procs
  PROVE  /\ Types /\ Knows(p) /\ work[p] \in Works /\ MAX \in Nat \ {0} /\ USOCK_PENDING_MAX = MAX
         /\ Slots = 0 .. MAX - 1 /\ pc[p] \in Labels /\ lis[p] \in Listeners \cup {None}
         /\ head \in [Listeners -> Slots] /\ tail \in [Listeners -> Slots]
         /\ pc[p] \in EntryPcs =>
              /\ lis[p] \in Listeners /\ head[lis[p]] \in Slots /\ tail[lis[p]] \in Slots
              /\ cnt[lis[p]] \in -1 .. MAX /\ backlog[lis[p]] \in 0 .. MAX
              /\ lis' = lis => lis' = [lis EXCEPT ![p] = lis[p]]
         /\ work' = work => work' = [work EXCEPT ![p] = work[p]]
         /\ lis' = lis => lis' = [lis EXCEPT ![p] = lis[p]]
         /\ pc[p] \in Outside \cup {"clear"} => ~work[p].clr /\ work[p].n = 0
         /\ pc[p] \in {"listen", "store", "tail", "up"} => ~work[p].clr /\ work[p].n = 0
  <1>1. Types /\ Knows(p) /\ MAX \in Nat \ {0}
    BY UnixSockAssumption, Zenon DEF IInv, MAX
  <1>2. Outside \cap {"take", "head", "down", "drain"} = {}
    BY SMT DEF Outside, Away
  <1>3. pc[p] \in {"listen", "store", "tail", "up", "clear"} =>
          pc[p] \notin {"take", "head", "down", "drain"}
    BY SMT
  <1>4. pc[p] \in Outside \cup {"clear", "listen", "store", "tail", "up"} =>
          ~work[p].clr /\ work[p].n = 0
    BY <1>1, <1>2, <1>3, Zenon DEF Knows
  <1>5. pc[p] \in EntryPcs => lis[p] \in Listeners
    BY <1>1, Zenon DEF Knows
  <1> QED BY <1>1, <1>4, <1>5, Zenon DEF Types, MAX, Slots

LEMMA listenInv ==
  ASSUME IInv, NEW p \in Procs, NEW f, usock_listen(p, f)
  PROVE  IInv'
  <1>1. /\ pc[p] = "idle" /\ ~asleep[p] /\ entry' = entry /\ cnt' = cnt /\ asleep' = asleep
        /\ lid[f] \in Listeners /\ ~Locked(lid[f])
        /\ pc' = [pc EXCEPT ![p] = "listen"] /\ lis' = [lis EXCEPT ![p] = lid[f]]
        /\ work' = work /\ head' = head /\ tail' = tail /\ after' = after
    BY Zenon DEF usock_listen, At, Goto, queue
  <1>2. Writes(p, "listen", lid[f], work[p]) /\ "listen" \in Labels /\ pc[p] \in Outside
    BY <1>1, Before, Zenon DEF Writes, Labels, LockPcs, Outside, Away
  <1>3. /\ Moves(p) /\ pc'[p] = "listen" /\ lis'[p] = lid[f] /\ work'[p] = work[p]
        /\ Types' /\ used' = used /\ listening' = listening
    BY <1>1, <1>2, Before, WriteStep, Zenon
  <1>4. ~work[p].clr /\ work[p].n = 0 /\ MAX \in Nat \ {0}
    BY <1>2, Before, Zenon
  <1>5. Knows(p)'
    BY <1>1, <1>3, <1>4, SMT DEF Knows
  <1>6. ~Clears(p) /\ pc'[p] \notin {"take", "head", "down"} /\ Acquires(p)
    BY <1>1, <1>3, SMT DEF Clears, Acquires
  <1> QED BY <1>1, <1>3, <1>5, <1>6, QuietStep, Zenon

LEMMA acceptInv ==
  ASSUME IInv, NEW p \in Procs, usock_accept(p)
  PROVE  IInv'
  <1>1. /\ pc[p] = "accept" /\ ~asleep[p] /\ entry' = entry /\ cnt' = cnt /\ asleep' = asleep
        /\ ~Locked(lis[p]) /\ cnt[lis[p]] > 0
        /\ pc' = [pc EXCEPT ![p] = "take"] /\ lis' = lis
        /\ work' = work /\ head' = head /\ tail' = tail /\ after' = after
    BY Zenon DEF usock_accept, At, Goto, queue, locals
  <1>2. Writes(p, "take", lis[p], work[p]) /\ "take" \in Labels /\ pc[p] \in Outside /\ pc[p] \in EntryPcs
    BY <1>1, Before, Zenon DEF Writes, Labels, LockPcs, Outside, EntryPcs
  <1>3. /\ Moves(p) /\ pc'[p] = "take" /\ lis'[p] = lis[p] /\ work'[p] = work[p]
        /\ Types' /\ used' = used /\ listening' = listening
    BY <1>1, <1>2, Before, WriteStep, Zenon
  <1>4. ~work[p].clr /\ work[p].n = 0 /\ MAX \in Nat \ {0} /\ cnt[lis[p]] \in -1 .. MAX
        /\ lis[p] \in Listeners
    BY <1>2, Before, Zenon
  <1>5. Knows(p)'
    BY <1>1, <1>3, <1>4, SMT DEF Knows
  <1>6. ~Clears(p) /\ Acquires(p)
    BY <1>1, <1>3, <1>4, SMT DEF Clears, Acquires
  <1>7. cnt[lis[p]] # 0
    BY <1>1, <1>4, SMT
  <1>8. \A r \in Procs : asleep[r] /\ lis[r] = lis'[p] => Clearing(lis[r])
    BY <1>3, <1>7, Zenon DEF IInv, AcceptorsBlocked, Waits
  <1> QED BY <1>1, <1>3, <1>5, <1>6, <1>8, QuietStep, Zenon

\* A step of the holder of l->lock to another label under it, taking or not.
LEMMA HolderStep ==
  ASSUME IInv, NEW p \in Procs, ~asleep[p], pc[p] \in LockPcs, lis[p] \in Listeners,
         NEW x \in LockPcs, NEW w \in Works, Writes(p, x, lis[p], w),
         entry' = entry, cnt' = cnt, asleep' = asleep, Knows(p)', w.clr = work[p].clr,
         \/ pc[p] \in {"take", "head", "down"} /\ x \in {"take", "head", "down"}
         \/ pc[p] \in {"store", "tail"} /\ x \in {"tail", "up"}
  PROVE  IInv'
  <1>1. x \in Labels
    BY Zenon DEF Labels
  <1>2. /\ Moves(p) /\ pc'[p] = x /\ lis'[p] = lis[p] /\ work'[p] = w
        /\ Types' /\ used' = used /\ listening' = listening
    BY <1>1, WriteStep, Zenon
  <1>3. Acquires(p)
    BY <1>2, Zenon DEF Acquires
  <1>4. CASE pc[p] \in {"take", "head", "down"} /\ x \in {"take", "head", "down"}
    <2>1. Clears(p) => Clears(p)' /\ lis'[p] = lis[p]
      BY <1>2, <1>4, SMT DEF Clears
    <2> QED BY <1>2, <1>3, <1>4, <2>1, QuietStep, Zenon
  <1>5. CASE pc[p] \in {"store", "tail"} /\ x \in {"tail", "up"}
    <2>1. ~Clears(p) /\ pc'[p] \notin {"take", "head", "down"}
      BY <1>2, <1>5, SMT DEF Clears
    <2> QED BY <1>2, <1>3, <2>1, QuietStep, Zenon
  <1> QED BY <1>4, <1>5, Zenon

LEMMA NewWork ==
  ASSUME NEW w \in Works, NEW i \in Slots, NEW c \in Int
  PROVE  /\ [w EXCEPT !.i = i] \in Works /\ [w EXCEPT !.c = c] \in Works
         /\ [w EXCEPT !.i = i].clr = w.clr /\ [w EXCEPT !.i = i].n = w.n /\ [w EXCEPT !.i = i].c = w.c
         /\ [w EXCEPT !.c = c].clr = w.clr /\ [w EXCEPT !.c = c].n = w.n /\ [w EXCEPT !.c = c].c = c
  BY SMT DEF Works

LEMMA Here ==
  ASSUME IInv, NEW p \in Procs, pc[p] \in EntryPcs
  PROVE  /\ Knows(p) /\ work[p] \in Works /\ MAX \in Nat \ {0} /\ lis[p] \in Listeners
         /\ work[p].i \in Slots /\ cnt[lis[p]] \in -1 .. MAX /\ cnt[lis[p]] \in Int
         /\ head[lis[p]] \in Slots /\ tail[lis[p]] \in Slots
  <1>1. cnt[lis[p]] \in -1 .. MAX /\ MAX \in Nat \ {0}
    BY Before, Zenon
  <1>2. cnt[lis[p]] \in Int
    BY <1>1, SMT
  <1>3. work[p] \in Works
    BY Before, Zenon
  <1>4. work[p].i \in Slots
    BY <1>3, SMT DEF Works
  <1> QED BY <1>1, <1>2, <1>4, Before, Zenon

LEMMA takeInv ==
  ASSUME IInv, NEW p \in Procs, take(p)
  PROVE  IInv'
  <1> DEFINE w == [work[p] EXCEPT !.i = head[lis[p]]]
  <1>1. /\ pc[p] = "take" /\ ~asleep[p] /\ entry' = entry /\ cnt' = cnt /\ asleep' = asleep
        /\ pc' = [pc EXCEPT ![p] = "head"] /\ lis' = lis
        /\ work' = [work EXCEPT ![p] = w] /\ head' = head /\ tail' = tail /\ after' = after
    BY Zenon DEF take, At, Goto, queue
  <1>2. pc[p] \in LockPcs /\ "head" \in LockPcs /\ pc[p] \in EntryPcs /\ "head" \in Labels
    BY <1>1, Zenon DEF LockPcs, EntryPcs, Labels
  <1>3. w \in Works /\ w.clr = work[p].clr /\ w.n = work[p].n /\ w.c = work[p].c
    BY <1>2, Here, NewWork, Zenon
  <1> HIDE DEF w
  <1>4. Writes(p, "head", lis[p], w)
    BY <1>1, Before, Zenon DEF Writes
  <1>5. pc'[p] = "head" /\ lis'[p] = lis[p] /\ work'[p] = w
    BY <1>4, Before, Zenon DEF Writes, Types
  <1>6. Knows(p)'
    BY <1>1, <1>2, <1>3, <1>5, Here, SMT DEF Knows
  <1> QED BY <1>1, <1>2, <1>3, <1>4, <1>6, Before, HolderStep, Zenon

LEMMA takeHeadInv ==
  ASSUME IInv, NEW p \in Procs, take_head(p)
  PROVE  IInv'
  <1> DEFINE w == [work[p] EXCEPT !.c = cnt[lis[p]]]
  <1>1. /\ pc[p] = "head" /\ ~asleep[p] /\ entry' = entry /\ cnt' = cnt /\ asleep' = asleep
        /\ pc' = [pc EXCEPT ![p] = "down"] /\ lis' = lis
        /\ work' = [work EXCEPT ![p] = w] /\ tail' = tail /\ after' = after
        /\ \E h \in {work[p].i, head[lis[p]]} :
             head' = [head EXCEPT ![lis[p]] = (h + 1) % USOCK_PENDING_MAX]
    <2>1. PICK h \in {<<work[p].i, work[p].i>>, <<work[p].i, head[lis[p]]>>, <<head[lis[p]], head[lis[p]]>>} :
            head' = [head EXCEPT ![lis[p]] = (h[2] + 1) % USOCK_PENDING_MAX]
      BY Zenon DEF take_head
    <2>2. h[2] \in {work[p].i, head[lis[p]]}
      BY SMT
    <2> QED BY <2>1, <2>2, Zenon DEF take_head, At, Goto
  <1>2. pc[p] \in LockPcs /\ "down" \in LockPcs /\ pc[p] \in EntryPcs /\ "down" \in Labels
    BY <1>1, Zenon DEF LockPcs, EntryPcs, Labels
  <1>3. /\ w \in Works /\ w.clr = work[p].clr /\ w.n = work[p].n /\ w.c = cnt[lis[p]]
    BY <1>2, Here, NewWork, Zenon
  <1> HIDE DEF w
  <1>4. \A h \in Slots : (h + 1) % USOCK_PENDING_MAX \in Slots
    BY UnixSockAssumption, SMT DEF Slots
  <1>5. head' \in [Listeners -> Slots]
    <2>1. PICK h \in Slots : head' = [head EXCEPT ![lis[p]] = (h + 1) % USOCK_PENDING_MAX]
      BY <1>1, <1>2, Here, Zenon
    <2>2. (h + 1) % USOCK_PENDING_MAX \in Slots /\ head \in [Listeners -> Slots]
      BY <1>4, Before, Zenon
    <2> QED BY <2>1, <2>2, Zenon
  <1>6. Writes(p, "down", lis[p], w)
    BY <1>1, <1>5, Before, Zenon DEF Writes
  <1>7. pc'[p] = "down" /\ lis'[p] = lis[p] /\ work'[p] = w
    BY <1>6, Before, Zenon DEF Writes, Types
  <1>8. Knows(p)'
    BY <1>1, <1>2, <1>3, <1>7, Here, SMT DEF Knows
  <1> QED BY <1>1, <1>2, <1>3, <1>6, <1>8, Before, HolderStep, Zenon

LEMMA testInv ==
  ASSUME IInv, NEW p \in Procs, connect_test(p), ~Refuses(lis[p])
  PROVE  IInv'
  <1>1. /\ pc[p] = "push" /\ ~asleep[p] /\ entry' = entry /\ cnt' = cnt /\ asleep' = asleep
        /\ ~Locked(lis[p]) /\ ~(cnt[lis[p]] >= backlog[lis[p]])
        /\ pc' = [pc EXCEPT ![p] = "store"] /\ lis' = lis
        /\ work' = work /\ head' = head /\ tail' = tail /\ after' = after
    BY Zenon DEF connect_test, Refuses, At, Goto, queue, locals
  <1>2. Writes(p, "store", lis[p], work[p]) /\ "store" \in Labels /\ pc[p] \in Outside /\ pc[p] \in EntryPcs
    BY <1>1, Before, Zenon DEF Writes, Labels, LockPcs, Outside, EntryPcs
  <1>3. /\ Moves(p) /\ pc'[p] = "store" /\ lis'[p] = lis[p] /\ work'[p] = work[p]
        /\ Types' /\ used' = used /\ listening' = listening
    BY <1>1, <1>2, Before, WriteStep, Zenon
  <1>4. Knows(p)'
    BY <1>1, <1>2, <1>3, Before, SMT DEF Knows
  <1>5. ~Clears(p) /\ pc'[p] \notin {"take", "head", "down"} /\ Acquires(p)
    BY <1>1, <1>3, SMT DEF Clears, Acquires
  <1> QED BY <1>1, <1>3, <1>4, <1>5, QuietStep, Zenon

LEMMA storeInv ==
  ASSUME IInv, NEW p \in Procs, connect_store(p)
  PROVE  IInv'
  <1> DEFINE w == [work[p] EXCEPT !.i = tail[lis[p]]]
  <1>1. /\ pc[p] = "store" /\ ~asleep[p] /\ entry' = entry /\ cnt' = cnt /\ asleep' = asleep
        /\ pc' = [pc EXCEPT ![p] = "tail"] /\ lis' = lis
        /\ work' = [work EXCEPT ![p] = w] /\ head' = head /\ tail' = tail /\ after' = after
    BY Zenon DEF connect_store, At, Goto
  <1>2. pc[p] \in LockPcs /\ "tail" \in LockPcs /\ pc[p] \in EntryPcs /\ "tail" \in Labels
    BY <1>1, Zenon DEF LockPcs, EntryPcs, Labels
  <1>3. w \in Works /\ w.clr = work[p].clr /\ w.n = work[p].n /\ w.c = work[p].c
    BY <1>2, Here, NewWork, Zenon
  <1> HIDE DEF w
  <1>4. Writes(p, "tail", lis[p], w)
    BY <1>1, Before, Zenon DEF Writes
  <1>5. pc'[p] = "tail" /\ lis'[p] = lis[p] /\ work'[p] = w
    BY <1>4, Before, Zenon DEF Writes, Types
  <1>6. Knows(p)'
    BY <1>1, <1>2, <1>3, <1>5, Here, SMT DEF Knows
  <1> QED BY <1>1, <1>2, <1>3, <1>4, <1>6, Before, HolderStep, Zenon

LEMMA tailInv ==
  ASSUME IInv, NEW p \in Procs, connect_tail(p)
  PROVE  IInv'
  <1> DEFINE w == [work[p] EXCEPT !.c = cnt[lis[p]]]
  <1>1. /\ pc[p] = "tail" /\ ~asleep[p] /\ entry' = entry /\ cnt' = cnt /\ asleep' = asleep
        /\ pc' = [pc EXCEPT ![p] = "up"] /\ lis' = lis
        /\ work' = [work EXCEPT ![p] = w] /\ head' = head /\ after' = after
        /\ \E t \in {tail[lis[p]], work[p].i} :
             tail' = [tail EXCEPT ![lis[p]] = (t + 1) % USOCK_PENDING_MAX]
    BY Zenon DEF connect_tail, At, Goto
  <1>2. pc[p] \in LockPcs /\ "up" \in LockPcs /\ pc[p] \in EntryPcs /\ "up" \in Labels
    BY <1>1, Zenon DEF LockPcs, EntryPcs, Labels
  <1>3. /\ w \in Works /\ w.clr = work[p].clr /\ w.n = work[p].n /\ w.c = cnt[lis[p]]
    BY <1>2, Here, NewWork, Zenon
  <1> HIDE DEF w
  <1>4. \A t \in Slots : (t + 1) % USOCK_PENDING_MAX \in Slots
    BY UnixSockAssumption, SMT DEF Slots
  <1>5. tail' \in [Listeners -> Slots]
    <2>1. PICK t \in Slots : tail' = [tail EXCEPT ![lis[p]] = (t + 1) % USOCK_PENDING_MAX]
      BY <1>1, <1>2, Here, Zenon
    <2>2. (t + 1) % USOCK_PENDING_MAX \in Slots /\ tail \in [Listeners -> Slots]
      BY <1>4, Before, Zenon
    <2> QED BY <2>1, <2>2, Zenon
  <1>6. Writes(p, "up", lis[p], w)
    BY <1>1, <1>5, Before, Zenon DEF Writes
  <1>7. pc'[p] = "up" /\ lis'[p] = lis[p] /\ work'[p] = w
    BY <1>6, Before, Zenon DEF Writes, Types
  <1>8. Knows(p)'
    BY <1>1, <1>2, <1>3, <1>7, Here, SMT DEF Knows
  <1> QED BY <1>1, <1>2, <1>3, <1>6, <1>8, Before, HolderStep, Zenon

LEMMA drainInv ==
  ASSUME IInv, NEW p \in Procs, clear_listener_pending(p)
  PROVE  IInv'
  <1> DEFINE w == [work[p] EXCEPT !.clr = TRUE]
  <1>1. /\ pc[p] \in {"clear", "drain"} /\ ~asleep[p] /\ entry' = entry /\ cnt' = cnt /\ asleep' = asleep
        /\ pc[p] = "drain" \/ ~Locked(lis[p])
        /\ cnt[lis[p]] > 0
        /\ pc' = [pc EXCEPT ![p] = "take"] /\ lis' = lis
        /\ work' = [work EXCEPT ![p] = w] /\ head' = head /\ tail' = tail /\ after' = after
    BY Zenon DEF clear_listener_pending, At, Goto, queue
  <1>2. pc[p] \in EntryPcs /\ "take" \in Labels /\ "drain" \in LockPcs
    BY <1>1, Zenon DEF LockPcs, EntryPcs, Labels
  <1>3. work[p] \in Works
    BY Before, Zenon
  <1>4. w \in Works /\ w.clr /\ w.n = work[p].n
    <2>1. w.clr = TRUE
      BY <1>3, Zenon DEF Works
    <2>2. w.n = work[p].n
      BY <1>3, Zenon DEF Works
    <2>3. w \in Works
      BY <1>3, Zenon DEF Works
    <2> QED BY <2>1, <2>2, <2>3, Zenon
  <1> HIDE DEF w
  <1>5. Writes(p, "take", lis[p], w)
    BY <1>1, Before, Zenon DEF Writes
  <1>6. /\ Moves(p) /\ pc'[p] = "take" /\ lis'[p] = lis[p] /\ work'[p] = w
        /\ Types' /\ used' = used /\ listening' = listening
    BY <1>1, <1>2, <1>4, <1>5, Before, WriteStep, Zenon
  <1>7. pc[p] = "clear" => work[p].n = 0
    BY Before, Zenon
  <1>8. Knows(p)'
    BY <1>1, <1>2, <1>3, <1>4, <1>6, <1>7, Here, SMT DEF Knows, Works
  <1>9. Clears(p)' /\ lis'[p] = lis[p]
    BY <1>4, <1>6, Zenon DEF Clears
  <1>10. Acquires(p)
    BY <1>1, <1>2, <1>6, Zenon DEF Acquires
  <1> QED BY <1>1, <1>6, <1>8, <1>9, <1>10, QuietStep, Zenon

LEMMA freeInv ==
  ASSUME IInv, NEW p \in Procs, usock_fileclose(p), ~used[lis[p]]
  PROVE  IInv'
  <1>1. /\ pc[p] = "free" /\ ~asleep[p] /\ lis' = [lis EXCEPT ![p] = None] /\ entry' = entry
        /\ asleep' = asleep /\ head' = head /\ tail' = tail /\ cnt' = cnt /\ work' = work /\ after' = after
        /\ CloseAll(p, todo[p], after[p])
    BY Zenon DEF usock_fileclose, At, queue
  <1>2. \E x \in Away : Calls(p, x, None)
    <2>1. pc' = [pc EXCEPT ![p] = after[p]] \/ pc' = [pc EXCEPT ![p] = "close"]
      BY <1>1, Steps, Zenon
    <2>2. after[p] \in Away /\ "close" \in Away /\ after' \in [Procs -> {"idle", "bad"}]
      BY <1>1, Steps, Zenon DEF Away
    <2> QED BY <1>1, <2>1, <2>2, Zenon DEF Calls
  <1>3. pc[p] \in Outside /\ Away \subseteq Outside
    BY <1>1, Zenon DEF Outside
  <1> QED BY <1>1, <1>2, <1>3, Steps, CallStep, Zenon

-----------------------------------------------------------------------------
(* Steps that wake acceptors. *)

LEMMA WakeTypes ==
  ASSUME IInv, NEW l, wakeup(l)
  PROVE  asleep' \in [Procs -> BOOLEAN]
  BY Zenon DEF wakeup

\* p gives the entry up and is back outside.
LEMMA Leaves ==
  ASSUME NEW p \in Procs, pc'[p] \in Away, work'[p] = NoWork
  PROVE  Knows(p)' /\ Acquires(p) /\ pc'[p] \notin {"take", "head", "down"}
  <1>1. Away \cap EntryPcs = {} /\ Away \cap LockPcs = {}
    BY SMT DEF Away, EntryPcs, LockPcs
  <1>2. pc'[p] \notin EntryPcs /\ pc'[p] \notin LockPcs
    BY <1>1, Zenon
  <1>3. pc'[p] \notin {"store", "tail", "up", "take", "head", "down", "drain"}
    BY <1>2, Zenon DEF LockPcs
  <1>4. ~work'[p].clr /\ work'[p].n = 0 /\ MAX \in Nat
    BY UnixSockAssumption, SMT DEF NoWork, MAX
  <1>5. work'[p].n <= MAX
    BY <1>4, SMT
  <1>6. Knows(p)'
    BY <1>2, <1>3, <1>4, <1>5, Zenon DEF Knows
  <1> QED BY <1>2, <1>3, <1>6, Zenon DEF Acquires

LEMMA NoWorkType == NoWork \in Works
  BY UnixSockAssumption, SMT DEF NoWork, Works, Slots

LEMMA ReturnStep ==
  ASSUME IInv, NEW p \in Procs, Return(p)
  PROVE  /\ Moves(p) /\ pc'[p] \in Away /\ work'[p] = NoWork
         /\ pc' \in [Procs -> Labels] /\ lis' \in [Procs -> Listeners \cup {None}]
         /\ work' \in [Procs -> Works] /\ after' \in [Procs -> {"idle", "bad"}]
  <1>1. "idle" \in Away /\ "idle" \in Labels
    BY Zenon DEF Away, Labels, Outside
  <1>2. Types
    BY Zenon DEF IInv
  <1>3. /\ pc' = [pc EXCEPT ![p] = "idle"] /\ lis' = [lis EXCEPT ![p] = None]
        /\ work' = [work EXCEPT ![p] = NoWork] /\ after' \in [Procs -> {"idle", "bad"}]
    BY Steps, Zenon DEF Return, Goto
  <1> QED BY <1>1, <1>2, <1>3, NoWorkType, Zenon DEF Types, Moves

LEMMA listenSetInv ==
  ASSUME IInv, NEW p \in Procs, NEW n \in Nat, usock_listen_set(p, n)
  PROVE  IInv'
  <1> DEFINE l == lis[p]
  <1>1. /\ pc[p] = "listen" /\ ~asleep[p] /\ cnt' = cnt /\ head' = head /\ tail' = tail /\ used' = used
        /\ listening' = [listening EXCEPT ![l] = TRUE] /\ backlog' = [backlog EXCEPT ![l] = Clamp(n)]
        /\ wakeup(l) /\ Return(p)
    BY Zenon DEF usock_listen_set, At, queue
  <1>2. pc[p] \in EntryPcs
    BY <1>1, Zenon DEF EntryPcs, LockPcs
  <1>3. l \in Listeners
    BY <1>2, Here, Zenon
  <1>4. Clamp(n) \in 0 .. MAX
    BY UnixSockAssumption, SMT DEF Clamp, MAX
  <1>5. Types
    BY Zenon DEF IInv
  <1>6. Types'
    BY <1>1, <1>3, <1>4, <1>5, ReturnStep, WakeTypes, Zenon DEF Types
  <1>7. \A q \in Procs : Knows(q)'
    <2>1. 0 \in Int
      BY SMT
    <2> QED BY <1>1, <1>3, <2>1, ReturnStep, Leaves, StillKnows, Zenon
  <1>8. \A k \in Listeners : k # l => (Waits(k) => Waits(k)')
    BY <1>1, <1>3, <1>5, Zenon DEF Waits, Types
  <1> HIDE DEF l
  <1> QED BY <1>1, <1>3, <1>6, <1>7, <1>8, ReturnStep, Leaves, WakingStep, Zenon DEF l

LEMMA connectedInv ==
  ASSUME IInv, NEW p \in Procs, usock_connect(p)
  PROVE  IInv'
  <1> DEFINE l == lis[p]
  <1>1. /\ pc[p] = "up" /\ ~asleep[p] /\ entry' = entry /\ head' = head /\ tail' = tail
        /\ \E c \in {cnt[l], work[p].c} : cnt' = [cnt EXCEPT ![l] = c + 1]
        /\ wakeup(l) /\ Return(p)
    BY Zenon DEF usock_connect, Connected, At
  <1>2. pc[p] \in EntryPcs /\ pc[p] \in LockPcs
    BY <1>1, Zenon DEF EntryPcs, LockPcs
  <1>3. l \in Listeners /\ Knows(p) /\ MAX \in Nat /\ cnt[l] \in -1 .. MAX
    BY <1>2, Here, Zenon
  <1>4. Types /\ used' = used /\ listening' = listening /\ backlog' = backlog
    BY <1>1, Zenon DEF IInv, entry
  <1>5. PICK c \in {cnt[l], work[p].c} : cnt' = [cnt EXCEPT ![l] = c + 1]
    BY <1>1, Zenon
  <1>6. c + 1 \in -1 .. MAX /\ c + 1 \in Int
    BY <1>1, <1>3, <1>5, SMT DEF Knows
  <1>7. Types'
    BY <1>1, <1>3, <1>4, <1>5, <1>6, ReturnStep, WakeTypes, Zenon DEF Types
  <1>8. \A q \in Procs : Knows(q)'
    BY <1>2, <1>3, <1>5, <1>6, <1>1, ReturnStep, Leaves, StillKnows, Zenon
  <1>9. \A k \in Listeners : k # l => (Waits(k) => Waits(k)')
    BY <1>4, <1>5, Zenon DEF Waits, Types
  <1> HIDE DEF l
  <1> QED BY <1>1, <1>3, <1>7, <1>8, <1>9, ReturnStep, Leaves, WakingStep, Zenon DEF l

LEMMA clearCloseInv ==
  ASSUME IInv, NEW p \in Procs, clear_close(p)
  PROVE  IInv'
  <1> DEFINE l == lis[p]
  <1>1. /\ pc[p] \in {"clear", "drain"} /\ ~asleep[p] /\ entry' = entry /\ cnt' = cnt
        /\ head' = [head EXCEPT ![l] = 0] /\ tail' = [tail EXCEPT ![l] = 0]
        /\ lis' = [lis EXCEPT ![p] = None] /\ work' = [work EXCEPT ![p] = NoWork] /\ after' = after
        /\ wakeup(l) /\ CloseAll(p, loc[p].out \o todo[p], after[p])
    BY Zenon DEF clear_close, At
  <1>2. pc[p] \in EntryPcs
    BY <1>1, Zenon DEF EntryPcs, LockPcs
  <1>3. l \in Listeners /\ 0 \in Slots
    BY <1>2, Here, UnixSockAssumption, SMT DEF Slots
  <1>4. Types /\ used' = used /\ listening' = listening /\ backlog' = backlog
    BY <1>1, Zenon DEF IInv, entry
  <1>5. PICK x \in Away : pc' = [pc EXCEPT ![p] = x]
    <2>1. pc' = [pc EXCEPT ![p] = after[p]] \/ pc' = [pc EXCEPT ![p] = "close"]
      BY <1>1, Steps, Zenon
    <2>2. after[p] \in Away /\ "close" \in Away
      BY Steps, Zenon DEF Away
    <2> QED BY <2>1, <2>2, Zenon
  <1>6. x \in Labels
    BY Zenon DEF Labels, Outside
  <1>7. Types'
    BY <1>1, <1>3, <1>4, <1>5, <1>6, NoWorkType, WakeTypes, Zenon DEF Types
  <1>8. Moves(p) /\ pc'[p] \in Away /\ work'[p] = NoWork
    BY <1>1, <1>4, <1>5, Zenon DEF Types, Moves
  <1>9. \A q \in Procs : Knows(q)'
    <2>1. 0 \in Int
      BY SMT
    <2> QED BY <1>1, <1>3, <1>8, <2>1, Leaves, StillKnows, Zenon
  <1>10. \A k \in Listeners : k # l => (Waits(k) => Waits(k)')
    BY <1>1, <1>4, Zenon DEF Waits
  <1> HIDE DEF l
  <1> QED BY <1>1, <1>3, <1>7, <1>8, <1>9, <1>10, Leaves, WakingStep, Zenon DEF l

-----------------------------------------------------------------------------
(* The other steps. *)

LEMMA bindInv ==
  ASSUME IInv, NEW p \in Procs, NEW f, NEW n, usock_bind(p, f, n)
  PROVE  IInv'
  <1>1. PICK l \in Listeners :
          /\ ~used[l] /\ used' = [used EXCEPT ![l] = TRUE]
          /\ listening' = [listening EXCEPT ![l] = FALSE] /\ backlog' = [backlog EXCEPT ![l] = 0]
          /\ head' = [head EXCEPT ![l] = 0] /\ tail' = [tail EXCEPT ![l] = 0]
          /\ cnt' = [cnt EXCEPT ![l] = 0]
    BY Zenon DEF usock_bind
  <1>2. /\ pc[p] = "idle" /\ ~asleep[p] /\ pc' = pc /\ lis' = lis /\ work' = work /\ after' = after
        /\ asleep' = asleep
    BY Zenon DEF usock_bind, At, locals
  <1>3. Types /\ 0 \in Int /\ 0 \in 0 .. MAX /\ 0 \in -1 .. MAX /\ 0 \in Slots
    BY UnixSockAssumption, SMT DEF IInv, MAX, Slots
  <1>4. Types'
    BY <1>1, <1>2, <1>3, Zenon DEF Types
  <1>5. Moves(p) /\ Exclusive' /\ Sleepers'
    BY <1>2, Zenon DEF IInv, Moves, Exclusive, Sleepers
  <1>6. \A q \in Procs : Knows(q)'
    <2>1. Knows(p)'
      <3>1. Knows(p) /\ pc[p] \notin {"store", "tail", "up", "take", "head", "down", "drain"}
        BY <1>2, SMT DEF IInv
      <3> QED BY <1>2, <3>1, Zenon DEF Knows
    <2> QED BY <1>1, <1>3, <1>5, <2>1, StillKnows, Zenon
  <1>7. \A k : Clearing(k) => Clearing(k)'
    BY <1>2, Zenon DEF Clearing
  <1>8. \A k \in Listeners : Waits(k) => Waits(k)'
    BY <1>1, <1>3, Zenon DEF Waits, Types
  <1>9. AcceptorsBlocked'
    BY <1>2, <1>7, <1>8, SleepsOn, Zenon DEF IInv, AcceptorsBlocked
  <1>10. Takers'
    BY <1>2, <1>7, Zenon DEF IInv, Takers
  <1> QED BY <1>4, <1>5, <1>6, <1>9, <1>10, Zenon DEF IInv

\* sleep and kill change nobody's work.
LEMMA sleepInv ==
  ASSUME IInv, NEW p \in Procs, usock_accept_sleep(p) \/ kill(p)
  PROVE  IInv'
  <1>1. /\ pc' = pc /\ lis' = lis /\ work' = work /\ after' = after /\ entry' = entry
        /\ head' = head /\ tail' = tail /\ cnt' = cnt
    BY Zenon DEF usock_accept_sleep, kill, queue, locals
  <1>2. used' = used /\ listening' = listening /\ backlog' = backlog
    BY <1>1, Zenon DEF entry
  <1>3. asleep' \in [Procs -> BOOLEAN]
    BY Zenon DEF usock_accept_sleep, kill, IInv, Types
  <1>4. Types' /\ Exclusive' /\ \A q \in Procs : Knows(q)'
    BY <1>1, <1>2, <1>3, Zenon DEF IInv, Types, Exclusive, Knows
  <1>5. /\ \A k : Clearing(k) => Clearing(k)'
        /\ \A k : Waits(k) => Waits(k)'
    BY <1>1, <1>2, Zenon DEF Clearing, Waits
  <1>6. \A r \in Procs : asleep'[r] =>
          asleep[r] \/ (r = p /\ pc[p] = "accept" /\ ~Locked(lis[p]) /\ Waits(lis[p]))
    BY Zenon DEF usock_accept_sleep, kill, IInv, Types, At
  <1>7. Sleepers' /\ AcceptorsBlocked'
    BY <1>1, <1>5, <1>6, Zenon DEF IInv, Sleepers, AcceptorsBlocked
  <1>8. Takers'
    <2> SUFFICES ASSUME NEW r \in Procs, NEW q \in Procs, asleep'[r],
                        pc[q] \in {"take", "head", "down"}, lis[q] = lis[r]
                 PROVE  Clearing(lis[r])
      BY <1>1, <1>5, Zenon DEF Takers
    <2>1. Locked(lis[r])
      BY Zenon DEF Locked
    <2> QED BY <1>6, <2>1, Zenon DEF IInv, Takers
  <1> QED BY <1>4, <1>7, <1>8, Zenon DEF IInv

LEMMA takeCntInv ==
  ASSUME IInv, NEW p \in Procs, take_cnt(p)
  PROVE  IInv'
  <1> DEFINE l == lis[p]
  <1>1. /\ pc[p] = "down" /\ ~asleep[p] /\ entry' = entry /\ head' = head /\ tail' = tail
        /\ asleep' = asleep
    BY Zenon DEF take_cnt, At
  <1>2. PICK c \in {cnt[l], work[p].c} : cnt' = [cnt EXCEPT ![l] = c - 1]
    BY Zenon DEF take_cnt
  <1>3. pc[p] \in EntryPcs /\ pc[p] \in LockPcs
    BY <1>1, Zenon DEF EntryPcs, LockPcs
  <1>4. l \in Listeners /\ Knows(p) /\ MAX \in Nat \ {0} /\ cnt[l] \in -1 .. MAX /\ work[p] \in Works
    BY <1>3, Here, Zenon
  <1>5. Types /\ used' = used /\ listening' = listening /\ backlog' = backlog
    BY <1>1, Zenon DEF IInv, entry
  <1>6. work[p].n \in Nat /\ work[p].c \in Int
    BY <1>4, SMT DEF Works
  <1>7. c >= 0 /\ c \in Int /\ work[p].n + c <= MAX /\ work[p].n < MAX
    BY <1>1, <1>2, <1>4, <1>6, SMT DEF Knows
  <1>8. c - 1 \in -1 .. MAX /\ c - 1 \in Int
    BY <1>4, <1>6, <1>7, SMT
  <1>9. /\ Moves(p) /\ Knows(p)' /\ Acquires(p) /\ pc'[p] \notin {"take", "head", "down"}
        /\ Clears(p) => Clears(p)' /\ lis'[p] = lis[p]
        /\ pc' \in [Procs -> Labels] /\ lis' \in [Procs -> Listeners \cup {None}]
        /\ work' \in [Procs -> Works] /\ after' \in [Procs -> {"idle", "bad"}]
    <2>1. CASE work[p].clr
      <3> DEFINE w == [work[p] EXCEPT !.n = @ + 1]
      <3>1. /\ pc' = [pc EXCEPT ![p] = "drain"] /\ lis' = lis /\ work' = [work EXCEPT ![p] = w]
            /\ after' = after
        BY <2>1, Zenon DEF take_cnt, Goto
      <3>2. w \in Works /\ w.n = work[p].n + 1 /\ w.clr = work[p].clr
        BY <1>4, <1>6, SMT DEF Works
      <3> HIDE DEF w
      <3>3. "drain" \in Labels /\ "drain" \in LockPcs
        BY Zenon DEF Labels, LockPcs
      <3>4. Writes(p, "drain", lis[p], w)
        BY <1>1, <3>1, Before, Zenon DEF Writes
      <3>5. /\ Moves(p) /\ pc'[p] = "drain" /\ lis'[p] = l /\ work'[p] = w
            /\ pc' \in [Procs -> Labels] /\ lis' \in [Procs -> Listeners \cup {None}]
            /\ work' \in [Procs -> Works] /\ after' \in [Procs -> {"idle", "bad"}]
        BY <1>4, <3>2, <3>3, <3>4, WriteStep, Zenon
      <3>6. cnt'[lis'[p]] = c - 1
        BY <1>2, <1>4, <1>5, <3>5, Zenon DEF Types
      <3>7. Knows(p)'
        <4>1. w.n <= MAX /\ w.n + (c - 1) <= MAX
          BY <1>4, <1>6, <1>7, <3>2, SMT
        <4>2. pc'[p] \notin {"store", "tail", "up", "take", "head", "down"}
          BY <3>5, SMT
        <4> QED BY <1>4, <2>1, <3>2, <3>5, <3>6, <4>1, <4>2, Zenon DEF Knows
      <3>8. pc'[p] \notin {"take", "head", "down"}
        BY <3>5, SMT
      <3> QED BY <1>3, <3>5, <3>7, <3>8, Zenon DEF Acquires, Clears
    <2>2. CASE ~work[p].clr
      <3>1. Return(p)
        BY <2>2, Zenon DEF take_cnt
      <3>2. ~Clears(p)
        BY <1>1, <2>2, SMT DEF Clears
      <3> QED BY <3>1, <3>2, ReturnStep, Leaves, Zenon
    <2> QED BY <2>1, <2>2, Zenon
  <1>10. Types'
    BY <1>1, <1>2, <1>4, <1>5, <1>8, <1>9, Zenon DEF Types
  <1>11. \A q \in Procs : Knows(q)'
    BY <1>2, <1>3, <1>4, <1>8, <1>9, StillKnows, Zenon
  <1>12. Exclusive'
    BY <1>9, StillExclusive, Zenon DEF IInv
  <1>13. \A r \in Procs : asleep'[r] => asleep[r] /\ r # p /\ lis'[r] = lis[r] /\ pc'[r] = pc[r]
    BY <1>1, <1>9, Zenon DEF Moves
  <1>14. \A k : Clearing(k) => Clearing(k)'
    BY <1>9, StillClearing, Zenon
  <1>15. \A k \in Listeners : k # l => (Waits(k) => Waits(k)')
    BY <1>2, <1>5, Zenon DEF Waits, Types
  <1>16. \A r \in Procs : asleep[r] /\ lis[r] = l => Clearing(l)
    BY <1>1, Zenon DEF IInv, Takers
  <1>17. AcceptorsBlocked' /\ Sleepers'
    BY <1>13, <1>14, <1>15, <1>16, SleepsOn, Zenon DEF IInv, AcceptorsBlocked, Sleepers
  <1>18. Takers'
    <2> SUFFICES ASSUME NEW k, NEW r \in Procs, NEW q \in Procs, asleep'[r],
                        pc'[q] \in {"take", "head", "down"}, lis'[q] = k, lis'[r] = k
                 PROVE  Clearing(k)'
      BY Zenon DEF Takers
    <2>1. q # p /\ pc[q] = pc'[q] /\ lis[q] = k
      BY <1>9, Zenon DEF Moves
    <2>2. asleep[r] /\ lis[r] = k
      BY <1>13, Zenon
    <2>3. Clearing(k)
      BY <2>1, <2>2, Zenon DEF IInv, Takers
    <2> QED BY <1>14, <2>3, Zenon
  <1> QED BY <1>10, <1>11, <1>12, <1>17, <1>18, Zenon DEF IInv

LEMMA closeInv ==
  ASSUME IInv, NEW p \in Procs, usock_fileclose(p), used[lis[p]]
  PROVE  IInv'
  <1> DEFINE l == lis[p]
  <1>1. /\ pc[p] = "free" /\ ~asleep[p] /\ asleep' = asleep /\ head' = head /\ tail' = tail /\ cnt' = cnt
        /\ used' = [used EXCEPT ![l] = FALSE] /\ listening' = [listening EXCEPT ![l] = FALSE]
        /\ backlog' = [backlog EXCEPT ![l] = 0]
        /\ pc' = [pc EXCEPT ![p] = "clear"] /\ lis' = lis /\ work' = work /\ after' = after
    BY Zenon DEF usock_fileclose, At, Goto, queue
  <1>2. pc[p] \in EntryPcs /\ pc[p] \in Outside /\ "clear" \in Labels
    BY <1>1, Zenon DEF EntryPcs, Outside, Labels
  <1>3. l \in Listeners /\ 0 \in Int /\ 0 \in 0 .. MAX /\ MAX \in Nat \ {0}
    BY <1>2, Here, SMT
  <1>4. Types /\ work[p] \in Works /\ ~work[p].clr /\ work[p].n = 0
    BY <1>2, Before, Zenon
  <1>5. Types'
    BY <1>1, <1>2, <1>3, <1>4, Zenon DEF Types
  <1>6. Moves(p) /\ pc'[p] = "clear"
    BY <1>1, <1>4, Zenon DEF Types, Moves
  <1>7. pc'[p] \notin LockPcs /\ pc'[p] \notin {"store", "tail", "up", "take", "head", "down", "drain"}
    BY <1>6, SMT DEF LockPcs
  <1>8. 0 <= MAX
    BY <1>3, SMT
  <1>9. Knows(p)'
    BY <1>1, <1>3, <1>4, <1>7, <1>8, Zenon DEF Knows
  <1>10. \A q \in Procs : Knows(q)'
    BY <1>1, <1>3, <1>6, <1>9, StillKnows, Zenon
  <1>11. Exclusive'
    BY <1>6, <1>7, StillExclusive, Zenon DEF IInv, Acquires
  <1>12. \A k : Clearing(k) => Clearing(k)'
    <2>1. ~Clears(p)
      BY <1>1, SMT DEF Clears
    <2> QED BY <1>6, <2>1, StillClearing, Zenon
  <1>13. Clearing(l)'
    BY <1>1, <1>6, Zenon DEF Clearing
  <1>14. \A k \in Listeners : k # l => (Waits(k) => Waits(k)')
    BY <1>1, <1>4, Zenon DEF Waits, Types
  <1>15. \A r \in Procs : asleep'[r] => asleep[r] /\ r # p /\ lis'[r] = lis[r] /\ pc'[r] = pc[r]
    BY <1>1, <1>6, Zenon DEF Moves
  <1>16. AcceptorsBlocked' /\ Sleepers'
    <2>1. \A r \in Procs : asleep[r] /\ lis[r] # l => (Waits(lis[r]) => Waits(lis[r])') /\ lis'[r] = lis[r]
      BY <1>1, <1>14, SleepsOn, Zenon
    <2>2. \A r \in Procs : lis[r] = l => Clearing(lis[r])'
      BY <1>1, <1>13, Zenon
    <2>3. \A r \in Procs : Clearing(lis[r]) => Clearing(lis[r])'
      BY <1>1, <1>12, Zenon
    <2>4. AcceptorsBlocked'
      BY <1>15, <2>1, <2>2, <2>3, Zenon DEF IInv, AcceptorsBlocked
    <2>5. Sleepers'
      BY <1>15, Zenon DEF IInv, Sleepers
    <2> QED BY <2>4, <2>5, Zenon
  <1>17. Takers'
    <2> SUFFICES ASSUME NEW k, NEW r \in Procs, NEW q \in Procs, asleep'[r],
                        pc'[q] \in {"take", "head", "down"}, lis'[q] = k, lis'[r] = k
                 PROVE  Clearing(k)'
      BY Zenon DEF Takers
    <2>1. q # p /\ pc[q] = pc'[q] /\ lis[q] = k
      BY <1>6, <1>7, Zenon DEF Moves
    <2>2. asleep[r] /\ lis[r] = k
      BY <1>15, Zenon
    <2>3. Clearing(k)
      BY <2>1, <2>2, Zenon DEF IInv, Takers
    <2> QED BY <1>12, <2>3, Zenon
  <1> QED BY <1>5, <1>10, <1>11, <1>16, <1>17, Zenon DEF IInv

-----------------------------------------------------------------------------
(* The theorems. *)

LEMMA InitInv == Init => IInv
  <1> SUFFICES ASSUME Init PROVE IInv
    OBVIOUS
  <1>1. MAX \in Nat \ {0} /\ 0 \in Slots /\ 0 \in 0 .. MAX /\ 0 \in -1 .. MAX
    BY UnixSockAssumption, SMT DEF MAX, Slots
  <1>2. "idle" \in Labels /\ "idle" \notin LockPcs /\ "idle" \notin EntryPcs
    BY SMT DEF Labels, Outside, Away, LockPcs, EntryPcs
  <1>3. Types
    BY <1>1, <1>2, NoWorkType, Zenon DEF Init, Types
  <1>4. Exclusive /\ Sleepers /\ AcceptorsBlocked /\ Takers
    BY <1>2, Zenon DEF Init, Exclusive, Sleepers, AcceptorsBlocked, Takers
  <1>5. ASSUME NEW p \in Procs PROVE Knows(p)
    <2>1. pc[p] = "idle" /\ work[p] = NoWork
      BY Zenon DEF Init
    <2>2. ~work[p].clr /\ work[p].n = 0 /\ work[p].n <= MAX
      BY <1>1, <2>1, SMT DEF NoWork
    <2>3. pc[p] \notin {"store", "tail", "up", "take", "head", "down", "drain"}
      BY <2>1, SMT
    <2> QED BY <1>2, <2>1, <2>2, <2>3, Zenon DEF Knows
  <1> QED BY <1>3, <1>4, <1>5, Zenon DEF IInv

LEMMA NextInv == IInv /\ [Next]_vars => IInv'
  <1> SUFFICES ASSUME IInv, [Next]_vars PROVE IInv'
    OBVIOUS
  <1>1. CASE UNCHANGED vars
    <2>1. /\ pc' = pc /\ lis' = lis /\ work' = work /\ after' = after /\ asleep' = asleep
          /\ used' = used /\ listening' = listening /\ backlog' = backlog /\ cnt' = cnt
          /\ head' = head /\ tail' = tail
      BY <1>1, Zenon DEF vars, locals, entry, queue
    <2>2. Types' /\ Exclusive' /\ Sleepers'
      BY <2>1, Zenon DEF IInv, Types, Exclusive, Sleepers
    <2>3. \A p \in Procs : Knows(p)'
      BY <2>1, Zenon DEF IInv, Knows
    <2>4. \A l : (Waits(l)' <=> Waits(l)) /\ (Clearing(l)' <=> Clearing(l))
      BY <2>1, Zenon DEF Waits, Clearing
    <2>5. AcceptorsBlocked' /\ Takers'
      BY <2>1, <2>4, Zenon DEF IInv, AcceptorsBlocked, Takers
    <2> QED BY <2>2, <2>3, <2>5, Zenon DEF IInv
  <1>2. CASE Next
    <2>1. PICK p \in Procs :
            \/ sys_socket(p) \/ \E q \in Procs : fork(p, q)
            \/ \E f \in fds[p] :
                 \/ \E n \in Paths : usock_bind(p, f, n) \/ connect_find(p, f, n)
                 \/ usock_listen(p, f) \/ sys_accept(p, f) \/ sys_close(p, f)
            \/ \E n \in {0, USOCK_PENDING_MAX + 1} : usock_listen_set(p, n)
            \/ usock_accept_sleep(p) \/ usock_accept_killed(p) \/ kill(p)
            \/ usock_accept_fail(p) \/ usock_accept(p) \/ take(p) \/ take_head(p) \/ take_cnt(p)
            \/ connect_pipe1(p) \/ connect_pipe2(p) \/ make_endpoint(p) \/ make_endpoint_fail(p)
            \/ connect_test(p) \/ connect_store(p) \/ connect_tail(p) \/ usock_connect(p)
            \/ connect_bad(p)
            \/ fileclose(p) \/ fileclose_panic(p)
            \/ usock_fileclose(p) \/ clear_listener_pending(p) \/ clear_close(p)
      BY <1>2, Zenon DEF Next
    <2>2. {0, USOCK_PENDING_MAX + 1} \subseteq Nat
      BY UnixSockAssumption, SMT
    <2>3. CASE \E f \in fds[p] :
                 \/ \E n \in Paths : usock_bind(p, f, n) \/ connect_find(p, f, n)
                 \/ usock_listen(p, f) \/ sys_accept(p, f) \/ sys_close(p, f)
      BY <2>3, bindInv, listenInv, idleInv, Zenon
    <2>4. CASE \/ sys_socket(p) \/ \E q \in Procs : fork(p, q)
               \/ \E n \in {0, USOCK_PENDING_MAX + 1} : usock_listen_set(p, n)
      BY <2>2, <2>4, idleInv, listenSetInv, Zenon
    <2>5. CASE \/ usock_accept_sleep(p) \/ usock_accept_killed(p) \/ kill(p)
               \/ usock_accept_fail(p) \/ usock_accept(p) \/ take(p) \/ take_head(p) \/ take_cnt(p)
      BY <2>5, sleepInv, acceptReturnInv, acceptInv, takeInv, takeHeadInv, takeCntInv, Zenon
    <2>6. CASE \/ connect_pipe1(p) \/ connect_pipe2(p) \/ make_endpoint(p) \/ make_endpoint_fail(p)
               \/ connect_test(p) \/ connect_store(p) \/ connect_tail(p) \/ usock_connect(p)
               \/ connect_bad(p)
      BY <2>6, connectInv, testInv, storeInv, tailInv, connectedInv, Zenon
    <2>7. CASE \/ fileclose(p) \/ fileclose_panic(p)
               \/ usock_fileclose(p) \/ clear_listener_pending(p) \/ clear_close(p)
      BY <2>7, filecloseInv, closeInv, freeInv, drainInv, clearCloseInv, Zenon
    <2> QED BY <2>1, <2>3, <2>4, <2>5, <2>6, <2>7, Zenon
  <1> QED BY <1>1, <1>2, Zenon

\* What holders of l->lock know of the queue, and acceptors of their listener,
\* in spite of bind and close resetting entries without that lock
\* (unixsock.c:97-104 and 280-287).
THEOREM UnixSockInvariant == Spec => []IInv
  BY InitInv, NextInv, PTL DEF Spec

\* usock_accept (unixsock.c:236-268) sleeps only while there is nothing to
\* accept or a close is on its way to wake it, whatever the order in which
\* bind, listen, connect, kill and close use the entry.
THEOREM UnixSockAcceptors == Spec => []AcceptorsBlocked
  <1>1. IInv => AcceptorsBlocked
    BY Zenon DEF IInv
  <1> QED BY <1>1, UnixSockInvariant, PTL

\* The ring of struct usock_listener and the array fs[] of
\* clear_listener_pending (unixsock.c:28-48) are indexed in bounds, and the
\* count is off by one at worst, however resets fall into the work of a holder
\* of l->lock.
THEOREM UnixSockQueue == Spec => []QueueInBounds
  <1>1. IInv => QueueInBounds
    <2> SUFFICES ASSUME IInv PROVE QueueInBounds
      OBVIOUS
    <2>1. \A l \in Listeners : cnt[l] \in -1 .. MAX /\ head[l] \in Slots /\ tail[l] \in Slots
      BY Zenon DEF IInv, Types
    <2>2. \A p \in Procs : work[p].n <= MAX
      BY Zenon DEF IInv, Knows
    <2> QED BY <2>1, <2>2, Zenon DEF QueueInBounds, MAX
  <1> QED BY <1>1, UnixSockInvariant, PTL
=============================================================================
