------------------------------ MODULE UnixSock ------------------------------
(***************************************************************************)
(* Unix domain sockets (kernel/unixsock.c) over the file table             *)
(* (kernel/file.c) and pipealloc (kernel/pipe.c).  A listener entry is     *)
(* found, bound and freed under usock_lock, but its queue is used under    *)
(* the entry's own lock: bind resets the queue, and close frees the entry, *)
(* while another process holds l->lock.  So what is done under l->lock is  *)
(* split at every access that such a reset can fall between; the build     *)
(* does not optimise (CFLAGS in the Makefile), so each access is made in   *)
(* its place.  Everything else is a step per critical section.             *)
(***************************************************************************)
EXTENDS Integers, Sequences

CONSTANTS
  Procs, Paths,
  NFILE, NUSOCK,
  USOCK_PENDING_MAX,
  MaxConn,     \* bound on calls of connect
  NoMem        \* may kalloc fail?

ASSUME UnixSockAssumption ==
  /\ NFILE \in Nat /\ NUSOCK \in Nat /\ MaxConn \in Nat /\ NoMem \in BOOLEAN
  /\ USOCK_PENDING_MAX \in Nat \ {0}

Files == 1 .. NFILE
Listeners == 1 .. NUSOCK
Slots == 0 .. USOCK_PENDING_MAX - 1
None == 0
NoPath == "none"

VARIABLES
  ref, kind,           \* file table: count, and "none", "sock", or a pipe end "rd" / "wr"
  ust, lid, rx, tx,    \* usock_state, usock_lid, usock_rx, usock_tx of a file
  used, listening, backlog, path,    \* struct usock_listener
  pending, head, tail, cnt,          \* its queue
  fds,       \* the files each process has descriptors for
  pc,
  lis,       \* the listener entry a process is working on
  loc,       \* its files: those of connect, the endpoint taken from a queue,
             \* and those that clear_listener_pending has collected
  work,      \* its work on a queue
  todo,      \* the files it has yet to close
  after,     \* where it goes on after that
  asleep,    \* asleep in accept
  nconn,
  kern       \* "up", or what stopped the kernel

ftable == <<ref, kind, ust, lid, rx, tx>>
entry == <<used, listening, backlog, path>>
queue == <<pending, head, tail, cnt>>
locals == <<lis, loc, work, after>>
vars == <<ftable, entry, queue, fds, pc, locals, todo, asleep, nconn, kern>>

NoFiles == [f |-> None, ends |-> <<None, None, None, None>>, ep |-> None,
            got |-> None, out |-> <<>>]

\* The values of an index and of cnt when they could first be read; is it
\* clear_listener_pending that takes an endpoint, and its n.
NoWork == [i |-> 0, c |-> 0, clr |-> FALSE, n |-> 0]

Init ==
  /\ ref = [f \in Files |-> 0] /\ kind = [f \in Files |-> "none"]
  /\ ust = [f \in Files |-> "INIT"] /\ lid = [f \in Files |-> None]
  /\ rx = [f \in Files |-> None] /\ tx = [f \in Files |-> None]
  /\ used = [l \in Listeners |-> FALSE] /\ listening = [l \in Listeners |-> FALSE]
  /\ backlog = [l \in Listeners |-> 0] /\ path = [l \in Listeners |-> NoPath]
  /\ pending = [l \in Listeners |-> [s \in Slots |-> None]]
  /\ head = [l \in Listeners |-> 0] /\ tail = [l \in Listeners |-> 0]
  /\ cnt = [l \in Listeners |-> 0]
  /\ fds = [p \in Procs |-> {}]
  /\ pc = [p \in Procs |-> "idle"] /\ lis = [p \in Procs |-> None]
  /\ loc = [p \in Procs |-> NoFiles] /\ work = [p \in Procs |-> NoWork]
  /\ todo = [p \in Procs |-> <<>>] /\ after = [p \in Procs |-> "idle"]
  /\ asleep = [p \in Procs |-> FALSE]
  /\ nconn = 0 /\ kern = "up"

At(p, l) == kern = "up" /\ pc[p] = l /\ ~asleep[p]
Goto(p, l) == pc' = [pc EXCEPT ![p] = l]
Forget(p) ==
  /\ lis' = [lis EXCEPT ![p] = None] /\ loc' = [loc EXCEPT ![p] = NoFiles]
  /\ work' = [work EXCEPT ![p] = NoWork] /\ after' = [after EXCEPT ![p] = "idle"]
Return(p) == Goto(p, "idle") /\ Forget(p)

\* Close the files of s and then go on at n.
CloseAll(p, s, n) ==
  /\ todo' = [todo EXCEPT ![p] = s]
  /\ Goto(p, IF s = <<>> THEN n ELSE "close")

\* l->lock is held over these labels.
Locked(l) == \E q \in Procs : lis[q] = l /\
  pc[q] \in {"listen", "store", "tail", "up", "take", "head", "down", "drain"}

wakeup(l) == asleep' = [p \in Procs |-> asleep[p] /\ lis[p] # l]

-----------------------------------------------------------------------------
(* file.c *)

Free == {f \in Files : ref[f] = 0}

\* The first entry of the table when those of S are free.
filealloc(S) == IF S = {} THEN None ELSE CHOOSE f \in S : \A g \in S : f <= g

\* The next file of todo.  A connected socket's pipe ends are closed right
\* after it; for a listener usock_fileclose goes on.
fileclose(p) ==
  LET f == Head(todo[p])
      rest == Tail(todo[p])
      ends == SelectSeq(<<rx[f], tx[f]>>, LAMBDA g : g # None)
      more == IF kind[f] = "sock" /\ ust[f] = "CONN" THEN ends \o rest ELSE rest
      listener == kind[f] = "sock" /\ ust[f] \in {"BOUND", "LISTEN"} /\ lid[f] \in Listeners
  IN
  /\ At(p, "close") /\ f # None /\ ref[f] > 0
  /\ ref' = [ref EXCEPT ![f] = @ - 1]
  /\ IF ref[f] > 1
       THEN CloseAll(p, rest, after[p]) /\ UNCHANGED <<kind, ust, lid, rx, tx, lis>>
       ELSE /\ kind' = [kind EXCEPT ![f] = "none"] /\ ust' = [ust EXCEPT ![f] = "INIT"]
            /\ lid' = [lid EXCEPT ![f] = None]
            /\ rx' = [rx EXCEPT ![f] = None] /\ tx' = [tx EXCEPT ![f] = None]
            /\ IF listener
                 THEN /\ Goto(p, "free") /\ lis' = [lis EXCEPT ![p] = lid[f]]
                      /\ todo' = [todo EXCEPT ![p] = rest]
                 ELSE CloseAll(p, more, after[p]) /\ UNCHANGED lis
  /\ UNCHANGED <<entry, queue, fds, loc, work, after, asleep, nconn, kern>>

\* A file that is not in use, or a null pointer.
fileclose_panic(p) ==
  /\ At(p, "close")
  /\ Head(todo[p]) = None \/ ref[Head(todo[p])] = 0
  /\ kern' = IF Head(todo[p]) = None THEN "null" ELSE "fileclose"
  /\ UNCHANGED <<ftable, entry, queue, fds, pc, locals, todo, asleep, nconn>>

sys_socket(p) ==
  /\ At(p, "idle") /\ fds[p] = {} /\ Free # {}
  /\ ref' = [ref EXCEPT ![filealloc(Free)] = 1]
  /\ kind' = [kind EXCEPT ![filealloc(Free)] = "sock"]
  /\ fds' = [fds EXCEPT ![p] = {filealloc(Free)}]
  /\ UNCHANGED <<ust, lid, rx, tx, entry, queue, pc, locals, todo, asleep, nconn, kern>>

sys_close(p, f) ==
  /\ At(p, "idle")
  /\ fds' = [fds EXCEPT ![p] = @ \ {f}]
  /\ CloseAll(p, <<f>>, "idle")
  /\ UNCHANGED <<ftable, entry, queue, locals, asleep, nconn, kern>>

\* A server forks: the child q has its listening and connected sockets too.
fork(p, q) ==
  /\ At(p, "idle") /\ At(q, "idle") /\ fds[q] = {} /\ fds[p] # {}
  /\ \A f \in fds[p] : ref[f] > 0 /\ ust[f] \in {"LISTEN", "CONN"}
  /\ fds' = [fds EXCEPT ![q] = fds[p]]
  /\ ref' = [f \in Files |-> IF f \in fds[p] THEN ref[f] + 1 ELSE ref[f]]
  /\ UNCHANGED <<kind, ust, lid, rx, tx, entry, queue, pc, locals, todo, asleep, nconn, kern>>

-----------------------------------------------------------------------------
(* The server's side. *)

\* find_listener_locked
Bound(n) == {l \in Listeners : used[l] /\ path[l] = n}

\* Under usock_lock; the queue is emptied by resetting its indices.
usock_bind(p, f, n) ==
  /\ At(p, "idle") /\ kind[f] = "sock" /\ ust[f] = "INIT" /\ lid[f] = None
  /\ Bound(n) = {}
  /\ \E l \in Listeners :
        /\ ~used[l] /\ \A k \in Listeners : k < l => used[k]
        /\ used' = [used EXCEPT ![l] = TRUE]
        /\ listening' = [listening EXCEPT ![l] = FALSE]
        /\ backlog' = [backlog EXCEPT ![l] = 0]
        /\ path' = [path EXCEPT ![l] = n]
        /\ head' = [head EXCEPT ![l] = 0] /\ tail' = [tail EXCEPT ![l] = 0]
        /\ cnt' = [cnt EXCEPT ![l] = 0]
        /\ lid' = [lid EXCEPT ![f] = l]
  /\ ust' = [ust EXCEPT ![f] = "BOUND"]
  /\ UNCHANGED <<ref, kind, rx, tx, pending, fds, pc, locals, todo, asleep, nconn, kern>>

Clamp(n) == IF n <= 0 THEN 1 ELSE IF n > USOCK_PENDING_MAX THEN USOCK_PENDING_MAX ELSE n

\* l->lock is taken and the entry is in use; then listening and backlog are set.
usock_listen(p, f) ==
  /\ At(p, "idle") /\ kind[f] = "sock" /\ ust[f] = "BOUND" /\ lid[f] \in Listeners
  /\ ~Locked(lid[f]) /\ used[lid[f]]
  /\ lis' = [lis EXCEPT ![p] = lid[f]] /\ loc' = [loc EXCEPT ![p].f = f]
  /\ Goto(p, "listen")
  /\ UNCHANGED <<ftable, entry, queue, fds, work, after, todo, asleep, nconn, kern>>

usock_listen_set(p, n) ==
  LET l == lis[p] IN
  /\ At(p, "listen")
  /\ listening' = [listening EXCEPT ![l] = TRUE]
  /\ backlog' = [backlog EXCEPT ![l] = Clamp(n)]
  /\ wakeup(l)
  /\ ust' = [ust EXCEPT ![loc[p].f] = "LISTEN"]
  /\ Return(p)
  /\ UNCHANGED <<ref, kind, lid, rx, tx, used, path, queue, fds, todo, nconn, kern>>

sys_accept(p, f) ==
  /\ At(p, "idle") /\ kind[f] = "sock" /\ ust[f] = "LISTEN" /\ lid[f] \in Listeners
  /\ lis' = [lis EXCEPT ![p] = lid[f]]
  /\ Goto(p, "accept")
  /\ UNCHANGED <<ftable, entry, queue, fds, loc, work, after, todo, asleep, nconn, kern>>

Waits(l) == used[l] /\ listening[l] /\ cnt[l] = 0

\* With l->lock, at the top of the loop: sleep, or return if killed.  A kill
\* between the test and the sleep is not noticed.
usock_accept_sleep(p) ==
  /\ At(p, "accept") /\ ~Locked(lis[p]) /\ Waits(lis[p])
  /\ asleep' = [asleep EXCEPT ![p] = TRUE]
  /\ UNCHANGED <<ftable, entry, queue, fds, pc, locals, todo, nconn, kern>>

usock_accept_killed(p) ==
  /\ At(p, "accept") /\ ~Locked(lis[p]) /\ Waits(lis[p])
  /\ Return(p)
  /\ UNCHANGED <<ftable, entry, queue, fds, todo, asleep, nconn, kern>>

kill(p) ==
  /\ kern = "up" /\ asleep[p]
  /\ asleep' = [asleep EXCEPT ![p] = FALSE]
  /\ UNCHANGED <<ftable, entry, queue, fds, pc, locals, todo, nconn, kern>>

\* After the loop: nothing to accept, or the head of the queue.
usock_accept_fail(p) ==
  LET l == lis[p] IN
  /\ At(p, "accept") /\ ~Locked(l) /\ ~Waits(l)
  /\ ~used[l] \/ ~listening[l] \/ cnt[l] <= 0
  /\ Return(p)
  /\ UNCHANGED <<ftable, entry, queue, fds, todo, asleep, nconn, kern>>

usock_accept(p) ==
  LET l == lis[p] IN
  /\ At(p, "accept") /\ ~Locked(l) /\ used[l] /\ listening[l] /\ cnt[l] > 0
  /\ Goto(p, "take")
  /\ UNCHANGED <<ftable, entry, queue, fds, locals, todo, asleep, nconn, kern>>

\* ep = pending[head], in accept and in clear_listener_pending.
take(p) ==
  LET l == lis[p] IN
  /\ At(p, "take")
  /\ loc' = [loc EXCEPT ![p].got = pending[l][head[l]]]
  /\ work' = [work EXCEPT ![p].i = head[l]]
  /\ Goto(p, "head")
  /\ UNCHANGED <<ftable, entry, queue, fds, lis, after, todo, asleep, nconn, kern>>

\* pending[head] = 0 and head = head + 1: head is read twice more, and a bind
\* may have reset it before either.
take_head(p) ==
  LET l == lis[p]  i == work[p].i IN
  /\ At(p, "head")
  /\ \E h \in {<<i, i>>, <<i, head[l]>>, <<head[l], head[l]>>} :
       /\ pending' = [pending EXCEPT ![l][h[1]] = None]
       /\ head' = [head EXCEPT ![l] = (h[2] + 1) % USOCK_PENDING_MAX]
  /\ work' = [work EXCEPT ![p].c = cnt[l]]
  /\ Goto(p, "down")
  /\ UNCHANGED <<ftable, entry, tail, cnt, fds, lis, loc, after, todo, asleep, nconn, kern>>

\* cnt = cnt - 1, read before or after a reset; accept returns with a
\* descriptor for the endpoint, clear goes on with its loop.
take_cnt(p) ==
  LET l == lis[p]  ep == loc[p].got IN
  /\ At(p, "down")
  /\ \E c \in {cnt[l], work[p].c} : cnt' = [cnt EXCEPT ![l] = c - 1]
  /\ IF work[p].clr
       THEN /\ loc' = [loc EXCEPT ![p].out = Append(@, ep)]
            /\ work' = [work EXCEPT ![p].n = @ + 1]
            /\ Goto(p, "drain") /\ UNCHANGED <<fds, lis, after>>
       ELSE /\ fds' = [fds EXCEPT ![p] = @ \cup ({ep} \ {None})]
            /\ Return(p)
  /\ UNCHANGED <<ftable, entry, pending, head, tail, todo, asleep, nconn, kern>>

-----------------------------------------------------------------------------
(* connect *)

\* Find the listener, under usock_lock, which is then released.
connect_find(p, f, n) ==
  /\ At(p, "idle") /\ kind[f] = "sock" /\ ust[f] = "INIT" /\ lid[f] = None /\ nconn < MaxConn
  /\ \E l \in Bound(n) : lis' = [lis EXCEPT ![p] = l]
  /\ loc' = [loc EXCEPT ![p].f = f]
  /\ Goto(p, "pipe1")
  /\ nconn' = nconn + 1
  /\ UNCHANGED <<ftable, entry, queue, fds, work, after, todo, asleep, kern>>

\* pipealloc number i of connect.  On failure it closes the files it got, but
\* leaves its caller the pointers to them.
pipealloc(p, i, next) ==
  LET f0 == filealloc(Free)
      f1 == filealloc(Free \ {f0})
      got == SelectSeq(<<f0, f1>>, LAMBDA f : f # None)
      ends == [loc[p].ends EXCEPT ![2*i - 1] = f0, ![2*i] = IF f0 = None THEN None ELSE f1]
  IN
  /\ ref' = [f \in Files |-> IF f \in {f0, f1} THEN 1 ELSE ref[f]]
  /\ loc' = [loc EXCEPT ![p].ends = ends]
  /\ \/ /\ f1 # None
        /\ kind' = [kind EXCEPT ![f0] = "rd", ![f1] = "wr"]
        /\ Goto(p, next) /\ UNCHANGED <<todo, after>>
     \/ /\ f1 = None \/ NoMem
        /\ CloseAll(p, got, "bad") /\ after' = [after EXCEPT ![p] = "bad"]
        /\ UNCHANGED kind
  /\ UNCHANGED <<ust, lid, rx, tx, entry, queue, fds, lis, work, asleep, nconn, kern>>

connect_pipe1(p) == At(p, "pipe1") /\ pipealloc(p, 1, "pipe2")
connect_pipe2(p) == At(p, "pipe2") /\ pipealloc(p, 2, "ep")

make_endpoint(p) ==
  LET e == loc[p].ends  n == filealloc(Free) IN
  /\ At(p, "ep") /\ Free # {}
  /\ ref' = [ref EXCEPT ![n] = 1] /\ kind' = [kind EXCEPT ![n] = "sock"]
  /\ ust' = [ust EXCEPT ![n] = "CONN"]
  /\ rx' = [rx EXCEPT ![n] = e[1]] /\ tx' = [tx EXCEPT ![n] = e[4]]
  /\ loc' = [loc EXCEPT ![p].ep = n]
  /\ Goto(p, "push")
  /\ UNCHANGED <<lid, entry, queue, fds, lis, work, after, todo, asleep, nconn, kern>>

make_endpoint_fail(p) ==
  /\ At(p, "ep") /\ Free = {}
  /\ Goto(p, "bad")
  /\ UNCHANGED <<ftable, entry, queue, fds, locals, todo, asleep, nconn, kern>>

\* The test under l->lock.  A reset inside it makes it refuse: only listen,
\* which needs l->lock, makes backlog positive again.
Refuses(l) == ~used[l] \/ ~listening[l] \/ cnt[l] >= backlog[l]

connect_test(p) ==
  /\ At(p, "push") /\ ~Locked(lis[p])
  /\ Goto(p, IF Refuses(lis[p]) THEN "bad" ELSE "store")
  /\ UNCHANGED <<ftable, entry, queue, fds, locals, todo, asleep, nconn, kern>>

\* pending[tail] = server_ep
connect_store(p) ==
  LET l == lis[p] IN
  /\ At(p, "store")
  /\ pending' = [pending EXCEPT ![l][tail[l]] = loc[p].ep]
  /\ work' = [work EXCEPT ![p].i = tail[l]]
  /\ Goto(p, "tail")
  /\ UNCHANGED <<ftable, entry, head, tail, cnt, fds, lis, loc, after, todo, asleep, nconn, kern>>

\* Fault: tail does not wrap.
connect_tail_nowrap(p) ==
  LET l == lis[p] IN
  /\ At(p, "tail")
  /\ \E t \in {tail[l], work[p].i} : tail' = [tail EXCEPT ![l] = t + 1]
  /\ work' = [work EXCEPT ![p].c = cnt[l]]
  /\ Goto(p, "up")
  /\ UNCHANGED <<ftable, entry, pending, head, cnt, fds, lis, loc, after, todo, asleep, nconn, kern>>

\* tail = tail + 1, read before or after a reset.
connect_tail(p) ==
  LET l == lis[p] IN
  /\ At(p, "tail")
  /\ \E t \in {tail[l], work[p].i} : tail' = [tail EXCEPT ![l] = (t + 1) % USOCK_PENDING_MAX]
  /\ work' = [work EXCEPT ![p].c = cnt[l]]
  /\ Goto(p, "up")
  /\ UNCHANGED <<ftable, entry, pending, head, cnt, fds, lis, loc, after, todo, asleep, nconn, kern>>

\* cnt++, likewise, and the caller's socket is connected.
Connected(p) ==
  LET l == lis[p]  f == loc[p].f  e == loc[p].ends IN
  /\ At(p, "up")
  /\ \E c \in {cnt[l], work[p].c} : cnt' = [cnt EXCEPT ![l] = c + 1]
  /\ ust' = [ust EXCEPT ![f] = "CONN"]
  /\ rx' = [rx EXCEPT ![f] = e[3]] /\ tx' = [tx EXCEPT ![f] = e[2]]
  /\ Return(p)
  /\ UNCHANGED <<ref, kind, lid, entry, pending, head, tail, fds, todo, nconn, kern>>

\* Fault: the acceptors are not woken.
usock_connect_nowake(p) == Connected(p) /\ UNCHANGED asleep

usock_connect(p) == Connected(p) /\ wakeup(lis[p])

\* bad: the endpoint if there is one, else every pipe end that is set.
connect_bad(p) ==
  /\ At(p, "bad")
  /\ CloseAll(p, IF loc[p].ep # None THEN <<loc[p].ep>>
                 ELSE SelectSeq(loc[p].ends, LAMBDA f : f # None), "idle")
  /\ Forget(p)
  /\ UNCHANGED <<ftable, entry, queue, fds, asleep, nconn, kern>>

-----------------------------------------------------------------------------
(* close of a listener *)

\* usock_fileclose under usock_lock; an entry that is free already is left alone.
usock_fileclose(p) ==
  LET l == lis[p] IN
  /\ At(p, "free")
  /\ IF used[l]
       THEN /\ used' = [used EXCEPT ![l] = FALSE]
            /\ listening' = [listening EXCEPT ![l] = FALSE]
            /\ backlog' = [backlog EXCEPT ![l] = 0]
            /\ path' = [path EXCEPT ![l] = NoPath]
            /\ Goto(p, "clear") /\ UNCHANGED lis
            /\ UNCHANGED todo
       ELSE /\ CloseAll(p, todo[p], after[p])
            /\ lis' = [lis EXCEPT ![p] = None] /\ UNCHANGED entry
  /\ UNCHANGED <<ftable, queue, fds, loc, work, after, asleep, nconn, kern>>

\* clear_listener_pending: l->lock is taken; while cnt > 0 a file is taken.
clear_listener_pending(p) ==
  /\ (At(p, "clear") /\ ~Locked(lis[p])) \/ At(p, "drain")
  /\ cnt[lis[p]] > 0
  /\ work' = [work EXCEPT ![p].clr = TRUE]
  /\ Goto(p, "take")
  /\ UNCHANGED <<ftable, entry, queue, fds, lis, loc, after, todo, asleep, nconn, kern>>

\* The queue is empty: reset, wake the acceptors and, without the lock, close
\* what was taken.
clear_close(p) ==
  LET l == lis[p] IN
  /\ (At(p, "clear") /\ ~Locked(l)) \/ At(p, "drain")
  /\ cnt[l] <= 0
  /\ head' = [head EXCEPT ![l] = 0] /\ tail' = [tail EXCEPT ![l] = 0]
  /\ wakeup(l)
  /\ CloseAll(p, loc[p].out \o todo[p], after[p])
  /\ lis' = [lis EXCEPT ![p] = None] /\ work' = [work EXCEPT ![p] = NoWork]
  /\ loc' = [loc EXCEPT ![p].out = <<>>, ![p].got = None]
  /\ UNCHANGED <<ftable, entry, pending, cnt, fds, after, nconn, kern>>

-----------------------------------------------------------------------------
Next == \E p \in Procs :
  \/ sys_socket(p) \/ \E q \in Procs : fork(p, q)
  \/ \E f \in fds[p] :
       \/ \E n \in Paths : usock_bind(p, f, n) \/ connect_find(p, f, n)
       \/ usock_listen(p, f) \/ sys_accept(p, f) \/ sys_close(p, f)
  \/ \E n \in {0, USOCK_PENDING_MAX + 1} : usock_listen_set(p, n)
  \/ usock_accept_sleep(p) \/ usock_accept_killed(p) \/ kill(p)
  \/ usock_accept_fail(p) \/ usock_accept(p) \/ take(p) \/ take_head(p) \/ take_cnt(p)
  \/ connect_pipe1(p) \/ connect_pipe2(p) \/ make_endpoint(p) \/ make_endpoint_fail(p)
  \/ connect_test(p) \/ connect_store(p) \/ connect_tail(p) \/ usock_connect(p)
  \/ connect_bad(p)
  \/ fileclose(p) \/ fileclose_panic(p)
  \/ usock_fileclose(p) \/ clear_listener_pending(p) \/ clear_close(p)

Spec == Init /\ [][Next]_vars

-----------------------------------------------------------------------------
(* Properties. *)

\* A close of the entry is under way and has yet to wake its acceptors.
Clearing(l) == \E q \in Procs :
  /\ lis[q] = l
  /\ pc[q] \in {"clear", "drain"} \/ (pc[q] \in {"take", "head", "down"} /\ work[q].clr)

\* usock_accept sleeps only while its listener is open and its queue counts
\* nothing, or else a close is under way that will wake it: connect's wakeup is
\* never missed, whatever bind and close reset under the holder of l->lock.
AcceptorsBlocked ==
  \A p \in Procs : asleep[p] => Waits(lis[p]) \/ Clearing(lis[p])

\* The queue's count never exceeds its array, nor do the endpoints that
\* clear_listener_pending collects in its own array of the same size, although
\* bind resets the count without l->lock, which may leave it one too low.
QueueInBounds ==
  /\ \A l \in Listeners : /\ cnt[l] \in -1 .. USOCK_PENDING_MAX
                          /\ head[l] \in Slots /\ tail[l] \in Slots
  /\ \A p \in Procs : work[p].n <= USOCK_PENDING_MAX
=============================================================================
