-------------------------------- MODULE Tcp --------------------------------
(***************************************************************************)
(* The TCP of kernel/microps/tcp.c on two hosts joined by a network that   *)
(* loses, duplicates and reorders segments, with the descriptors through   *)
(* which processes use it (sysfile.c, file.c, sirpair_sock_user.c).        *)
(*                                                                         *)
(* Every action is one stretch of code that holds the protocol's mutex: a  *)
(* user call up to the point where it sleeps, the same call going on after *)
(* its sleep, the arrival of a segment, the timer.  What the stretch does  *)
(* to the table of control blocks is a record w threaded through the       *)
(* operators named after the C functions: the table p, the segments out,   *)
(* the blocks whose sleepers are woken, the blocks released, and bad, set  *)
(* when the code copies past the end of the receive buffer (what happens   *)
(* afterwards is not modelled).                                            *)
(*                                                                         *)
(* Sequence numbers are SEQMOD wide and are compared the way the code      *)
(* compares them, as plain unsigned integers.  A byte of data is its       *)
(* number in the stream together with the iss of the stream.  Addresses    *)
(* are hosts: a connection always joins the two hosts.                     *)
(***************************************************************************)
EXTENDS Integers, Sequences, FiniteSets, SequencesExt, FiniteSetsExt

CONSTANTS Hosts,       \* the two hosts
          Users,       \* processes
          Casts,       \* the sets of processes that run together
          HostOf,      \* [Users -> Hosts]
          Dials,       \* [Users -> ports the process connects to]
          Serves,      \* [Users -> ports the process listens on]
          Writers, Readers, \* processes that call send, and recv
          TCP_PCB_SIZE,
          BUFSIZE,     \* sizeof(pcb->buf)
          MSS,         \* the mss tcp_send computes from the mtu
          SEQMOD,      \* 2^32
          ISS,         \* [Hosts -> what microps_random may return]
          Ephemeral,   \* TCP_SOURCE_PORT_MIN .. TCP_SOURCE_PORT_MAX
          Writes, Reads, \* sizes asked for by send and recv
          NFD,         \* descriptors of a process
          MaxBytes,    \* bound: bytes written on a connection
          MaxOpen,     \* bound: sockets opened by a process
          MaxFaults    \* bound: losses, duplicates, expiries, kills and failures

VARIABLES pcbs,   \* pcbs[h][i]: the table of each host
          net,    \* net[h]: segments on their way to h, oldest first
          user,   \* descriptors and the call in progress of each process
          bad,    \* whether a receive buffer was overrun, and by what
          faults  \* faults so far

vars == <<pcbs, net, user, bad, faults>>

Idx == 0 .. TCP_PCB_SIZE - 1
Fds == 1 .. NFD
None == -1
Other(h) == CHOOSE g \in Hosts : g # h

FreePcb == [state |-> "FREE", lport |-> 0, fport |-> 0, iss |-> 0, irs |-> 0,
            nxt |-> 0, una |-> 0, swnd |-> 0, wl1 |-> 0, wl2 |-> 0,
            rnxt |-> 0, rwnd |-> 0, buf |-> <<>>, queue |-> <<>>,
            parent |-> None, orphan |-> FALSE, backlog |-> <<>>,
            wrote |-> 0, got |-> <<>>, early |-> FALSE]

Idle == [op |-> "none", fd |-> 0, id |-> None, seen |-> "FREE", left |-> 0,
         asleep |-> FALSE]
NoFd == [id |-> None, kind |-> "none", stale |-> FALSE]

Init == /\ pcbs = [h \in Hosts |-> [i \in Idx |-> FreePcb]]
        /\ net = [h \in Hosts |-> <<>>]
        /\ \E cast \in Casts :
             user = [u \in Users |-> [fd |-> [f \in Fds |-> NoFd], call |-> Idle,
                                      opens |-> IF u \in cast THEN 0 ELSE MaxOpen,
                                      killed |-> FALSE]]
        /\ bad = "no"
        /\ faults = 0

Work(h) == [h |-> h, p |-> pcbs[h], out |-> <<>>, woken |-> {}, freed |-> {}, bad |-> "no"]

-----------------------------------------------------------------------------
(* Control blocks.  orphan, and the stale mark of a backlog entry, record   *)
(* that the block a pointer leads to has been released since it was set.    *)

Lowest(S) == IF S = {} THEN None ELSE Min(S)

tcp_pcb_alloc(w) == Lowest({i \in Idx : w.p[i].state = "FREE"})

Opened(w, i) == [w EXCEPT !.p[i].state = "CLOSED"]

RECURSIVE tcp_pcb_release(_, _)
tcp_pcb_release(w, i) ==
  LET forget(p) == [j \in Idx |->
        [p[j] EXCEPT !.orphan = @ \/ p[j].parent = i,
                     !.backlog = [k \in DOMAIN @ |->
                         [@[k] EXCEPT !.stale = @ \/ p[j].backlog[k].id = i]]]]
      rest == FoldLeft(LAMBDA v, e : tcp_pcb_release(v, e.id),
                       [w EXCEPT !.p[i].backlog = <<>>], w.p[i].backlog)
  IN  [rest EXCEPT !.p = [forget(rest.p) EXCEPT ![i] = FreePcb],
                   !.freed = @ \cup {i}]

Dropped(w, i) == tcp_pcb_release([w EXCEPT !.p[i].state = "CLOSED"], i)

\* The block of a connection, or else the last listening block of the port.
tcp_pcb_select(p, lport, fport) ==
  LET bound  == {i \in Idx : p[i].lport = lport}
      exact  == {i \in bound : p[i].fport = fport}
      listen == {i \in bound : p[i].state = "LISTEN" /\ p[i].fport = 0}
  IN  IF exact # {} THEN Min(exact)
      ELSE IF listen # {} THEN Max(listen) ELSE None

-----------------------------------------------------------------------------
(* Output and retransmission.                                               *)

tcp_output_segment(w, lport, fport, seq, ack, flg, wnd, data, past) ==
  [w EXCEPT !.out = Append(@, [lport |-> fport, fport |-> lport, seq |-> seq, ack |-> ack,
                               flg |-> flg, wnd |-> wnd, data |-> data, past |-> past])]

\* Fault: a segment always offers the whole buffer as its window.
Emit_fullwnd(w, i, e) ==
  tcp_output_segment(w, w.p[i].lport, w.p[i].fport, e.seq,
                     w.p[i].rnxt, e.flg, BUFSIZE, e.data, e.past)

\* An entry goes out with what the block knows of the other side by now.
Emit(w, i, e) == tcp_output_segment(w, w.p[i].lport, w.p[i].fport, e.seq,
                                    w.p[i].rnxt, e.flg, w.p[i].rwnd, e.data, e.past)

tcp_output(w, i, flg, data) ==
  LET e == [seq |-> IF "SYN" \in flg THEN w.p[i].iss ELSE w.p[i].nxt,
            flg |-> flg, data |-> data,
            past |-> Len(data) > w.p[i].swnd - ((w.p[i].nxt - w.p[i].una) % SEQMOD)]
      v == IF flg \cap {"SYN", "FIN"} # {} \/ data # <<>>
           THEN [w EXCEPT !.p[i].queue = Append(@, e)] ELSE w
  IN  Emit(v, i, e)

Ack(w, i) == tcp_output(w, i, {"ACK"}, <<>>)

\* The SYN is queued and sent before snd.una and snd.nxt are set.
SynOut(w, i, flg, state) ==
  [tcp_output(w, i, flg, <<>>) EXCEPT !.p[i].nxt = (w.p[i].iss + 1) % SEQMOD,
                                      !.p[i].una = w.p[i].iss,
                                      !.p[i].state = state]

\* Fault: the FIN does not take a sequence number.
FinOut_nonxt(w, i, state) ==
  [tcp_output(w, i, {"ACK", "FIN"}, <<>>) EXCEPT !.p[i].state = state]

FinOut(w, i, state) ==
  [tcp_output(w, i, {"ACK", "FIN"}, <<>>) EXCEPT !.p[i].nxt = (@ + 1) % SEQMOD,
                                                 !.p[i].state = state]

RECURSIVE tcp_retransmit_queue_cleanup(_, _)
tcp_retransmit_queue_cleanup(queue, una) ==
  IF queue = <<>> \/ Head(queue).seq >= una THEN queue
  ELSE tcp_retransmit_queue_cleanup(Tail(queue), una)

-----------------------------------------------------------------------------
(* Segment arrives.                                                         *)

SegLen(s) == Len(s.data) + Cardinality(s.flg \cap {"SYN", "FIN"})

Reset(w, s) == tcp_output_segment(w, s.lport, s.fport, s.ack, 0, {"RST"}, 0, <<>>, FALSE)

arrives_closed(w, s) ==
  IF "RST" \in s.flg THEN w
  ELSE IF "ACK" \in s.flg THEN Reset(w, s)
  ELSE tcp_output_segment(w, s.lport, s.fport, 0, (s.seq + SegLen(s)) % SEQMOD,
                          {"RST", "ACK"}, 0, <<>>, FALSE)

\* iss is the random number drawn for the block of the new connection.
arrives_listen(w, i, s, iss) ==
  LET n == tcp_pcb_alloc(w)
  IN  IF "RST" \in s.flg THEN w
      ELSE IF "ACK" \in s.flg THEN Reset(w, s)
      ELSE IF "SYN" \notin s.flg \/ n = None THEN w
      ELSE SynOut([Opened(w, n) EXCEPT
                     !.p[n].parent = i, !.p[n].lport = s.lport, !.p[n].fport = s.fport,
                     !.p[n].rwnd = BUFSIZE, !.p[n].rnxt = (s.seq + 1) % SEQMOD,
                     !.p[n].irs = s.seq, !.p[n].iss = iss],
                  n, {"SYN", "ACK"}, "SYN_RECEIVED")

arrives_syn_sent(w, i, s) ==
  LET b == w.p[i]
      acked == "ACK" \in s.flg
      acceptable == acked /\ b.una <= s.ack
      v == [w EXCEPT !.p[i].rnxt = (s.seq + 1) % SEQMOD, !.p[i].irs = s.seq,
                     !.p[i].una = IF acceptable THEN s.ack ELSE @,
                     !.p[i].queue = IF acceptable
                                    THEN tcp_retransmit_queue_cleanup(@, s.ack) ELSE @]
  IN  IF acked /\ (s.ack <= b.iss \/ s.ack > b.nxt) THEN Reset(w, s)
      ELSE IF "RST" \in s.flg THEN IF acceptable THEN Dropped(w, i) ELSE w
      ELSE IF "SYN" \notin s.flg THEN w
      ELSE IF v.p[i].una > b.iss
      THEN [Ack([v EXCEPT !.p[i].state = "ESTABLISHED"], i)
              EXCEPT !.p[i].swnd = s.wnd, !.p[i].wl1 = s.seq, !.p[i].wl2 = s.ack,
                     !.woken = @ \cup {i}]
      ELSE tcp_output([v EXCEPT !.p[i].state = "SYN_RECEIVED"], i, {"SYN", "ACK"}, <<>>)

\* First check: the segment begins or ends inside the receive window.
Acceptable(b, s) ==
  LET edge == (b.rnxt + b.rwnd) % SEQMOD
      last == (s.seq + SegLen(s) - 1) % SEQMOD
      inside(q) == b.rnxt <= q /\ q < edge
  IN  IF SegLen(s) = 0 THEN IF b.rwnd = 0 THEN s.seq = b.rnxt ELSE inside(s.seq)
      ELSE b.rwnd > 0 /\ (inside(s.seq) \/ inside(last))

\* Fifth check, for a segment that goes on to the text: una, the queue, the
\* send window and the states of a close.
Acked(w, i, s) ==
  LET b == w.p[i]
      new == b.una < s.ack /\ s.ack <= b.nxt
      opens == new /\ (b.wl1 < s.seq \/ (b.wl1 = s.seq /\ b.wl2 <= s.ack))
      v == [w EXCEPT !.p[i].una = IF new THEN s.ack ELSE @,
                     !.p[i].queue = IF new THEN tcp_retransmit_queue_cleanup(@, s.ack) ELSE @,
                     !.p[i].swnd = IF opens THEN s.wnd ELSE @,
                     !.p[i].wl1 = IF opens THEN s.seq ELSE @,
                     !.p[i].wl2 = IF opens THEN s.ack ELSE @]
      fin == s.ack = b.nxt
  IN  CASE b.state = "FIN_WAIT1" /\ fin -> [v EXCEPT !.p[i].state = "FIN_WAIT2"]
        [] b.state = "CLOSING" /\ fin ->
             [v EXCEPT !.p[i].state = "TIME_WAIT", !.woken = @ \cup {i}]
        [] b.state = "TIME_WAIT" -> w
        [] OTHER -> v

\* Fault: the sleeper in accept is not woken.
Established_nowake(w, i) ==
  LET up == w.p[i].parent
      v == [w EXCEPT !.p[i].state = "ESTABLISHED", !.woken = @ \cup {i}]
  IN  IF up = None THEN v
      ELSE [v EXCEPT !.p[up].backlog = Append(@, [id |-> i, stale |-> FALSE])]

\* The connection of a listening socket is complete: it joins the backlog of
\* its parent, whatever that block is by now.
Established(w, i) ==
  LET up == w.p[i].parent
      v == [w EXCEPT !.p[i].state = "ESTABLISHED", !.woken = @ \cup {i}]
  IN  IF up = None THEN v
      ELSE [v EXCEPT !.p[up].backlog = Append(@, [id |-> i, stale |-> FALSE]),
                     !.woken = @ \cup {up}]

\* Fault: the next number expected is one past the segment.
Text_ahead(w, i, s) ==
  LET b == w.p[i]
  IN  IF s.data = <<>> \/ b.state \notin {"ESTABLISHED", "FIN_WAIT1", "FIN_WAIT2"} THEN w
      ELSE IF Len(s.data) > b.rwnd THEN [w EXCEPT !.bad = "past"]
      ELSE Ack([w EXCEPT !.p[i].buf = @ \o s.data, !.p[i].rwnd = @ - Len(s.data),
                         !.p[i].rnxt = (s.seq + SegLen(s) + 1) % SEQMOD], i)

\* Seventh step, the text of the segment.  early: it does not begin at rnxt.
Text(w, i, s) ==
  LET b == w.p[i]
  IN  IF s.data = <<>> \/ b.state \notin {"ESTABLISHED", "FIN_WAIT1", "FIN_WAIT2"} THEN w
      ELSE IF Len(s.data) > b.rwnd THEN [w EXCEPT !.bad = IF s.past THEN "past" ELSE "inside"]
      ELSE [Ack([w EXCEPT !.p[i].buf = @ \o s.data,
                          !.p[i].rnxt = (s.seq + SegLen(s)) % SEQMOD,
                          !.p[i].rwnd = @ - Len(s.data),
                          !.p[i].early = @ \/ s.seq # b.rnxt], i)
              EXCEPT !.woken = @ \cup {i}]

\* Eighth step, the FIN.
Fin(w, i, s) ==
  LET b == w.p[i]
      v == Ack([w EXCEPT !.p[i].rnxt = (s.seq + 1) % SEQMOD,
                         !.p[i].early = @ \/ s.seq # b.rnxt], i)
  IN  IF "FIN" \notin s.flg THEN w
      ELSE CASE b.state = "ESTABLISHED" ->
                  [v EXCEPT !.p[i].state = "CLOSE_WAIT", !.woken = @ \cup {i}]
             [] b.state = "FIN_WAIT1" ->
                  [v EXCEPT !.p[i].state = IF s.ack = b.nxt THEN "TIME_WAIT" ELSE "CLOSING"]
             [] b.state = "FIN_WAIT2" -> [v EXCEPT !.p[i].state = "TIME_WAIT"]
             [] OTHER -> v

arrives_otherwise(w, i, s) ==
  LET b == w.p[i]
      synrcvd == b.state = "SYN_RECEIVED"
      go == Fin(Text(Acked(IF synrcvd THEN Established(w, i) ELSE w, i, s), i, s), i, s)
  IN  IF ~Acceptable(b, s) THEN IF "RST" \in s.flg THEN w ELSE Ack(w, i)
      ELSE IF "RST" \in s.flg THEN Dropped(w, i)
      ELSE IF "SYN" \in s.flg THEN Dropped(tcp_output(w, i, {"RST"}, <<>>), i)
      ELSE IF "ACK" \notin s.flg THEN w
      ELSE IF synrcvd /\ (s.ack < b.una \/ s.ack > b.nxt) THEN Reset(w, s)
      ELSE IF b.state = "LAST_ACK" THEN IF s.ack = b.nxt THEN Dropped(w, i) ELSE w
      ELSE IF s.ack > b.nxt /\ b.state # "TIME_WAIT" THEN Ack(w, i)
      ELSE go

tcp_segment_arrives(w, s, iss) ==
  LET i == tcp_pcb_select(w.p, s.lport, s.fport)
  IN  IF i = None \/ w.p[i].state = "CLOSED" THEN arrives_closed(w, s)
      ELSE CASE w.p[i].state = "LISTEN"   -> arrives_listen(w, i, s, iss)
             [] w.p[i].state = "SYN_SENT" -> arrives_syn_sent(w, i, s)
             [] OTHER                     -> arrives_otherwise(w, i, s)

-----------------------------------------------------------------------------
(* Processes.  Leave(w) ends a stretch under the mutex: any of the segments *)
(* put out may be lost, the acceptors of woken blocks run again, and the    *)
(* descriptors of released blocks are stale from then on.                   *)

Settled(us, w) ==
  [u \in Users |->
     IF HostOf[u] # w.h THEN us[u]
     ELSE [us[u] EXCEPT
             !.fd = [f \in Fds |-> [@[f] EXCEPT !.stale = @ \/ us[u].fd[f].id \in w.freed]],
             !.call.asleep = @ /\ us[u].call.id \notin w.woken]]

Surviving(out, lost) ==
  FoldLeftDomain(LAMBDA acc, k : IF k \in lost THEN acc ELSE Append(acc, out[k]), <<>>, out)

Leave(w, here, us, cost) ==
  \E lost \in SUBSET DOMAIN w.out :
    /\ pcbs' = [pcbs EXCEPT ![w.h] = w.p]
    /\ net' = [net EXCEPT ![w.h] = here,
                          ![Other(w.h)] = @ \o Surviving(w.out, lost)]
    /\ user' = Settled(us, w)
    /\ bad' = w.bad
    /\ faults' = faults + cost + Cardinality(lost)
    /\ faults' <= MaxFaults

Go(w, us) == Leave(w, net[w.h], us, 0)
Fault(w, us) == Leave(w, net[w.h], us, 1)

Free(u) == user[u].call = Idle /\ ~user[u].killed

Return(u) == [user EXCEPT ![u].call = Idle]

Me(u) == Work(HostOf[u])
Pcb(u, i) == pcbs[HostOf[u]][i]

Spare(u) == {f \in Fds : user[u].fd[f] = NoFd}

\* sys_socket, net_tcp_user_alloc and tcp_open.  Without a descriptor left,
\* sys_socket closes the block, and tcp_close does nothing to a CLOSED one.
tcp_open(u) ==
  LET i == tcp_pcb_alloc(Me(u))
      new == [id |-> i, kind |-> "new", stale |-> FALSE]
  IN  /\ Free(u) /\ user[u].opens < MaxOpen /\ i # None
      /\ Go(Opened(Me(u), i),
            [user EXCEPT ![u].opens = @ + 1,
                         ![u].fd = [f \in Fds |-> IF f = Lowest(Spare(u)) THEN new ELSE @[f]]])

\* tcp_bind, refused when any block of the host has the port.
tcp_bind(u, f) ==
  LET i == user[u].fd[f].id
  IN  /\ Free(u) /\ user[u].fd[f].kind = "new" /\ Pcb(u, i).state # "FREE"
      /\ \E port \in Serves[u] :
           /\ \A j \in Idx : Pcb(u, j).lport # port
           /\ Go([Me(u) EXCEPT !.p[i].lport = port], [user EXCEPT ![u].fd[f].kind = "bound"])

\* tcp_listen asks nothing of the state of the block.
tcp_listen(u, f) ==
  LET i == user[u].fd[f].id
  IN  /\ Free(u) /\ user[u].fd[f].kind = "bound" /\ Pcb(u, i).state # "FREE"
      /\ Go([Me(u) EXCEPT !.p[i].state = "LISTEN"], [user EXCEPT ![u].fd[f].kind = "listen"])

\* tcp_connect up to its sleep.  Output fails while ARP has no answer.  A
\* process connects a descriptor, or binds it, once.
tcp_connect(u, f) ==
  LET i == user[u].fd[f].id
  IN  /\ Free(u) /\ user[u].fd[f].kind = "new" /\ Pcb(u, i).state # "FREE"
      /\ \E port \in Dials[u], iss \in ISS[HostOf[u]], sent \in BOOLEAN :
           LET free == {q \in Ephemeral : tcp_pcb_select(pcbs[HostOf[u]], q, port) = None}
               lport == IF Pcb(u, i).lport # 0 THEN Pcb(u, i).lport
                        ELSE IF free = {} THEN Max(Ephemeral) ELSE Min(free)
               w == [Me(u) EXCEPT !.p[i].lport = lport, !.p[i].fport = port,
                                  !.p[i].rwnd = BUFSIZE, !.p[i].iss = iss]
           IN  IF sent
               THEN Go(SynOut(w, i, {"SYN"}, "SYN_SENT"),
                          [user EXCEPT ![u].fd[f].kind = "conn",
                             ![u].call = [Idle EXCEPT !.op = "connect", !.fd = f, !.id = i,
                                                      !.seen = "SYN_SENT"]])
               ELSE Fault(Dropped(w, i), [user EXCEPT ![u].fd[f].kind = "conn"])

\* The sleeping connect looks at the block it was given, whoever has it now.
tcp_connect_wake(u) ==
  LET c == user[u].call
      now == Pcb(u, c.id).state
  IN  /\ c.op = "connect" /\ now # c.seen
      /\ CASE now = "ESTABLISHED"  -> Go(Me(u), Return(u))
           [] now = "SYN_RECEIVED" -> Go(Me(u), [user EXCEPT ![u].call.seen = now])
           [] OTHER                -> Go(Dropped(Me(u), c.id), Return(u))

\* Its time is up while the state is still the one it waits to see change.
tcp_connect_timeout(u) ==
  LET c == user[u].call
  IN  /\ c.op = "connect" /\ Pcb(u, c.id).state = c.seen
      /\ Fault(Dropped(Me(u), c.id), Return(u))

\* Fault: the block is cleared without tcp_pcb_release, and nobody is woken.
Closed_memset(w, i) ==
  CASE w.p[i].state \in {"LISTEN", "SYN_SENT"} ->
         [w EXCEPT !.p[i] = FreePcb, !.freed = @ \cup {i}]
    [] w.p[i].state \in {"SYN_RECEIVED", "ESTABLISHED"} -> FinOut(w, i, "FIN_WAIT1")
    [] w.p[i].state = "CLOSE_WAIT" -> FinOut(w, i, "LAST_ACK")
    [] OTHER -> w

\* tcp_close, every state of it.
Closed(w, i) ==
  CASE w.p[i].state \in {"LISTEN", "SYN_SENT"} -> Dropped(w, i)
    [] w.p[i].state \in {"SYN_RECEIVED", "ESTABLISHED"} ->
         [FinOut(w, i, "FIN_WAIT1") EXCEPT !.woken = @ \cup {i}]
    [] w.p[i].state = "CLOSE_WAIT" ->
         [FinOut(w, i, "LAST_ACK") EXCEPT !.woken = @ \cup {i}]
    [] OTHER -> w

\* close of a descriptor by the process, or by exit after a kill.
tcp_close(u, f) ==
  /\ user[u].call = Idle /\ user[u].fd[f] # NoFd
  /\ Go(Closed(Me(u), user[u].fd[f].id), [user EXCEPT ![u].fd[f] = NoFd])

\* The loop of tcp_accept: take the oldest connection, or go to sleep.
AcceptLoop(u, c) ==
  LET b == Pcb(u, c.id)
      w == [Me(u) EXCEPT !.p[c.id].backlog = Tail(@)]
      e == Head(b.backlog)
  IN  IF b.backlog = <<>>
      THEN Go(Me(u), [user EXCEPT ![u].call = [c EXCEPT !.asleep = TRUE]])
      ELSE IF Spare(u) # {}
      THEN Go(w, [Return(u) EXCEPT ![u].fd[Min(Spare(u))] =
                           [id |-> e.id, kind |-> "conn", stale |-> e.stale]])
      ELSE Go(Closed(w, e.id), Return(u))

tcp_accept(u, f) ==
  LET i == user[u].fd[f].id
  IN  /\ Free(u) /\ user[u].fd[f].kind = "listen" /\ Pcb(u, i).state = "LISTEN"
      /\ AcceptLoop(u, [Idle EXCEPT !.op = "accept", !.fd = f, !.id = i])

tcp_accept_wake(u) ==
  LET c == user[u].call
  IN  /\ c.op = "accept" /\ ~c.asleep
      /\ IF Pcb(u, c.id).state = "CLOSED"
         THEN Go(tcp_pcb_release(Me(u), c.id), Return(u))
         ELSE AcceptLoop(u, c)

\* The loop of tcp_send: segments as long as there is room, then sleep.
RECURSIVE SendLoop(_, _, _)
SendLoop(w, i, left) ==
  LET b == w.p[i]
      cap == (b.swnd - (b.nxt - b.una)) % SEQMOD
      probe == b.swnd = 0 /\ b.nxt = b.una
      room == IF probe THEN MSS ELSE cap
      slen == Min({MSS, left, room})
      data == [k \in 1 .. slen |-> [iss |-> b.iss, n |-> b.wrote + k]]
  IN  IF left = 0 \/ room = 0 THEN [w |-> w, left |-> left]
      ELSE SendLoop([tcp_output(w, i, {"ACK"}, data) EXCEPT
                       !.p[i].nxt = (@ + slen) % SEQMOD, !.p[i].wrote = @ + slen], i, left - slen)

SendFrom(u, c) ==
  LET r == SendLoop(Me(u), c.id, c.left)
  IN  IF Pcb(u, c.id).state \notin {"ESTABLISHED", "CLOSE_WAIT"}
      THEN Go(Me(u), Return(u))
      ELSE \/ Go(r.w, IF r.left = 0 THEN Return(u)
                             ELSE [user EXCEPT ![u].call = [c EXCEPT !.left = r.left]])
           \/ \E m \in 0 .. Len(r.w.out) - 1 :
                Fault(Dropped([r.w EXCEPT !.out = SubSeq(@, 1, m)], c.id), Return(u))

tcp_send(u, f) ==
  /\ Free(u) /\ u \in Writers /\ user[u].fd[f].kind = "conn"
  /\ \E n \in Writes :
       LET i == user[u].fd[f].id
       IN  /\ Pcb(u, i).state # "FREE" /\ Pcb(u, i).wrote + n <= MaxBytes
           /\ SendFrom(u, [Idle EXCEPT !.op = "send", !.fd = f, !.id = i, !.left = n])

tcp_send_wake(u) == user[u].call.op = "send" /\ SendFrom(u, user[u].call)

\* tcp_receive: what the buffer holds, end of file, an error, or sleep.
ReceiveFrom(u, c) ==
  LET b == Pcb(u, c.id)
      remain == BUFSIZE - b.rwnd
      n == Min({c.left, remain})
      open == b.state \in {"ESTABLISHED", "FIN_WAIT1", "FIN_WAIT2"}
  IN  IF (open \/ b.state = "CLOSE_WAIT") /\ remain > 0
      THEN Go([Me(u) EXCEPT !.p[c.id].buf = SubSeq(@, n + 1, Len(@)),
                               !.p[c.id].got = @ \o SubSeq(b.buf, 1, n),
                               !.p[c.id].rwnd = @ + n], Return(u))
      ELSE Go(Me(u), IF open THEN [user EXCEPT ![u].call = c] ELSE Return(u))

tcp_receive(u, f) ==
  /\ Free(u) /\ u \in Readers /\ user[u].fd[f].kind = "conn"
  /\ \E n \in Reads :
       LET i == user[u].fd[f].id
       IN  /\ Pcb(u, i).state # "FREE"
           /\ ReceiveFrom(u, [Idle EXCEPT !.op = "receive", !.fd = f, !.id = i, !.left = n])

tcp_receive_wake(u) == user[u].call.op = "receive" /\ ReceiveFrom(u, user[u].call)

\* A kill ends the sleep of any call; a connect gives up its block.
kill(u) ==
  LET c == user[u].call
      dead == [Return(u) EXCEPT ![u].killed = TRUE]
  IN  /\ c # Idle
      /\ Fault(IF c.op = "connect" THEN Dropped(Me(u), c.id) ELSE Me(u), dead)

\* A segment arrives.  It is a fault to overtake another, or to come again.
tcp_input(h, k) ==
  \E iss \in ISS[h], again \in BOOLEAN :
    Leave(tcp_segment_arrives(Work(h), net[h][k], iss),
          IF again THEN net[h] ELSE RemoveAt(net[h], k), user,
          (IF again THEN 1 ELSE 0) + (IF k > 1 THEN 1 ELSE 0))

\* The timer, when one block of the host has something due: time-wait is
\* over, or an entry of the queue is to be sent again or is given up.
tcp_timer(h) ==
  \E i \in Idx :
    LET b == pcbs[h][i]
    IN  \/ b.state = "TIME_WAIT" /\ Go(tcp_pcb_release(Work(h), i), user)
        \/ \E k \in DOMAIN b.queue :
             \/ Leave(Emit(Work(h), i, b.queue[k]), net[h], user,
                      IF \A g \in Hosts : net[g] = <<>> THEN 0 ELSE 1)
             \/ Fault([Work(h) EXCEPT !.p[i].state = "CLOSED", !.woken = {i}], user)

Step(u) == \/ tcp_open(u) \/ tcp_connect_wake(u) \/ tcp_connect_timeout(u)
           \/ tcp_accept_wake(u) \/ tcp_send_wake(u) \/ tcp_receive_wake(u) \/ kill(u)
           \/ \E f \in Fds : \/ tcp_bind(u, f) \/ tcp_listen(u, f) \/ tcp_connect(u, f)
                             \/ tcp_close(u, f) \/ tcp_accept(u, f) \/ tcp_send(u, f) \/ tcp_receive(u, f)

Next == /\ bad = "no"
        /\ \/ \E u \in Users : Step(u)
           \/ \E h \in Hosts : tcp_timer(h) \/ \E k \in DOMAIN net[h] : tcp_input(h, k)

Spec == Init /\ [][Next]_vars

-----------------------------------------------------------------------------
States == {"FREE", "CLOSED", "LISTEN", "SYN_SENT", "SYN_RECEIVED", "ESTABLISHED",
           "FIN_WAIT1", "FIN_WAIT2", "CLOSING", "TIME_WAIT", "CLOSE_WAIT", "LAST_ACK"}
Synchronised == States \ {"FREE", "CLOSED", "LISTEN", "SYN_SENT"}
FinSeen == {"CLOSE_WAIT", "LAST_ACK", "CLOSING", "TIME_WAIT"}
Off(x, base) == (x - base) % SEQMOD
Bytes(b) == b.got \o b.buf
Blocks == {pcbs[h][i] : h \in Hosts, i \in Idx}

\* The fields of a block are in range, the window is what is left of the
\* buffer while data may arrive, and a process never waits on a descriptor
\* it does not have.
TypeOK ==
  /\ \A b \in Blocks :
       /\ b.state \in States
       /\ {b.iss, b.irs, b.nxt, b.una, b.wl1, b.wl2, b.rnxt} \subseteq 0 .. SEQMOD - 1
       /\ b.state \in Synchronised => b.rwnd = BUFSIZE - Len(b.buf)
  /\ \A u \in Users : user[u].call # Idle => user[u].fd[user[u].call.fd].id = user[u].call.id
  /\ bad \in {"no", "past", "inside"}

\* Whatever the network loses, repeats or reorders, the bytes put in the
\* receive buffer (the memcpy of tcp_segment_arrives) are bytes of the
\* connection's own peer, in the order they were written, none twice.
StreamOrdered ==
  \A b \in Blocks :
    \A k \in DOMAIN Bytes(b) :
      /\ Bytes(b)[k].iss = b.irs
      /\ k > 1 => Bytes(b)[k - 1].n < Bytes(b)[k].n

\* The code takes any segment that touches the window as the next one.  Only
\* so are bytes skipped: until a segment arrived that did not begin at
\* RCV.NXT, every byte that RCV.NXT has passed was put in the buffer.
GapsByOvertaking ==
  \A b \in Blocks :
    b.state \in Synchronised /\ ~b.early =>
      /\ Len(Bytes(b)) = Off(b.rnxt, b.irs) - 1 - (IF b.state \in FinSeen THEN 1 ELSE 0)
      /\ \A k \in DOMAIN Bytes(b) : Bytes(b)[k].n = k

\* The two ends of a connection agree: what one end holds as acknowledged
\* the other has passed, and the other has passed nothing that was not sent.
AckedIsPassed ==
  \A h \in Hosts, i, j \in Idx :
    LET b == pcbs[h][i]
        c == pcbs[Other(h)][j]
    IN  /\ {b.state, c.state} \subseteq Synchronised
        /\ b.lport = c.fport /\ b.fport = c.lport /\ b.iss = c.irs
        => Off(b.una, b.iss) <= Off(c.rnxt, c.irs) /\ Off(c.rnxt, c.irs) <= Off(b.nxt, b.iss)

\* The receive buffer is overrun only by a segment that tcp_send sent beyond
\* the window it had been told of: its probe of a closed window is as long
\* as an MSS, and afterwards snd.wnd - (nxt - una) wraps.
OverrunOnlyPastWindow == bad # "inside"

\* Comparisons without regard to wrapping never let a connection pass the
\* top of the sequence space: no acknowledgment and no data beyond it count.
NeverPastWrap ==
  \A b \in Blocks :
    b.state \in Synchronised => b.una >= b.iss /\ (Bytes(b) # <<>> => b.rnxt > b.irs)

Holds(u, f, i) == user[u].fd[f].id = i /\ ~user[u].fd[f].stale

\* A connection is handed out once: two descriptors lead to one block only
\* when the block was released under one of them.
OneDescriptor ==
  \A u, v \in Users, f, g \in Fds : \A i \in Idx :
    HostOf[u] = HostOf[v] /\ Holds(u, f, i) /\ Holds(v, g, i) => u = v /\ f = g

\* A process sleeps in accept only while its listening socket has nothing to
\* accept, or after the block was released under it (nothing wakes it then).
AcceptorsWoken ==
  \A u \in Users :
    LET c == user[u].call
    IN  c.op = "accept" /\ c.asleep =>
          \/ user[u].fd[c.fd].stale
          \/ Pcb(u, c.id).state = "LISTEN" /\ Pcb(u, c.id).backlog = <<>>

\* A connection that nothing will ever close has an owner: a descriptor, the
\* backlog of a listening socket, or (the one exception) it was completed
\* after its listening socket had been released.
LiveIsOwned ==
  \A h \in Hosts, i \in Idx :
    pcbs[h][i].state \in {"LISTEN", "SYN_SENT", "ESTABLISHED", "CLOSE_WAIT"} =>
      \/ \E u \in Users, f \in Fds : HostOf[u] = h /\ Holds(u, f, i)
      \/ \E j \in Idx : \E k \in DOMAIN pcbs[h][j].backlog :
           pcbs[h][j].state = "LISTEN" /\ pcbs[h][j].backlog[k] = [id |-> i, stale |-> FALSE]
      \/ pcbs[h][i].orphan


\* What is received is the peer's stream, with gaps only where a segment was
\* taken for an earlier one.
StreamIntact == StreamOrdered /\ GapsByOvertaking

\* Both ends agree on what was sent and acknowledged, and stop at the wrap.
EndsAgree == TypeOK /\ AckedIsPassed /\ NeverPastWrap

\* Control blocks and descriptors: one descriptor for a block, and no live
\* connection without an owner, with the exceptions above.
BlocksHaveOwners == OneDescriptor /\ LiveIsOwned
=============================================================================
