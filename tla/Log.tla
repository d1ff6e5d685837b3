-------------------------------- MODULE Log --------------------------------
(***************************************************************************)
(* The write-ahead log of kernel/log.c over the buffer cache: processes    *)
(* that open a transaction, change blocks, commit, and a machine that may  *)
(* lose power between any two sector writes and then runs recovery.        *)
(*                                                                         *)
(* A sector write is atomic (diskrw writes one 512-byte sector).  With     *)
(* SilentFail a write may also be lost without the caller hearing of it,   *)
(* which is what usb_rw does after its second failed attempt; the buffer   *)
(* then keeps B_DIRTY and its contents.                                    *)
(***************************************************************************)
EXTENDS Integers, Sequences, FiniteSets

CONSTANTS Procs, Sectors, Vals, InitVal,
          LogSize,      \* min(LOGSIZE, log.size - 1), the guard of log_write
          SilentFail,   \* may diskrw drop a write silently?
          NoBuf         \* the sector has no buffer in the cache

ASSUME LogAssumption ==
  /\ InitVal \in Vals
  /\ NoBuf \notin Vals
  /\ LogSize \in Nat \ {0}
  /\ SilentFail \in BOOLEAN

VARIABLES
  disk,    \* home sectors on the device
  dlog,    \* log sectors log.start+1 .. on the device
  dhead,   \* the header sector log.start: sectors of the committed blocks
  cache,   \* data of each home sector's buffer, or NoBuf
  dirty,   \* home sectors whose buffer has B_DIRTY (bget never recycles it)
  lbuf,    \* data of the log sectors' buffers
  lh,      \* log.lh in memory
  busy,    \* log.busy
  pc,      \* where each process is
  tail,    \* loop index of install_trans
  kern     \* what the kernel as a whole is doing

diskVars == <<disk, dlog, dhead>>
memVars  == <<cache, dirty, lbuf, lh, busy, pc, tail, kern>>
vars     == <<disk, dlog, dhead, cache, dirty, lbuf, lh, busy, pc, tail, kern>>

PCs   == {"user", "asleep", "trans", "install", "clear", "end"}
Kerns == {"boot", "rinstall", "rclear", "up", "panic"}

TypeOK ==
  /\ disk \in [Sectors -> Vals]
  /\ dlog \in [1 .. LogSize -> Vals]
  /\ dhead \in Seq(Sectors) /\ Len(dhead) <= LogSize
  /\ cache \in [Sectors -> Vals \cup {NoBuf}]
  /\ dirty \subseteq Sectors
  /\ lbuf \in [1 .. LogSize -> Vals]
  /\ lh \in Seq(Sectors) /\ Len(lh) <= LogSize
  /\ busy \in BOOLEAN
  /\ pc \in [Procs -> PCs]
  /\ tail \in 1 .. LogSize + 1
  /\ kern \in Kerns

Init ==
  /\ disk = [s \in Sectors |-> InitVal]
  /\ dlog = [i \in 1 .. LogSize |-> InitVal]
  /\ dhead = <<>>
  /\ cache = [s \in Sectors |-> NoBuf]
  /\ dirty = {}
  /\ lbuf = dlog
  /\ lh = <<>>
  /\ busy = FALSE
  /\ pc = [p \in Procs |-> "user"]
  /\ tail = 1
  /\ kern = "boot"

-----------------------------------------------------------------------------
(* Device and buffer cache, as the log uses them. *)

\* bread of a home sector: the cached data, or what the device holds.
Content(s) == IF cache[s] = NoBuf THEN disk[s] ELSE cache[s]

\* May this write be lost?
Losses == IF SilentFail THEN {FALSE, TRUE} ELSE {FALSE}

\* The outcomes of writing value new over old.
Written(old, new) == {new} \cup (IF SilentFail THEN {old} ELSE {})

\* A clean buffer may be recycled for another sector at any time (bget).
Recycle(s) ==
  /\ kern = "up" /\ cache[s] # NoBuf /\ s \notin dirty
  /\ cache' = [cache EXCEPT ![s] = NoBuf]
  /\ UNCHANGED <<disk, dlog, dhead, dirty, lbuf, lh, busy, pc, tail, kern>>

\* Any process may read a sector into the cache.
bread(s) ==
  /\ kern = "up" /\ cache[s] = NoBuf
  /\ cache' = [cache EXCEPT ![s] = disk[s]]
  /\ UNCHANGED <<disk, dlog, dhead, dirty, lbuf, lh, busy, pc, tail, kern>>

-----------------------------------------------------------------------------
(* Transactions. *)

\* begin_trans: take the log, or sleep on &log until it is released.
begin_trans(p) ==
  /\ kern = "up" /\ pc[p] = "user"
  /\ \/ busy /\ pc' = [pc EXCEPT ![p] = "asleep"] /\ UNCHANGED busy
     \/ ~busy /\ busy' = TRUE /\ pc' = [pc EXCEPT ![p] = "trans"]
  /\ UNCHANGED <<diskVars, cache, dirty, lbuf, lh, tail, kern>>

InLog(s) == \E i \in 1 .. Len(lh) : lh[i] = s

\* The slot log_write gives sector s: its earlier slot, else the next one.
Slot(s) == IF InLog(s) THEN CHOOSE i \in 1 .. Len(lh) : lh[i] = s
                       ELSE Len(lh) + 1

\* Fault: the log block is not written through before the commit.
log_write_lazy(p, s, v) ==
  /\ kern = "up" /\ pc[p] = "trans" /\ Len(lh) < LogSize
  /\ lbuf' = [lbuf EXCEPT ![Slot(s)] = v]
  /\ lh' = IF InLog(s) THEN lh ELSE Append(lh, s)
  /\ cache' = [cache EXCEPT ![s] = v]
  /\ dirty' = dirty \cup {s}
  /\ UNCHANGED <<disk, dlog, dhead, busy, pc, tail, kern>>

\* log_write of a buffer just changed to v: copy to the log sector, write it
\* through, count it unless absorbed, pin the buffer with B_DIRTY.
log_write(p, s, v) ==
  /\ kern = "up" /\ pc[p] = "trans" /\ Len(lh) < LogSize
  /\ lbuf' = [lbuf EXCEPT ![Slot(s)] = v]
  /\ \E w \in Written(dlog[Slot(s)], v) : dlog' = [dlog EXCEPT ![Slot(s)] = w]
  /\ lh' = IF InLog(s) THEN lh ELSE Append(lh, s)
  /\ cache' = [cache EXCEPT ![s] = v]
  /\ dirty' = dirty \cup {s}
  /\ UNCHANGED <<disk, dhead, busy, pc, tail, kern>>

\* The capacity test precedes absorption: a full log refuses every write.
log_write_panic(p) ==
  /\ kern = "up" /\ pc[p] = "trans" /\ Len(lh) >= LogSize
  /\ kern' = "panic"
  /\ UNCHANGED <<diskVars, cache, dirty, lbuf, lh, busy, pc, tail>>

-----------------------------------------------------------------------------
(* commit_trans, one sector write a step. *)

\* Fault: install before the header is on the device.
commit_head_late(p) ==
  /\ kern = "up" /\ pc[p] = "trans" /\ lh # <<>>
  /\ tail' = 1
  /\ pc' = [pc EXCEPT ![p] = "install"]
  /\ UNCHANGED <<diskVars, cache, dirty, lbuf, lh, busy, kern>>

\* write_head with the block list: the commit point.
commit_head(p) ==
  /\ kern = "up" /\ pc[p] = "trans" /\ lh # <<>>
  /\ \E h \in Written(dhead, lh) : dhead' = h
  /\ tail' = 1
  /\ pc' = [pc EXCEPT ![p] = "install"]
  /\ UNCHANGED <<disk, dlog, cache, dirty, lbuf, lh, busy, kern>>

\* A transaction that wrote nothing goes straight to the end.
commit_empty(p) ==
  /\ kern = "up" /\ pc[p] = "trans" /\ lh = <<>>
  /\ pc' = [pc EXCEPT ![p] = "end"]
  /\ UNCHANGED <<diskVars, cache, dirty, lbuf, lh, busy, tail, kern>>

\* One turn of install_trans: copy log block `tail' into the destination
\* buffer and write it home; a completed write clears B_DIRTY.
InstallOne ==
  LET s == lh[tail] IN
  /\ tail <= Len(lh)
  /\ cache' = [cache EXCEPT ![s] = lbuf[tail]]
  /\ \E lost \in Losses :
       /\ disk' = IF lost THEN disk ELSE [disk EXCEPT ![s] = lbuf[tail]]
       /\ dirty' = IF lost THEN dirty \cup {s} ELSE dirty \ {s}
  /\ tail' = tail + 1
  /\ UNCHANGED <<dlog, dhead, lbuf, lh, busy>>

\* Fault: the loop bound is one too far.
InstallDone_offByOne ==
  /\ tail > Len(lh) + 1
  /\ UNCHANGED <<diskVars, cache, dirty, lbuf, lh, busy, tail>>

\* The loop is over.
InstallDone == /\ tail > Len(lh)
               /\ UNCHANGED <<diskVars, cache, dirty, lbuf, lh, busy, tail>>

install_trans(p) ==
  /\ kern = "up" /\ pc[p] = "install"
  /\ \/ InstallOne /\ UNCHANGED pc
     \/ InstallDone /\ pc' = [pc EXCEPT ![p] = "clear"]
  /\ UNCHANGED kern

\* lh.n = 0 and write_head: erase the transaction from the log.
ClearHead ==
  /\ lh' = <<>>
  /\ \E h \in Written(dhead, <<>>) : dhead' = h
  /\ UNCHANGED <<disk, dlog, cache, dirty, lbuf, busy, tail>>

commit_clear(p) ==
  /\ kern = "up" /\ pc[p] = "clear"
  /\ ClearHead
  /\ pc' = [pc EXCEPT ![p] = "end"]
  /\ UNCHANGED kern

\* busy = 0 and wakeup(&log): every sleeper will test busy again.
commit_end(p) ==
  /\ kern = "up" /\ pc[p] = "end"
  /\ busy' = FALSE
  /\ pc' = [q \in Procs |-> IF q = p \/ pc[q] = "asleep" THEN "user" ELSE pc[q]]
  /\ UNCHANGED <<diskVars, cache, dirty, lbuf, lh, tail, kern>>

-----------------------------------------------------------------------------
(* Power failure and recovery. *)

\* Memory is lost at any moment, recovery and panic included.
Crash ==
  /\ kern' = "boot"
  /\ cache' = [s \in Sectors |-> NoBuf]
  /\ dirty' = {}
  /\ lbuf' = dlog
  /\ lh' = <<>>
  /\ busy' = FALSE
  /\ pc' = [p \in Procs |-> "user"]
  /\ tail' = 1
  /\ UNCHANGED diskVars

\* Fault: the header is erased without replaying it.
recover_head_noreplay ==
  /\ kern = "boot"
  /\ lh' = <<>>
  /\ tail' = 1
  /\ kern' = "rinstall"
  /\ UNCHANGED <<diskVars, cache, dirty, lbuf, busy, pc>>

\* initlog, recover_from_log: read_head.
recover_head ==
  /\ kern = "boot"
  /\ lh' = dhead
  /\ tail' = 1
  /\ kern' = "rinstall"
  /\ UNCHANGED <<diskVars, cache, dirty, lbuf, busy, pc>>

recover_install ==
  /\ kern = "rinstall"
  /\ \/ InstallOne /\ UNCHANGED kern
     \/ InstallDone /\ kern' = "rclear"
  /\ UNCHANGED pc

recover_clear ==
  /\ kern = "rclear"
  /\ ClearHead
  /\ kern' = "up"
  /\ UNCHANGED pc

-----------------------------------------------------------------------------
Transaction(p) ==
  \/ begin_trans(p)
  \/ \E s \in Sectors, v \in Vals : log_write(p, s, v)
  \/ log_write_panic(p)
  \/ commit_head(p) \/ commit_empty(p)
  \/ install_trans(p) \/ commit_clear(p) \/ commit_end(p)

Recovery == recover_head \/ recover_install \/ recover_clear

Next ==
  \/ \E p \in Procs : Transaction(p)
  \/ \E s \in Sectors : bread(s) \/ Recycle(s)
  \/ Crash
  \/ Recovery

Spec == Init /\ [][Next]_vars

\* A process inside a transaction keeps running to its commit (the scheduler
\* is round-robin), and so does the boot code.
Ends(p) == \/ commit_head(p) \/ commit_empty(p) \/ install_trans(p)
           \/ commit_clear(p) \/ commit_end(p)

FairSpec == /\ Spec
            /\ \A p \in Procs : WF_vars(Ends(p))
            /\ WF_vars(Recovery)
-----------------------------------------------------------------------------
(* Properties. *)

\* The contents recovery would rebuild from the device as it is now.
Recovered ==
  [s \in Sectors |->
     IF \E i \in 1 .. Len(dhead) : dhead[i] = s
       THEN dlog[CHOOSE i \in 1 .. Len(dhead) : dhead[i] = s]
       ELSE disk[s]]

\* What the file system above the log sees.
View == IF kern \in {"up", "panic"} THEN [s \in Sectors |-> Content(s)]
                                    ELSE Recovered

AS == INSTANCE AtomicStore WITH stable <- Recovered, view <- View

\* log.c implements atomic transactions: with power failures between any two
\* sector writes, in recovery too, a reboot sees all the updates of every
\* transaction whose header write happened and none of the others.
AtomicTransactions == AS!Spec

InTrans(p) == pc[p] \in {"trans", "install", "clear", "end"}

\* begin_trans and commit_trans: one transaction at a time, log.busy says
\* exactly that there is one, and nobody sleeps on &log when it is free (the
\* wakeup in commit_trans is never lost).
OneTransaction ==
  /\ \A p, q \in Procs : InTrans(p) /\ InTrans(q) => p = q
  /\ busy <=> \E p \in Procs : InTrans(p)
  /\ (\E p \in Procs : pc[p] = "asleep") => busy

\* write_head in commit_trans: from the commit point until the header is
\* erased, the device itself holds the whole transaction, header and blocks.
CommitForcesLog ==
  \A p \in Procs : kern = "up" /\ pc[p] \in {"install", "clear"} =>
    /\ dhead = lh
    /\ \A i \in 1 .. Len(lh) : dlog[i] = lbuf[i]

\* The write-ahead rule: a home sector only ever changes to the value that a
\* committed log on the device already holds for it.
WriteAhead ==
  [][\A s \in Sectors : disk'[s] # disk[s] =>
       \E i \in 1 .. Len(dhead) : dhead[i] = s /\ dlog[i] = disk'[s]]_vars

\* commit_trans gives the log back: no transaction holds it forever, unless
\* log_write halted the kernel.
LogReleased == busy ~> (~busy \/ kern = "panic")

\* recover_from_log finishes once the power stays on.
RecoveryEnds == (<>[][~Crash]_vars) => (kern = "boot" ~> kern = "up")

-----------------------------------------------------------------------------
(* The inductive invariant behind the safety properties (reliable device). *)

Writing    == \E p \in Procs : pc[p] = "trans"
Installing == kern = "rinstall" \/ \E p \in Procs : pc[p] = "install"
Clearing   == kern = "rclear" \/ \E p \in Procs : pc[p] = "clear"

Distinct(h) == \A i, j \in 1 .. Len(h) : h[i] = h[j] => i = j

\* A clean buffer agrees with the device; a dirty one belongs to the log.
CacheInv ==
  /\ \A s \in Sectors \ dirty : cache[s] \in {NoBuf, disk[s]}
  /\ \A s \in dirty : InLog(s)

\* Where the block list, its copy on the device and the loop stand.
PhaseInv ==
  /\ Distinct(lh) /\ Distinct(dhead)
  /\ lbuf = dlog
  /\ kern = "boot" => lh = <<>>
  /\ kern \notin {"up", "panic"} => dirty = {} /\ \A p \in Procs : pc[p] = "user"
  /\ kern = "panic" => Writing
  /\ kern # "boot" => dhead = IF Installing \/ Clearing THEN lh ELSE <<>>
  /\ lh # <<>> => Writing \/ Installing \/ Clearing

\* How far the logged blocks have come on their way home.
BlockInv ==
  \A i \in 1 .. Len(lh) :
    /\ Writing => lh[i] \in dirty /\ cache[lh[i]] = lbuf[i]
    /\ Installing /\ i >= tail /\ kern = "up" =>
         lh[i] \in dirty /\ cache[lh[i]] = lbuf[i]
    /\ (Installing /\ i < tail) \/ Clearing =>
         lh[i] \notin dirty /\ disk[lh[i]] = lbuf[i]

LogInv == TypeOK /\ OneTransaction /\ CacheInv /\ PhaseInv /\ BlockInv

\* One transaction at a time, and a commit that forces the log to disk.
LogConsistent == TypeOK /\ OneTransaction /\ CommitForcesLog

\* The log is given back, and recovery ends.
LogProgress == LogReleased /\ RecoveryEnds
=============================================================================
