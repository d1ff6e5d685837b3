-------------------------------- MODULE Bio --------------------------------
(***************************************************************************)
(* The buffer cache of kernel/bio.c: bget, bread, bwrite, brelse and the   *)
(* LRU list, used by processes that sleep on busy buffers.  The client     *)
(* below follows the file system's discipline: it changes a buffer only    *)
(* together with log_write's pin (B_DIRTY) or with bwrite, and it takes    *)
(* the buffers it holds together in one global order (indirect blocks      *)
(* before bitmap, inode and data blocks, those before log blocks).         *)
(*                                                                         *)
(* diskrw is usb_rw of kernel/usb.c.  With IOFail a transfer may fail: the *)
(* controller is reset with usblock released, the transfer is tried once   *)
(* more, and a second failure is not reported to the caller.               *)
(***************************************************************************)
EXTENDS Integers, Sequences, FiniteSets, Functions

CONSTANTS Procs, Bufs, Sectors, Vals, InitVal,
          MaxHeld,    \* buffers a process holds at once
          MaxDirty,   \* blocks log_write may have pinned at once
          IOFail,     \* may transfers fail?
          None

ASSUME BioAssumption ==
  /\ IsFiniteSet(Bufs) /\ Sectors \subseteq Nat
  /\ InitVal \in Vals /\ MaxHeld \in Nat /\ MaxDirty \in Nat
  /\ IOFail \in BOOLEAN /\ None \notin Sectors \cup Bufs

VARIABLES
  buf,     \* sector, B_BUSY, B_VALID, B_DIRTY and data of every buffer
  order,   \* bcache.head.next ...: most recently used first
  disk,    \* the device
  pc,      \* "run", in usb_rw (first or second attempt), asleep on a buffer, woken
  want,    \* the sector a sleeping or woken process is after
  slot,    \* the buffer a process sleeps on or transfers
  held,    \* the buffers each process has marked B_BUSY
  latest,  \* history: the data last put into a buffer for each sector
  panicked \* bget found no buffer, or the controller is lost

vars == <<buf, order, disk, pc, want, slot, held, latest, panicked>>

Buffer == [sector : Sectors \cup {None}, busy : BOOLEAN, valid : BOOLEAN,
           dirty : BOOLEAN, data : Vals]

TypeOK ==
  /\ buf \in [Bufs -> Buffer]
  /\ order \in [1 .. Cardinality(Bufs) -> Bufs] /\ Range(order) = Bufs
  /\ disk \in [Sectors -> Vals] /\ latest \in [Sectors -> Vals]
  /\ pc \in [Procs -> {"run", "io", "retry", "asleep", "woken"}]
  /\ want \in [Procs -> Sectors \cup {None}]
  /\ slot \in [Procs -> Bufs \cup {None}]
  /\ held \in [Procs -> SUBSET Bufs]
  /\ panicked \in BOOLEAN

\* binit: empty buffers on the list.
Init ==
  /\ buf = [b \in Bufs |-> [sector |-> None, busy |-> FALSE, valid |-> FALSE,
                            dirty |-> FALSE, data |-> InitVal]]
  /\ order = CHOOSE o \in [1 .. Cardinality(Bufs) -> Bufs] : Range(o) = Bufs
  /\ disk = [s \in Sectors |-> InitVal]
  /\ latest = disk
  /\ pc = [p \in Procs |-> "run"]
  /\ want = [p \in Procs |-> None]
  /\ slot = [p \in Procs |-> None]
  /\ held = [p \in Procs |-> {}]
  /\ panicked = FALSE

-----------------------------------------------------------------------------
(* bget, run under bcache.lock. *)

\* The loop over the list: the buffers that cache sector s.
Cached(s) == {b \in Bufs : buf[b].sector = s}

\* The backward loop: candidates for recycling, and the one it meets first.
Free == {b \in Bufs : ~buf[b].busy /\ ~buf[b].dirty}
Victim == order[CHOOSE i \in DOMAIN order :
                  /\ order[i] \in Free
                  /\ \A j \in DOMAIN order : order[j] \in Free => j <= i]

\* p starts a bread of s, or goes round bget's loop again after its sleep.
Asks(p, s) ==
  /\ ~panicked
  /\ \/ /\ pc[p] = "run" /\ Cardinality(held[p]) < MaxHeld
        /\ \A b \in held[p] : buf[b].sector < s
     \/ pc[p] = "woken" /\ want[p] = s

\* p has the buffer; bread goes on to diskrw unless it is B_VALID.
Takes(p, b, valid) ==
  /\ held' = [held EXCEPT ![p] = @ \cup {b}]
  /\ slot' = [slot EXCEPT ![p] = b]
  /\ want' = [want EXCEPT ![p] = None]
  /\ pc' = [pc EXCEPT ![p] = IF valid THEN "run" ELSE "io"]

bget_hit(p, s) ==
  /\ Asks(p, s)
  /\ \E b \in Cached(s) :
       /\ ~buf[b].busy
       /\ buf' = [buf EXCEPT ![b].busy = TRUE]
       /\ Takes(p, b, buf[b].valid)
  /\ UNCHANGED <<order, disk, latest, panicked>>

bget_sleep(p, s) ==
  /\ Asks(p, s)
  /\ \E b \in Cached(s) :
       /\ buf[b].busy
       /\ slot' = [slot EXCEPT ![p] = b]
  /\ want' = [want EXCEPT ![p] = s]
  /\ pc' = [pc EXCEPT ![p] = "asleep"]
  /\ UNCHANGED <<buf, order, disk, held, latest, panicked>>

\* Fault: a woken process goes on to recycle instead of searching again.
bget_recycle_norescan(p, s) ==
  /\ Asks(p, s) /\ (Cached(s) = {} \/ pc[p] = "woken") /\ Free # {}
  /\ buf' = [buf EXCEPT ![Victim].sector = s, ![Victim].busy = TRUE,
                        ![Victim].valid = FALSE, ![Victim].dirty = FALSE]
  /\ Takes(p, Victim, FALSE)
  /\ UNCHANGED <<order, disk, latest, panicked>>

bget_recycle(p, s) ==
  /\ Asks(p, s) /\ Cached(s) = {} /\ Free # {}
  /\ buf' = [buf EXCEPT ![Victim].sector = s, ![Victim].busy = TRUE,
                        ![Victim].valid = FALSE, ![Victim].dirty = FALSE]
  /\ Takes(p, Victim, FALSE)
  /\ UNCHANGED <<order, disk, latest, panicked>>

bget_panic(p, s) ==
  /\ Asks(p, s) /\ Cached(s) = {} /\ Free = {}
  /\ panicked' = TRUE
  /\ UNCHANGED <<buf, order, disk, pc, want, slot, held, latest>>

-----------------------------------------------------------------------------
(* The transfer, and what a holder does with its buffer. *)

\* usb_rw transfers the sector while it holds usblock, polling the controller,
\* so a transfer is one step.
usb_rw(p) ==
  LET b == slot[p] s == buf[b].sector IN
  /\ ~panicked /\ pc[p] \in {"io", "retry"}
  /\ IF buf[b].dirty
       THEN disk' = [disk EXCEPT ![s] = buf[b].data] /\
            buf' = [buf EXCEPT ![b].dirty = FALSE, ![b].valid = TRUE]
       ELSE buf' = [buf EXCEPT ![b].data = disk[s], ![b].valid = TRUE] /\
            UNCHANGED disk
  /\ pc' = [pc EXCEPT ![p] = "run"]
  /\ UNCHANGED <<order, want, slot, held, latest, panicked>>

\* Fault: the flags are changed although both transfers failed.
usb_rw_error_flags(p) ==
  LET b == slot[p] IN
  /\ IOFail /\ ~panicked /\ pc[p] \in {"io", "retry"}
  /\ buf' = IF pc[p] = "io" THEN buf ELSE [buf EXCEPT ![b].dirty = FALSE, ![b].valid = TRUE]
  /\ pc' = [pc EXCEPT ![p] = IF pc[p] = "io" THEN "retry" ELSE "run"]
  /\ UNCHANGED <<disk, order, want, slot, held, latest, panicked>>

\* All ten commands of usb_read_sector or usb_write_sector fail.  The device
\* may have stored the sector before the status was lost, and a read may have
\* left anything in the buffer.  After the first failure usblock is released
\* for usb_try_recover_disk, and others transfer; the second one is silent:
\* usb_rw returns with the flags unchanged.
usb_rw_error(p) ==
  LET b == slot[p] s == buf[b].sector IN
  /\ IOFail /\ ~panicked /\ pc[p] \in {"io", "retry"}
  /\ IF buf[b].dirty
       THEN disk' \in {disk, [disk EXCEPT ![s] = buf[b].data]} /\ UNCHANGED buf
       ELSE \E v \in Vals : buf' = [buf EXCEPT ![b].data = v] /\ UNCHANGED disk
  /\ pc' = [pc EXCEPT ![p] = IF pc[p] = "io" THEN "retry" ELSE "run"]
  /\ UNCHANGED <<order, want, slot, held, latest, panicked>>

\* The controller does not come back after eight resets, before the first
\* attempt if it was found halted.  If it does come back then, usblock has been
\* given up and taken again, which leaves the process where it was.
usb_try_recover_disk_panic(p) ==
  /\ IOFail /\ ~panicked /\ pc[p] \in {"io", "retry"}
  /\ panicked' = TRUE
  /\ UNCHANGED <<buf, order, disk, pc, want, slot, held, latest>>

Dirty == {b \in Bufs : buf[b].dirty}

\* A block is changed and pinned by log_write.
log_write(p, b, v) ==
  /\ ~panicked /\ pc[p] = "run" /\ b \in held[p]
  /\ b \in Dirty \/ Cardinality(Dirty) < MaxDirty
  /\ buf' = [buf EXCEPT ![b].data = v, ![b].dirty = TRUE]
  /\ latest' = [latest EXCEPT ![buf[b].sector] = v]
  /\ UNCHANGED <<order, disk, pc, want, slot, held, panicked>>

\* A block is changed (or not) and written through.
bwrite(p, b, v) ==
  /\ ~panicked /\ pc[p] = "run" /\ b \in held[p]
  /\ buf' = [buf EXCEPT ![b].data = v, ![b].dirty = TRUE]
  /\ latest' = [latest EXCEPT ![buf[b].sector] = v]
  /\ pc' = [pc EXCEPT ![p] = "io"]
  /\ slot' = [slot EXCEPT ![p] = b]
  /\ UNCHANGED <<order, disk, want, held, panicked>>

\* wakeup(b): every sleeper looks for its sector again.
wakeup(b) ==
  [q \in Procs |-> IF pc[q] = "asleep" /\ slot[q] = b THEN "woken" ELSE pc[q]]

\* Unlink b and link it in again after bcache.head.
ToFront(b) ==
  LET i == CHOOSE i \in DOMAIN order : order[i] = b IN
  [j \in DOMAIN order |-> IF j = 1 THEN b ELSE order[IF j <= i THEN j - 1 ELSE j]]

\* Move the buffer to the front, clear B_BUSY, wake the sleepers.
brelse(p, b) ==
  /\ ~panicked /\ pc[p] = "run" /\ b \in held[p]
  /\ order' = ToFront(b)
  /\ buf' = [buf EXCEPT ![b].busy = FALSE]
  /\ held' = [held EXCEPT ![p] = @ \ {b}]
  /\ pc' = wakeup(b)
  /\ UNCHANGED <<disk, want, slot, latest, panicked>>

-----------------------------------------------------------------------------
bget(p) == \E s \in Sectors : \/ bget_hit(p, s) \/ bget_sleep(p, s)
                              \/ bget_recycle(p, s) \/ bget_panic(p, s)

Next ==
  \E p \in Procs :
    \/ bget(p)
    \/ usb_rw(p) \/ usb_rw_error(p) \/ usb_try_recover_disk_panic(p)
    \/ \E b \in Bufs : \/ \E v \in Vals : log_write(p, b, v) \/ bwrite(p, b, v)
                       \/ brelse(p, b)

Spec == Init /\ [][Next]_vars

-----------------------------------------------------------------------------
(* Properties. *)

\* bget's search and recycle run under one lock hold: a sector never has two
\* buffers, whatever happened while a process slept.
OneBufferPerSector ==
  \A b, c \in Bufs : buf[b].sector = buf[c].sector /\ b # c => buf[b].sector = None

\* B_BUSY is a lock: a busy buffer has exactly one holder, and a process
\* asleep on a buffer is waiting for somebody who will wake it.
BusyIsExclusive ==
  /\ \A b \in Bufs : buf[b].busy <=> \E p \in Procs : b \in held[p]
  /\ \A p, q \in Procs : p # q => held[p] \cap held[q] = {}
  /\ \A p \in Procs : pc[p] = "asleep" => buf[slot[p]].busy

\* bread: "Return a B_BUSY buf with the contents of the indicated disk sector."
\* The contents are the ones last put into a buffer for that sector, by
\* whichever process, written back or still pinned.  Only a transfer that
\* failed makes bread return a buffer that is not B_VALID.
BreadReturnsContents ==
  \A p \in Procs : \A b \in held[p] :
    ~(pc[p] \in {"io", "retry"} /\ slot[p] = b) =>
      IF buf[b].valid THEN buf[b].data = latest[buf[b].sector] ELSE IOFail

\* A pinned block reaches the device before its buffer is used for another
\* sector, and no failed transfer takes the mark away: what is not cached, or
\* is cached and not marked, is on the device.
NothingLost ==
  \A s \in Sectors : (\A b \in Cached(s) : ~buf[b].dirty) => disk[s] = latest[s]

\* bget: a sector has one buffer, and a buffer one holder.
BuffersExclusive == TypeOK /\ OneBufferPerSector /\ BusyIsExclusive

\* bread, bwrite and the recycling of buffers keep what was written last.
ContentsKept == BreadReturnsContents /\ NothingLost
=============================================================================
