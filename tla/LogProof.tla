------------------------------ MODULE LogProof ------------------------------
(***************************************************************************)
(* TLAPS proofs about Log.                                                 *)
(***************************************************************************)
EXTENDS Log, SequenceTheorems, TLAPS

\* The erased header is a block list of length zero.
LEMMA EmptyHead == <<>> \in Seq(Sectors) /\ Len(<<>>) = 0 /\ 0 <= LogSize
  <1>1. Len(<<>>) = 0 /\ <<>> \in Seq(Sectors)
    OBVIOUS
  <1> QED BY <1>1, LogAssumption

\* The slot log_write picks lies inside the log while the log has room.
LEMMA SlotInRange ==
  ASSUME TypeOK, NEW s \in Sectors, Len(lh) < LogSize
  PROVE  /\ Slot(s) \in 1 .. LogSize
         /\ InLog(s) => Slot(s) \in 1 .. Len(lh) /\ lh[Slot(s)] = s
  <1>1. Len(lh) \in Nat
    BY DEF TypeOK
  <1>2. CASE InLog(s)
    <2>1. PICK k \in 1 .. Len(lh) : lh[k] = s
      BY <1>2, Zenon DEF InLog
    <2>2. Slot(s) = CHOOSE i \in 1 .. Len(lh) : lh[i] = s
      BY <1>2, Zenon DEF Slot
    <2>3. Slot(s) \in 1 .. Len(lh) /\ lh[Slot(s)] = s
      BY <2>1, <2>2, Zenon
    <2> QED BY <1>1, <2>3, LogAssumption
  <1>3. CASE ~InLog(s)
    BY <1>1, <1>3, LogAssumption DEF Slot
  <1> QED BY <1>2, <1>3, Zenon

\* install_trans keeps the types (with lost writes too).
LEMMA InstallType ==
  ASSUME TypeOK, InstallOne
  PROVE  /\ disk' \in [Sectors -> Vals]
         /\ cache' \in [Sectors -> Vals \cup {NoBuf}]
         /\ dirty' \subseteq Sectors
         /\ tail' \in 1 .. LogSize + 1
  <1>1. tail \in 1 .. Len(lh) /\ tail \in 1 .. LogSize /\ lh[tail] \in Sectors
    BY LogAssumption DEF TypeOK, InstallOne, Losses
  <1>2. lbuf[tail] \in Vals
    BY <1>1, Zenon DEF TypeOK
  <1> QED BY <1>1, <1>2, LogAssumption DEF TypeOK, InstallOne, Losses

LEMMA TypeInit == Init => TypeOK
  <1> SUFFICES ASSUME Init PROVE TypeOK
    OBVIOUS
  <1>1. /\ dhead \in Seq(Sectors) /\ Len(dhead) <= LogSize
        /\ lh \in Seq(Sectors) /\ Len(lh) <= LogSize
    BY EmptyHead, Zenon DEF Init
  <1>2. disk \in [Sectors -> Vals] /\ dlog \in [1 .. LogSize -> Vals] /\ lbuf = dlog
    BY LogAssumption, Zenon DEF Init
  <1>3. dirty \subseteq Sectors /\ tail \in 1 .. LogSize + 1
    BY LogAssumption DEF Init
  <1>4. busy \in BOOLEAN /\ pc \in [Procs -> PCs] /\ kern \in Kerns
    BY Zenon DEF Init, PCs, Kerns
  <1>5. cache \in [Sectors -> Vals \cup {NoBuf}]
    BY Zenon DEF Init
  <1> QED BY <1>1, <1>2, <1>3, <1>4, <1>5, Zenon DEF TypeOK

LEMMA TypeStep ==
  ASSUME TypeOK, [Next]_vars
  PROVE  TypeOK'
  <1> USE LogAssumption
  <1>1. CASE UNCHANGED vars
    BY <1>1, Zenon DEF TypeOK, vars
  <1>2. ASSUME NEW p \in Procs, Transaction(p) PROVE TypeOK'
    <2>1. CASE begin_trans(p)
      BY <2>1, Zenon DEF TypeOK, begin_trans, diskVars, PCs
    <2>2. ASSUME NEW s \in Sectors, NEW v \in Vals, log_write(p, s, v)
          PROVE  TypeOK'
      <3>1. Slot(s) \in 1 .. LogSize
        BY <2>2, SlotInRange, Zenon DEF log_write
      <3>2. dlog' \in [1 .. LogSize -> Vals]
        BY <2>2, <3>1 DEF log_write, Written, TypeOK
      <3>3. lh' \in Seq(Sectors) /\ Len(lh') <= LogSize
        BY <2>2 DEF log_write, TypeOK
      <3> QED BY <2>2, <3>1, <3>2, <3>3, Zenon DEF log_write, TypeOK
    <2>3. CASE log_write_panic(p)
      BY <2>3, Zenon DEF TypeOK, log_write_panic, diskVars, Kerns
    <2>4. CASE commit_head(p)
      BY <2>4 DEF TypeOK, commit_head, Written, PCs
    <2>5. CASE commit_empty(p)
      BY <2>5, Zenon DEF TypeOK, commit_empty, diskVars, PCs
    <2>6. CASE install_trans(p)
      <3>1. CASE InstallOne /\ UNCHANGED pc /\ UNCHANGED kern
        BY <3>1, InstallType, Zenon DEF TypeOK, InstallOne, Losses
      <3>2. CASE InstallDone /\ pc' = [pc EXCEPT ![p] = "clear"] /\ UNCHANGED kern
        BY <3>2, Zenon DEF TypeOK, InstallDone, diskVars, PCs
      <3> QED BY <2>6, <3>1, <3>2, Zenon DEF install_trans
    <2>7. CASE commit_clear(p)
      BY <2>7, EmptyHead, Zenon DEF TypeOK, commit_clear, ClearHead, Written, PCs
    <2>8. CASE commit_end(p)
      BY <2>8, Zenon DEF TypeOK, commit_end, diskVars, PCs
    <2> QED BY <1>2, <2>1, <2>2, <2>3, <2>4, <2>5, <2>6, <2>7, <2>8, Zenon
            DEF Transaction
  <1>3. ASSUME NEW s \in Sectors, bread(s) \/ Recycle(s) PROVE TypeOK'
    BY <1>3, Zenon DEF TypeOK, bread, Recycle
  <1>4. CASE Crash
    <2>1. lh' \in Seq(Sectors) /\ Len(lh') <= LogSize
      BY <1>4, EmptyHead, Zenon DEF Crash
    <2>2. UNCHANGED <<disk, dlog, dhead>> /\ lbuf' = dlog
      BY <1>4, Zenon DEF Crash, diskVars
    <2>3. dirty' \subseteq Sectors /\ tail' \in 1 .. LogSize + 1
      BY <1>4 DEF Crash
    <2>4. busy' \in BOOLEAN /\ pc' \in [Procs -> PCs] /\ kern' \in Kerns
      BY <1>4, Zenon DEF Crash, PCs, Kerns
    <2>5. cache' \in [Sectors -> Vals \cup {NoBuf}]
      BY <1>4, Zenon DEF Crash
    <2> QED BY <2>1, <2>2, <2>3, <2>4, <2>5, Zenon DEF TypeOK
  <1>5. CASE Recovery
    <2>1. CASE recover_head
      BY <2>1 DEF TypeOK, recover_head, diskVars, Kerns
    <2>2. CASE recover_install
      <3>1. CASE InstallOne /\ UNCHANGED pc /\ UNCHANGED kern
        BY <3>1, InstallType, Zenon DEF TypeOK, InstallOne, Losses
      <3>2. CASE InstallDone /\ kern' = "rclear" /\ UNCHANGED pc
        BY <3>2, Zenon DEF TypeOK, InstallDone, diskVars, Kerns
      <3> QED BY <2>2, <3>1, <3>2, Zenon DEF recover_install
    <2>3. CASE recover_clear
      BY <2>3, EmptyHead, Zenon DEF TypeOK, recover_clear, ClearHead, Written, Kerns
    <2> QED BY <1>5, <2>1, <2>2, <2>3, Zenon DEF Recovery
  <1> QED BY <1>1, <1>2, <1>3, <1>4, <1>5, Zenon DEF Next

\* Every state the log reaches is well typed; in particular the in-memory and
\* the on-disk header never list more than LogSize blocks, lost writes and
\* power failures included.
THEOREM TypeCorrect == Spec => []TypeOK
  BY TypeInit, TypeStep, PTL DEF Spec

-----------------------------------------------------------------------------
(* The inductive invariant, action by action; the device is reliable here. *)

LEMMA BeginStep ==
  ASSUME LogInv, NEW p \in Procs, begin_trans(p)
  PROVE  OneTransaction' /\ CacheInv' /\ PhaseInv' /\ BlockInv'
  <1> USE DEF LogInv, begin_trans, diskVars
  <1>1. OneTransaction'
    BY DEF OneTransaction, InTrans, TypeOK, PCs
  <1>2. CacheInv'
    BY Zenon DEF CacheInv, InLog
  <1>3. busy => UNCHANGED <<Writing, Installing, Clearing>>
    BY Zenon DEF TypeOK, Writing, Installing, Clearing
  <1>4. ~busy => lh = <<>> /\ Writing' /\ ~Installing' /\ ~Clearing'
                 /\ ~Installing /\ ~Clearing
    BY Zenon DEF OneTransaction, InTrans, PhaseInv, TypeOK, Writing, Installing, Clearing
  <1>5. PhaseInv'
    BY <1>3, <1>4 DEF PhaseInv, Distinct
  <1>6. BlockInv'
    BY <1>3, <1>4, EmptyHead DEF BlockInv
  <1> QED BY <1>1, <1>2, <1>5, <1>6, Zenon

LEMMA WriteStep ==
  ASSUME LogInv, ~SilentFail,
         NEW p \in Procs, NEW s \in Sectors, NEW v \in Vals, log_write(p, s, v)
  PROVE  OneTransaction' /\ CacheInv' /\ PhaseInv' /\ BlockInv'
  <1> USE DEF LogInv
  <1>1. OneTransaction'
    BY Zenon DEF OneTransaction, InTrans, log_write
  <1>2. /\ UNCHANGED <<Writing, Installing, Clearing>>
        /\ Writing /\ ~Installing /\ ~Clearing
    BY Zenon DEF OneTransaction, InTrans, log_write, Writing, Installing, Clearing
  <1>3. /\ Slot(s) \in 1 .. LogSize
        /\ InLog(s) => Slot(s) \in 1 .. Len(lh) /\ lh[Slot(s)] = s
        /\ ~InLog(s) => Slot(s) = Len(lh) + 1
    BY SlotInRange, Zenon DEF log_write, Slot
  <1>4. /\ lh' \in Seq(Sectors)
        /\ ~InLog(s) => /\ Len(lh') = Len(lh) + 1 /\ lh'[Len(lh) + 1] = s
                        /\ \A i \in 1 .. Len(lh) : lh'[i] = lh[i]
        /\ InLog(s) => lh' = lh
    BY DEF log_write, TypeOK
  <1>5. Len(lh) \in Nat /\ Len(lh') \in Nat
    BY <1>4 DEF TypeOK
  <1>6. Slot(s) \in 1 .. Len(lh') /\ lh'[Slot(s)] = s
    BY <1>3, <1>4, <1>5
  <1>7. \A i \in 1 .. Len(lh') : i # Slot(s) =>
           i \in 1 .. Len(lh) /\ lh'[i] = lh[i] /\ lh[i] # s
    BY <1>3, <1>4, <1>5 DEF InLog, PhaseInv, Distinct
  <1>8. CacheInv'
    <2>1. \A r \in Sectors \ dirty' : cache'[r] \in {NoBuf, disk'[r]}
      BY Zenon DEF CacheInv, log_write, TypeOK
    <2>2. \A r \in dirty' : \E i \in 1 .. Len(lh') : lh'[i] = r
      BY <1>3, <1>4, <1>5, <1>6 DEF CacheInv, InLog, log_write
    <2> QED BY <2>1, <2>2, Zenon DEF CacheInv, InLog
  <1>9. PhaseInv'
    <2>1. Distinct(lh)'
      BY <1>6, <1>7 DEF Distinct, PhaseInv
    <2>2. lbuf' = dlog'
      BY <1>3, Zenon DEF PhaseInv, log_write, Written
    <2> QED BY <1>2, <2>1, <2>2, ZenonT(60) DEF PhaseInv, log_write, Distinct
  <1>10. BlockInv'
    <2>1. ASSUME NEW i \in 1 .. Len(lh')
          PROVE  lh'[i] \in dirty' /\ cache'[lh'[i]] = lbuf'[i]
      <3>1. CASE i = Slot(s)
        BY <1>3, <1>6, <3>1 DEF log_write, TypeOK
      <3>2. CASE i # Slot(s)
        BY <1>2, <1>7, <3>2 DEF log_write, TypeOK, BlockInv
      <3> QED BY <3>1, <3>2, Zenon
    <2> QED BY <1>2, <2>1, Zenon DEF BlockInv
  <1> QED BY <1>1, <1>8, <1>9, <1>10, Zenon

LEMMA PanicStep ==
  ASSUME LogInv, NEW p \in Procs, log_write_panic(p)
  PROVE  OneTransaction' /\ CacheInv' /\ PhaseInv' /\ BlockInv'
  <1> USE DEF LogInv, log_write_panic, diskVars
  <1>1. OneTransaction' /\ CacheInv'
    BY Zenon DEF OneTransaction, InTrans, CacheInv, InLog
  <1>2. /\ UNCHANGED <<Writing, Installing, Clearing>>
        /\ Writing /\ ~Installing /\ ~Clearing
    BY Zenon DEF OneTransaction, InTrans, Writing, Installing, Clearing
  <1>3. PhaseInv' /\ BlockInv'
    BY <1>2 DEF PhaseInv, BlockInv, Distinct
  <1> QED BY <1>1, <1>3, Zenon

LEMMA CommitHeadStep ==
  ASSUME LogInv, ~SilentFail, NEW p \in Procs, commit_head(p)
  PROVE  OneTransaction' /\ CacheInv' /\ PhaseInv' /\ BlockInv'
  <1> USE DEF LogInv, commit_head, Written
  <1>1. OneTransaction'
    BY DEF OneTransaction, InTrans, TypeOK, PCs
  <1>2. CacheInv'
    BY Zenon DEF CacheInv, InLog
  <1>3. Writing /\ ~Writing' /\ Installing' /\ ~Clearing'
    BY Zenon DEF OneTransaction, InTrans, TypeOK, Writing, Installing, Clearing
  <1>4. PhaseInv'
    BY <1>3 DEF PhaseInv, Distinct
  <1>5. BlockInv'
    BY <1>3 DEF BlockInv, TypeOK
  <1> QED BY <1>1, <1>2, <1>4, <1>5, Zenon

LEMMA CommitEmptyStep ==
  ASSUME LogInv, NEW p \in Procs, commit_empty(p)
  PROVE  OneTransaction' /\ CacheInv' /\ PhaseInv' /\ BlockInv'
  <1> USE DEF LogInv, commit_empty, diskVars
  <1>1. OneTransaction'
    BY Zenon DEF OneTransaction, InTrans, TypeOK, PCs
  <1>2. CacheInv'
    BY Zenon DEF CacheInv, InLog
  <1>3. ~Writing' /\ ~Installing' /\ ~Clearing' /\ ~Installing /\ ~Clearing
    BY Zenon DEF OneTransaction, InTrans, TypeOK, Writing, Installing, Clearing
  <1>4. PhaseInv'
    BY <1>3 DEF PhaseInv, Distinct
  <1>5. BlockInv'
    BY <1>3, EmptyHead, Zenon DEF BlockInv
  <1> QED BY <1>1, <1>2, <1>4, <1>5, Zenon

\* One turn of install_trans, in a commit or in recovery: the block at `tail'
\* is home, clean, and no other logged block is touched.
LEMMA InstallTurn ==
  ASSUME LogInv, ~SilentFail, InstallOne, Installing, ~Writing, ~Clearing,
         kern' = kern, pc' = pc
  PROVE  OneTransaction' /\ CacheInv' /\ PhaseInv' /\ BlockInv'
  <1> USE DEF LogInv
  <1>1. /\ tail \in 1 .. Len(lh) /\ tail \in 1 .. LogSize /\ Len(lh) \in Nat
        /\ lh[tail] \in Sectors
    BY LogAssumption DEF TypeOK, InstallOne, Losses
  <1>2. /\ cache' = [cache EXCEPT ![lh[tail]] = lbuf[tail]]
        /\ disk' = [disk EXCEPT ![lh[tail]] = lbuf[tail]]
        /\ dirty' = dirty \ {lh[tail]}
        /\ tail' = tail + 1
        /\ UNCHANGED <<dlog, dhead, lbuf, lh, busy>>
    BY Zenon DEF InstallOne, Losses
  <1>3. UNCHANGED <<Writing, Installing, Clearing>>
    BY Zenon DEF Writing, Installing, Clearing
  <1>4. OneTransaction'
    BY <1>2, Zenon DEF OneTransaction, InTrans
  <1>5. CacheInv'
    BY <1>1, <1>2 DEF CacheInv, InLog, TypeOK
  <1>6. PhaseInv'
    BY <1>2, <1>3 DEF PhaseInv, Distinct
  <1>7. BlockInv'
    <2> SUFFICES ASSUME NEW i \in 1 .. Len(lh)
                 PROVE /\ i >= tail + 1 /\ kern = "up" =>
                            lh[i] \in dirty' /\ cache'[lh[i]] = lbuf[i]
                       /\ i < tail + 1 =>
                            lh[i] \notin dirty' /\ disk'[lh[i]] = lbuf[i]
      BY <1>2, <1>3, Zenon DEF BlockInv
    <2>1. CASE i = tail
      BY <1>1, <1>2, <2>1 DEF TypeOK
    <2>2. CASE i # tail
      <3>1. lh[i] # lh[tail] /\ lh[i] \in Sectors
        BY <1>1, <2>2 DEF PhaseInv, Distinct, TypeOK
      <3>2. disk'[lh[i]] = disk[lh[i]] /\ cache'[lh[i]] = cache[lh[i]]
        BY <1>1, <1>2, <3>1, Zenon DEF TypeOK
      <3> QED BY <1>1, <1>2, <2>2, <3>1, <3>2 DEF BlockInv
    <2> QED BY <2>1, <2>2, Zenon
  <1> QED BY <1>4, <1>5, <1>6, <1>7, Zenon

LEMMA InstallStep ==
  ASSUME LogInv, ~SilentFail, NEW p \in Procs, install_trans(p)
  PROVE  OneTransaction' /\ CacheInv' /\ PhaseInv' /\ BlockInv'
  <1> USE DEF LogInv
  <1>1. Installing /\ ~Writing /\ ~Clearing
    BY Zenon DEF OneTransaction, InTrans, install_trans, Writing, Installing, Clearing
  <1>2. CASE InstallOne /\ UNCHANGED <<pc, kern>>
    BY <1>1, <1>2, InstallTurn, Zenon
  <1>3. CASE InstallDone /\ pc' = [pc EXCEPT ![p] = "clear"] /\ UNCHANGED kern
    <2> USE <1>3 DEF InstallDone, diskVars, install_trans
    <2>1. OneTransaction'
      BY ZenonT(60) DEF OneTransaction, InTrans, TypeOK, PCs
    <2>2. CacheInv'
      BY Zenon DEF CacheInv, InLog
    <2>3. ~Writing' /\ ~Installing' /\ Clearing'
      BY Zenon DEF OneTransaction, InTrans, TypeOK, Writing, Installing, Clearing
    <2>4. PhaseInv'
      BY <1>1, <2>3 DEF PhaseInv, Distinct
    <2>5. BlockInv'
      BY <1>1, <2>3 DEF BlockInv, TypeOK
    <2> QED BY <2>1, <2>2, <2>4, <2>5, Zenon
  <1> QED BY <1>2, <1>3, Zenon DEF install_trans

LEMMA CommitClearStep ==
  ASSUME LogInv, ~SilentFail, NEW p \in Procs, commit_clear(p)
  PROVE  OneTransaction' /\ CacheInv' /\ PhaseInv' /\ BlockInv'
  <1> USE DEF LogInv, commit_clear, ClearHead, Written
  <1>1. OneTransaction'
    BY Zenon DEF OneTransaction, InTrans, TypeOK, PCs
  <1>2. Clearing /\ ~Writing' /\ ~Installing' /\ ~Clearing'
    BY Zenon DEF OneTransaction, InTrans, TypeOK, Writing, Installing, Clearing
  <1>3. dirty = {}
    BY <1>2, Zenon DEF CacheInv, InLog, BlockInv, TypeOK
  <1>4. CacheInv'
    BY <1>3, Zenon DEF CacheInv
  <1>5. PhaseInv'
    BY <1>2, EmptyHead DEF PhaseInv, Distinct
  <1>6. BlockInv'
    BY EmptyHead DEF BlockInv
  <1> QED BY <1>1, <1>4, <1>5, <1>6, Zenon

LEMMA CommitEndStep ==
  ASSUME LogInv, NEW p \in Procs, commit_end(p)
  PROVE  OneTransaction' /\ CacheInv' /\ PhaseInv' /\ BlockInv'
  <1> USE DEF LogInv, commit_end, diskVars
  <1>1. OneTransaction'
    BY Zenon DEF OneTransaction, InTrans, TypeOK, PCs
  <1>2. CacheInv'
    BY Zenon DEF CacheInv, InLog
  <1>3. /\ ~Writing /\ ~Installing /\ ~Clearing
        /\ ~Writing' /\ ~Installing' /\ ~Clearing'
    BY Zenon DEF OneTransaction, InTrans, TypeOK, Writing, Installing, Clearing
  <1>4. PhaseInv' /\ BlockInv'
    BY <1>3, SMTT(30), Z3T(30) DEF PhaseInv, BlockInv, Distinct
  <1> QED BY <1>1, <1>2, <1>4, Zenon

LEMMA BufferStep ==
  ASSUME LogInv, NEW s \in Sectors, bread(s) \/ Recycle(s)
  PROVE  OneTransaction' /\ CacheInv' /\ PhaseInv' /\ BlockInv'
  <1> USE DEF LogInv, bread, Recycle
  <1>1. OneTransaction' /\ UNCHANGED <<Writing, Installing, Clearing>>
    BY DEF OneTransaction, InTrans, Writing, Installing, Clearing
  <1>2. CacheInv'
    BY DEF CacheInv, InLog, TypeOK
  <1>3. PhaseInv'
    BY <1>1, Zenon DEF PhaseInv, Distinct
  <1>4. \A r \in Sectors : r # s => cache'[r] = cache[r]
    BY Zenon DEF TypeOK
  <1>5. s \in dirty => \A r \in Sectors : cache'[r] = cache[r]
    <2>1. s \in dirty => cache[s] # NoBuf
      BY LogAssumption DEF CacheInv, InLog, BlockInv, PhaseInv, TypeOK
    <2> QED BY <1>4, <2>1, Zenon
  <1>6. BlockInv'
    <2>1. \A i \in 1 .. Len(lh) : lh[i] \in dirty => cache'[lh[i]] = cache[lh[i]]
      BY <1>4, <1>5, Zenon DEF TypeOK
    <2>2. UNCHANGED <<disk, dirty, lbuf, lh, tail, kern>>
      OBVIOUS
    <2> HIDE DEF bread, Recycle
    <2> QED BY <1>1, <2>1, <2>2, Zenon DEF BlockInv
  <1> QED BY <1>1, <1>2, <1>3, <1>6, Zenon

LEMMA CrashStep ==
  ASSUME LogInv, Crash
  PROVE  OneTransaction' /\ CacheInv' /\ PhaseInv' /\ BlockInv'
  <1> USE DEF LogInv, Crash, diskVars
  <1>1. OneTransaction'
    BY Zenon DEF OneTransaction, InTrans
  <1>2. CacheInv'
    BY Zenon DEF CacheInv
  <1>3. Distinct(lh)' /\ Distinct(dhead)'
    BY EmptyHead DEF Distinct, PhaseInv
  <1>4. PhaseInv'
    BY <1>3, Zenon DEF PhaseInv
  <1>5. BlockInv'
    BY EmptyHead DEF BlockInv
  <1> QED BY <1>1, <1>2, <1>4, <1>5, Zenon

LEMMA RecoveryStep ==
  ASSUME LogInv, ~SilentFail, Recovery
  PROVE  OneTransaction' /\ CacheInv' /\ PhaseInv' /\ BlockInv'
  <1> USE DEF LogInv
  <1>1. /\ kern \in {"boot", "rinstall", "rclear"} /\ dirty = {}
        /\ \A p \in Procs : pc[p] = "user"
        /\ UNCHANGED <<pc, busy>>
    BY Zenon DEF PhaseInv, Recovery, recover_head, recover_install, recover_clear,
           InstallOne, InstallDone, ClearHead
  <1>2. ~Writing /\ ~Writing'
    BY <1>1, Zenon DEF Writing
  <1>3. OneTransaction'
    BY <1>1, Zenon DEF OneTransaction, InTrans
  <1>4. CASE recover_head
    <2> USE <1>4 DEF recover_head, diskVars
    <2>1. CacheInv'
      BY <1>1, Zenon DEF CacheInv
    <2>2. Installing' /\ ~Clearing'
      BY <1>1, Zenon DEF Installing, Clearing
    <2>3. PhaseInv'
      BY <1>1, <2>2 DEF PhaseInv, Distinct
    <2>4. BlockInv'
      BY <1>2, <2>2 DEF BlockInv, TypeOK
    <2> QED BY <1>3, <2>1, <2>3, <2>4, Zenon
  <1>5. CASE recover_install
    <2>1. Installing /\ ~Clearing
      BY <1>1, <1>5, Zenon DEF recover_install, Installing, Clearing
    <2>2. CASE InstallOne /\ UNCHANGED <<pc, kern>>
      BY <1>2, <2>1, <2>2, InstallTurn, Zenon
    <2>3. CASE InstallDone /\ kern' = "rclear"
      <3> USE <2>3 DEF InstallDone, diskVars
      <3>1. CacheInv'
        BY <1>1, Zenon DEF CacheInv
      <3>2. ~Installing' /\ Clearing'
        BY <1>1, Zenon DEF Installing, Clearing
      <3>3. PhaseInv'
        BY <1>1, <1>5, <2>1, <3>2 DEF PhaseInv, Distinct, recover_install
      <3>4. BlockInv'
        BY <1>2, <2>1, <3>2 DEF BlockInv, TypeOK
      <3> QED BY <1>3, <3>1, <3>3, <3>4, Zenon
    <2> QED BY <1>5, <2>2, <2>3, Zenon DEF recover_install
  <1>6. CASE recover_clear
    <2> USE <1>6 DEF recover_clear, ClearHead, Written
    <2>1. CacheInv'
      BY <1>1, Zenon DEF CacheInv
    <2>2. ~Installing' /\ ~Clearing'
      BY <1>1, Zenon DEF Installing, Clearing
    <2>3. Distinct(lh)' /\ Distinct(dhead)'
      BY EmptyHead DEF Distinct
    <2>4. PhaseInv'
      BY <2>2, <2>3, Zenon DEF PhaseInv
    <2>5. BlockInv'
      BY EmptyHead DEF BlockInv
    <2> QED BY <1>3, <2>1, <2>4, <2>5, Zenon
  <1> QED BY <1>4, <1>5, <1>6, Zenon DEF Recovery

LEMMA InvInit == Init => LogInv
  <1> SUFFICES ASSUME Init PROVE LogInv
    OBVIOUS
  <1>1. TypeOK
    BY TypeInit, Zenon
  <1>2. OneTransaction
    BY Zenon DEF Init, OneTransaction, InTrans
  <1>3. CacheInv
    BY Zenon DEF Init, CacheInv
  <1>4. PhaseInv /\ BlockInv
    BY EmptyHead DEF Init, PhaseInv, BlockInv, Distinct
  <1> QED BY <1>1, <1>2, <1>3, <1>4, Zenon DEF LogInv

LEMMA InvStep ==
  ASSUME LogInv, ~SilentFail, [Next]_vars
  PROVE  LogInv'
  <1>1. TypeOK'
    BY TypeStep, Zenon DEF LogInv
  <1>2. CASE UNCHANGED vars
    <2>1. UNCHANGED <<Writing, Installing, Clearing>>
      BY <1>2, Zenon DEF vars, Writing, Installing, Clearing
    <2>2. OneTransaction' /\ CacheInv'
      BY <1>2, Zenon DEF LogInv, vars, OneTransaction, InTrans, CacheInv, InLog
    <2>3. PhaseInv' /\ BlockInv'
      BY <1>2, <2>1, SMTT(30), Z3T(30) DEF LogInv, vars, PhaseInv, BlockInv, Distinct
    <2> QED BY <1>1, <2>2, <2>3, Zenon DEF LogInv
  <1>3. ASSUME NEW p \in Procs, Transaction(p) PROVE LogInv'
    BY <1>1, <1>3, BeginStep, WriteStep, PanicStep, CommitHeadStep,
       CommitEmptyStep, InstallStep, CommitClearStep, CommitEndStep, Zenon
       DEF Transaction, LogInv
  <1> QED BY <1>1, <1>2, <1>3, BufferStep, CrashStep, RecoveryStep, Zenon
          DEF Next, LogInv

\* The inductive invariant holds throughout on a device that loses no write.
THEOREM Invariance ==
  ASSUME ~SilentFail
  PROVE  Spec => []LogInv
  BY InvInit, InvStep, PTL DEF Spec

\* One transaction at a time and no lost wakeup, for any number of processes,
\* sectors and log blocks.
THEOREM MutualExclusion ==
  ASSUME ~SilentFail
  PROVE  Spec => []OneTransaction
  <1>1. LogInv => OneTransaction
    BY Zenon DEF LogInv
  <1> QED BY <1>1, Invariance, PTL

\* Past the commit point the device holds the whole transaction.
THEOREM CommitIsOnDisk ==
  ASSUME ~SilentFail
  PROVE  Spec => []CommitForcesLog
  <1>1. LogInv => CommitForcesLog
    <2> SUFFICES ASSUME LogInv, NEW p \in Procs, kern = "up",
                        pc[p] \in {"install", "clear"}
                 PROVE  dhead = lh /\ \A i \in 1 .. Len(lh) : dlog[i] = lbuf[i]
      BY Zenon DEF CommitForcesLog
    <2>1. Installing \/ Clearing
      BY Zenon DEF Installing, Clearing
    <2> QED BY <2>1, Zenon DEF LogInv, PhaseInv
  <1> QED BY <1>1, Invariance, PTL

-----------------------------------------------------------------------------
(* The write-ahead rule. *)

LEMMA WriteAheadStep ==
  ASSUME LogInv, ~SilentFail, [Next]_vars, NEW s \in Sectors, disk'[s] # disk[s]
  PROVE  \E i \in 1 .. Len(dhead) : dhead[i] = s /\ dlog[i] = disk'[s]
  <1>1. PICK i \in 1 .. Len(lh) :
          /\ disk' = [disk EXCEPT ![lh[i]] = lbuf[i]]
          /\ Installing
    <2>1. InstallOne /\ Installing
      BY Zenon DEF Next, vars, diskVars, Transaction, begin_trans, log_write,
             log_write_panic, commit_head, commit_empty, install_trans,
             InstallDone, commit_clear, ClearHead, commit_end, bread, Recycle,
             Crash, Recovery, recover_head, recover_install, recover_clear,
             Installing
    <2>2. tail \in 1 .. Len(lh)
      BY <2>1 DEF InstallOne, Losses, LogInv, TypeOK
    <2> QED BY <2>1, <2>2, Zenon DEF InstallOne, Losses
  <1>2. lh[i] = s /\ disk'[s] = lbuf[i]
    BY <1>1, Zenon DEF LogInv, TypeOK
  <1>3. dhead = lh /\ dlog = lbuf
    BY <1>1, Zenon DEF LogInv, PhaseInv, Installing
  <1> QED BY <1>2, <1>3, Zenon

\* Nothing is written home before the device holds it in a committed log.
THEOREM WriteAheadHolds ==
  ASSUME ~SilentFail
  PROVE  Spec => WriteAhead
  <1>1. LogInv /\ [Next]_vars =>
          [\A s \in Sectors : disk'[s] # disk[s] =>
             \E i \in 1 .. Len(dhead) : dhead[i] = s /\ dlog[i] = disk'[s]]_vars
    BY WriteAheadStep, Zenon
  <1> QED BY <1>1, Invariance, PTL DEF Spec, WriteAhead

-----------------------------------------------------------------------------
(* The log implements AtomicStore. *)

\* A sector's place in a list without repetitions.
LEMMA PlaceOf ==
  ASSUME NEW h, Distinct(h), NEW i \in 1 .. Len(h)
  PROVE  (CHOOSE j \in 1 .. Len(h) : h[j] = h[i]) = i
  <1> DEFINE k == CHOOSE j \in 1 .. Len(h) : h[j] = h[i]
  <1>1. k \in 1 .. Len(h) /\ h[k] = h[i]
    BY Zenon
  <1> QED BY <1>1, Zenon DEF Distinct

\* What recovery rebuilds: the header's blocks from the log, the rest from home.
LEMMA RecoveredValue ==
  ASSUME TypeOK, Distinct(dhead)
  PROVE  /\ \A i \in 1 .. Len(dhead) : Recovered[dhead[i]] = dlog[i]
         /\ \A s \in Sectors :
              (\A i \in 1 .. Len(dhead) : dhead[i] # s) => Recovered[s] = disk[s]
  <1>1. ASSUME NEW i \in 1 .. Len(dhead)
        PROVE  Recovered[dhead[i]] = dlog[i]
    <2>1. dhead[i] \in Sectors
      BY DEF TypeOK
    <2> QED BY <2>1, PlaceOf, ZenonT(60) DEF Recovered
  <1>2. ASSUME NEW s \in Sectors, \A i \in 1 .. Len(dhead) : dhead[i] # s
        PROVE  Recovered[s] = disk[s]
    BY <1>2, Zenon DEF Recovered
  <1> QED BY <1>1, <1>2, Zenon

\* Two ways the recovered contents stay the same.
LEMMA RecoveredSame ==
  ASSUME UNCHANGED <<disk, dlog, dhead>>
  PROVE  Recovered' = Recovered
  BY Zenon DEF Recovered

LEMMA RecoveredEmpty ==
  ASSUME dhead = <<>>, TypeOK
  PROVE  Recovered = disk
  BY EmptyHead DEF Recovered, TypeOK

LEMMA RefineInit == Init => AS!Init
  <1> SUFFICES ASSUME Init PROVE AS!Init
    OBVIOUS
  <1>1. Recovered = disk
    BY RecoveredEmpty, TypeInit, Zenon DEF Init
  <1> QED BY <1>1, Zenon DEF Init, AS!Init, View

\* install_trans and the erasing of the header leave the recovered contents.
LEMMA InstallRecovered ==
  ASSUME LogInv, LogInv', ~SilentFail, InstallOne, dhead = lh
  PROVE  Recovered' = Recovered
  <1>1. tail \in 1 .. Len(lh) /\ lh[tail] \in Sectors
    BY DEF InstallOne, Losses, LogInv, TypeOK
  <1>2. /\ disk' = [disk EXCEPT ![lh[tail]] = lbuf[tail]]
        /\ UNCHANGED <<dlog, dhead>>
    BY Zenon DEF InstallOne, Losses
  <1>3. ASSUME NEW s \in Sectors, ~ \E i \in 1 .. Len(dhead) : dhead[i] = s
        PROVE  disk'[s] = disk[s]
    BY <1>1, <1>2, <1>3, Zenon DEF LogInv, TypeOK
  <1> QED BY <1>2, <1>3, Zenon DEF Recovered

LEMMA ClearRecovered ==
  ASSUME LogInv, ~SilentFail, Clearing, kern # "boot", ClearHead, TypeOK'
  PROVE  Recovered' = Recovered /\ Recovered' = disk
  <1>1. dhead = lh
    BY Zenon DEF LogInv, PhaseInv
  <1>2. Recovered' = disk'
    BY RecoveredEmpty, EmptyHead, SMTT(30), Z3T(30) DEF ClearHead, Written, Recovered, TypeOK
  <1>3. \A i \in 1 .. Len(dhead) : disk[dhead[i]] = dlog[i]
    BY <1>1, Zenon DEF LogInv, BlockInv, PhaseInv
  <1>4. \A s \in Sectors : Recovered[s] = disk[s]
    <2> SUFFICES ASSUME NEW s \in Sectors PROVE Recovered[s] = disk[s]
      OBVIOUS
    <2>1. CASE \E i \in 1 .. Len(dhead) : dhead[i] = s
      BY <1>3, <2>1, RecoveredValue DEF LogInv, PhaseInv
    <2>2. CASE \A i \in 1 .. Len(dhead) : dhead[i] # s
      BY <2>2, RecoveredValue, Zenon DEF LogInv, PhaseInv
    <2> QED BY <2>1, <2>2, Zenon
  <1>5. Recovered = disk
    BY <1>4, Zenon DEF Recovered, LogInv, TypeOK
  <1> QED BY <1>2, <1>5, Zenon DEF ClearHead

\* A step that leaves memory's contents and the recovered contents is a stutter.
LEMMA ViewSame ==
  ASSUME kern \in {"up", "panic"}, kern' \in {"up", "panic"},
         \A s \in Sectors : Content(s)' = Content(s)
  PROVE  View' = View
  BY Zenon DEF View

LEMMA RefineTransaction ==
  ASSUME LogInv, LogInv', ~SilentFail, NEW p \in Procs, Transaction(p)
  PROVE  [AS!Next]_<<Recovered, View>>
  <1> USE DEF LogInv
  <1>1. CASE begin_trans(p) \/ log_write_panic(p) \/ commit_empty(p) \/ commit_end(p)
    <2>1. UNCHANGED <<disk, dlog, dhead, cache>>
          /\ kern \in {"up", "panic"} /\ kern' \in {"up", "panic"}
      BY <1>1, Zenon DEF begin_trans, log_write_panic, commit_empty, commit_end, diskVars
    <2>2. UNCHANGED <<Recovered, View>>
      BY <2>1, RecoveredSame, ViewSame, Zenon DEF Content
    <2> QED BY <2>2, Zenon
  <1>2. ASSUME NEW s \in Sectors, NEW v \in Vals, log_write(p, s, v)
        PROVE  AS!Next
    <2>1. ~Installing /\ ~Clearing
      BY <1>2, Zenon DEF log_write, OneTransaction, InTrans, Installing, Clearing
    <2>2. dhead = <<>> /\ dhead' = <<>>
      BY <1>2, <2>1, ZenonT(60) DEF log_write, PhaseInv
    <2>3. Recovered' = Recovered
      BY <1>2, <2>2, RecoveredEmpty, EmptyHead DEF log_write, Recovered, TypeOK
    <2>4. View' = [View EXCEPT ![s] = v]
      BY <1>2, LogAssumption, Zenon DEF log_write, View, Content, TypeOK
    <2> QED BY <2>3, <2>4, ZenonT(60) DEF AS!Next, AS!Update
  <1>3. CASE commit_head(p)
    <2>1. Writing /\ dhead' = lh /\ UNCHANGED <<disk, dlog, cache, lh, kern>>
      BY <1>3, Zenon DEF commit_head, Written, Writing
    <2>2. View' = View
      BY <1>3, <2>1, ViewSame, Zenon DEF commit_head, Content
    <2>3. ASSUME NEW s \in Sectors PROVE Recovered'[s] = Content(s)
      <3>1. CASE \E i \in 1 .. Len(lh) : lh[i] = s
        <4>1. PICK i \in 1 .. Len(lh) : lh[i] = s
          BY <3>1, Zenon
        <4>2. (CHOOSE j \in 1 .. Len(lh) : lh[j] = s) = i
          BY <4>1, PlaceOf, SMTT(30), Z3T(30) DEF PhaseInv
        <4>3. Recovered'[s] = dlog[i]
          BY <2>1, <4>1, <4>2, ZenonT(60) DEF Recovered
        <4>4. cache[s] = lbuf[i] /\ lbuf = dlog /\ cache[s] # NoBuf
          BY <2>1, <4>1, LogAssumption DEF BlockInv, PhaseInv, TypeOK
        <4> QED BY <4>3, <4>4, Zenon DEF Content
      <3>2. CASE ~ \E i \in 1 .. Len(lh) : lh[i] = s
        <4>1. Recovered'[s] = disk[s]
          BY <2>1, <3>2, Zenon DEF Recovered
        <4>2. s \notin dirty
          BY <3>2, Zenon DEF CacheInv, InLog
        <4> QED BY <4>1, <4>2, Zenon DEF CacheInv, Content
      <3> QED BY <3>1, <3>2, Zenon
    <2>4. Recovered' = View
      BY <1>3, <2>3 DEF commit_head, View, Recovered
    <2> QED BY <2>2, <2>4, Zenon DEF AS!Next, AS!Commit
  <1>4. CASE install_trans(p)
    <2>1. Installing
      BY <1>4, Zenon DEF install_trans, Installing
    <2>2. CASE InstallOne
      <3>1. Recovered' = Recovered
        BY <1>4, <2>1, <2>2, InstallRecovered, Zenon DEF PhaseInv, install_trans
      <3>2. /\ tail \in 1 .. Len(lh) /\ lh[tail] \in Sectors
            /\ cache' = [cache EXCEPT ![lh[tail]] = lbuf[tail]]
            /\ disk' = [disk EXCEPT ![lh[tail]] = lbuf[tail]]
        BY <2>2, SMTT(30), Z3T(30) DEF InstallOne, Losses, TypeOK
      <3>3. cache[lh[tail]] = lbuf[tail] /\ lbuf[tail] # NoBuf
        BY <1>4, <2>1, <3>2, LogAssumption, SMTT(30), Z3T(30) DEF BlockInv, install_trans, TypeOK
      <3>4. \A s \in Sectors : Content(s)' = Content(s)
        BY <3>2, <3>3, Zenon DEF Content, TypeOK
      <3> QED BY <1>4, <3>1, <3>4, ViewSame, Zenon DEF install_trans
    <2>3. CASE InstallDone
      <3>1. UNCHANGED <<disk, dlog, dhead, cache>>
        BY <2>3, Zenon DEF InstallDone, diskVars
      <3> QED BY <1>4, <3>1, RecoveredSame, ViewSame, Zenon DEF Content, install_trans
    <2> QED BY <1>4, <2>2, <2>3, Zenon DEF install_trans
  <1>5. CASE commit_clear(p)
    <2>1. Recovered' = Recovered
      BY <1>5, ClearRecovered, Zenon DEF commit_clear, Clearing
    <2>2. UNCHANGED <<disk, cache>>
      BY <1>5, Zenon DEF commit_clear, ClearHead
    <2> QED BY <1>5, <2>1, <2>2, ViewSame, Zenon DEF commit_clear, Content
  <1> QED BY <1>1, <1>2, <1>3, <1>4, <1>5, Zenon DEF Transaction

LEMMA RefineOther ==
  ASSUME LogInv, LogInv', ~SilentFail,
         Crash \/ Recovery \/ \E s \in Sectors : bread(s) \/ Recycle(s)
  PROVE  [AS!Next]_<<Recovered, View>>
  <1>1. CASE Crash
    <2>1. Recovered' = Recovered /\ View' = Recovered'
      BY <1>1, RecoveredSame, Zenon DEF Crash, diskVars, View
    <2> QED BY <2>1, Zenon DEF AS!Next, AS!Crash
  <1>2. ASSUME NEW s \in Sectors, bread(s) \/ Recycle(s)
        PROVE  UNCHANGED <<Recovered, View>>
    <2>1. /\ UNCHANGED <<disk, dlog, dhead, kern>> /\ kern = "up"
          /\ \A r \in Sectors : r # s => cache'[r] = cache[r]
      BY <1>2, ZenonT(60) DEF bread, Recycle, LogInv, TypeOK
    <2>2. Content(s)' = Content(s)
      BY <1>2, LogAssumption, SMTT(30), Z3T(30) DEF bread, Recycle, Content, LogInv, CacheInv, TypeOK
    <2>3. \A r \in Sectors : Content(r)' = Content(r)
      BY <2>1, <2>2, Zenon DEF Content
    <2> QED BY <2>1, <2>3, RecoveredSame, ViewSame, Zenon
  <1>3. CASE recover_head
    BY <1>3, RecoveredSame, Zenon DEF recover_head, diskVars, View
  <1>4. CASE recover_install
    <2>1. kern = "rinstall" /\ kern' \in {"rinstall", "rclear"} /\ dhead = lh
      BY <1>4, Zenon DEF recover_install, LogInv, PhaseInv, Installing
    <2>2. Recovered' = Recovered
      BY <1>4, <2>1, InstallRecovered, RecoveredSame, Zenon
         DEF recover_install, InstallDone, diskVars
    <2> QED BY <2>1, <2>2, Zenon DEF View
  <1>5. CASE recover_clear
    <2>1. Recovered' = Recovered /\ Recovered' = disk
      BY <1>5, ClearRecovered, Zenon DEF recover_clear, Clearing, LogInv
    <2>2. dirty = {} /\ UNCHANGED <<disk, cache>> /\ kern = "rclear" /\ kern' = "up"
      BY <1>5, Zenon DEF recover_clear, ClearHead, LogInv, PhaseInv
    <2>3. \A s \in Sectors : Content(s)' = disk[s]
      BY <2>2, Zenon DEF Content, LogInv, CacheInv
    <2>4. View' = disk
      BY <2>2, <2>3, Zenon DEF View, LogInv, TypeOK
    <2> QED BY <2>1, <2>2, <2>4, Zenon DEF View
  <1> QED BY <1>1, <1>2, <1>3, <1>4, <1>5, Zenon DEF Recovery

\* log.c implements atomic, durable transactions for every number of
\* processes, sectors and log blocks, with power failures at any moment.
THEOREM Refinement ==
  ASSUME ~SilentFail
  PROVE  Spec => AtomicTransactions
  <1>1. LogInv /\ LogInv' /\ [Next]_vars => [AS!Next]_<<Recovered, View>>
    <2> SUFFICES ASSUME LogInv, LogInv', [Next]_vars
                 PROVE  [AS!Next]_<<Recovered, View>>
      OBVIOUS
    <2>1. CASE UNCHANGED vars
      <3>1. UNCHANGED <<disk, dlog, dhead, cache, kern>>
        BY <2>1, Zenon DEF vars
      <3> QED BY <3>1, RecoveredSame, Zenon DEF View, Content
    <2> QED BY <2>1, RefineTransaction, RefineOther, Zenon DEF Next
  <1> QED BY <1>1, RefineInit, Invariance, PTL DEF Spec, AtomicTransactions, AS!Spec

\* One transaction at a time, forced to disk before it counts as committed.
THEOREM LogConsistency ==
  ASSUME ~SilentFail
  PROVE  Spec => []LogConsistent
  BY TypeCorrect, MutualExclusion, CommitIsOnDisk, PTL DEF LogConsistent
=============================================================================
