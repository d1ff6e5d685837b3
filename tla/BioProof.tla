------------------------------ MODULE BioProof ------------------------------
(***************************************************************************)
(* TLAPS proofs about Bio, for any number of buffers, sectors and          *)
(* processes, on a device whose transfers fail or not.                     *)
(***************************************************************************)
EXTENDS Bio, FiniteSetTheorems, WellFoundedInduction, TLAPS

\* What a buffer's flags say of it.  An unmarked buffer agrees with the device,
\* a valid or marked one has the last data written; a sector without a buffer
\* is up to date on the device.
FlagsInv ==
  /\ \A b \in Bufs : buf[b].sector = None =>
       ~buf[b].busy /\ ~buf[b].valid /\ ~buf[b].dirty
  /\ \A b \in Bufs : buf[b].sector # None /\ (buf[b].valid \/ buf[b].dirty)
                       => buf[b].data = latest[buf[b].sector]
  /\ \A b \in Bufs : buf[b].sector # None /\ ~buf[b].dirty
                       => disk[buf[b].sector] = latest[buf[b].sector]
  /\ \A s \in Sectors : (\A b \in Bufs : buf[b].sector # s) => disk[s] = latest[s]

\* Who transfers holds its buffer, and the buffer needs the transfer; without
\* failures every other buffer that is held is valid.
TransferInv ==
  /\ \A p \in Procs : pc[p] \in {"io", "retry"} =>
       slot[p] \in held[p] /\ (buf[slot[p]].dirty \/ ~buf[slot[p]].valid)
  /\ \A p \in Procs : pc[p] = "asleep" => slot[p] \in Bufs
  /\ \A p \in Procs : \A b \in held[p] :
       IOFail \/ buf[b].valid \/ (pc[p] \in {"io", "retry"} /\ slot[p] = b)

IInv == TypeOK /\ OneBufferPerSector /\ BusyIsExclusive /\ FlagsInv /\ TransferInv

-----------------------------------------------------------------------------
(* The list. *)

LEMMA BufsCount == Cardinality(Bufs) \in Nat
  BY FS_CardinalityType, BioAssumption, Zenon

\* bget's backward loop finds the last buffer of the list that is free.
LEMMA VictimFree ==
  ASSUME TypeOK, Free # {}
  PROVE  Victim \in Bufs /\ Victim \in Free
  <1> DEFINE N == Cardinality(Bufs)
             Back == {n \in 0 .. N : \E i \in 1 .. N : n = N - i /\ order[i] \in Free}
  <1>1. N \in Nat
    BY BufsCount, Zenon
  <1>2. order \in [1 .. N -> Bufs] /\ DOMAIN order = 1 .. N /\ \A b \in Bufs : \E i \in 1 .. N : order[i] = b
    BY Zenon DEF TypeOK, Range
  <1>3. PICK b \in Bufs : b \in Free
    BY Zenon DEF Free
  <1>4. PICK i \in 1 .. N : order[i] \in Free
    BY <1>2, <1>3, Zenon
  <1>5. N - i \in Back
    BY <1>1, <1>4
  <1> HIDE DEF N
  <1>6. Back \subseteq Nat /\ Back # {}
    BY <1>1, <1>5
  <1>7. PICK n \in Back : \A m \in Back : ~ (<<m, n>> \in OpToRel(<, Nat))
    BY <1>6, WFMin, NatLessThanWellFounded, Zenon
  <1>8. ASSUME NEW m \in Back PROVE n <= m
    <2>1. \A s, t \in Nat : t < s => <<t, s>> \in OpToRel(<, Nat)
      BY Zenon DEF OpToRel
    <2>2. m \in Nat /\ n \in Nat
      BY <1>6, Zenon
    <2>3. ~ (m < n)
      BY <1>7, <2>1, <2>2, Zenon
    <2> QED BY <2>2, <2>3
  <1>9. PICK k \in 1 .. N : n = N - k /\ order[k] \in Free
    BY Zenon DEF Back
  <1>10. ASSUME NEW j \in 1 .. N, order[j] \in Free PROVE j <= k
    <2>1. N - j \in Back
      BY <1>1, <1>10
    <2> QED BY <1>1, <1>8, <1>9, <2>1
  <1>11. \E l \in DOMAIN order : order[l] \in Free /\ \A j \in DOMAIN order : order[j] \in Free => j <= l
    BY <1>2, <1>9, <1>10, Zenon
  <1>12. Victim \in Free
    BY <1>11, Zenon DEF Victim
  <1> QED BY <1>12, Zenon DEF Free

\* brelse keeps every buffer on the list.
LEMMA FrontOrder ==
  ASSUME TypeOK, NEW b \in Bufs
  PROVE  ToFront(b) \in [1 .. Cardinality(Bufs) -> Bufs] /\ Range(ToFront(b)) = Bufs
  <1> DEFINE N == Cardinality(Bufs)
             i == CHOOSE i \in DOMAIN order : order[i] = b
             o == ToFront(b)
  <1>1. N \in Nat
    BY BufsCount, Zenon
  <1>2. order \in [1 .. N -> Bufs] /\ DOMAIN order = 1 .. N /\ \A x \in Bufs : \E k \in 1 .. N : order[k] = x
    BY Zenon DEF TypeOK, Range
  <1>3. i \in DOMAIN order /\ order[i] = b
    BY <1>2, Zenon
  <1>4. i \in 1 .. N /\ order[i] = b
    BY <1>2, <1>3, Zenon
  <1>5. o = [j \in 1 .. N |-> IF j = 1 THEN b ELSE order[IF j <= i THEN j - 1 ELSE j]]
    BY <1>2, Zenon DEF ToFront
  <1> HIDE DEF N, i, o
  <1>6. o \in [1 .. N -> Bufs]
    <2>1. ASSUME NEW j \in 1 .. N PROVE j # 1 => (IF j <= i THEN j - 1 ELSE j) \in 1 .. N
      BY <1>1, <1>4
    <2> QED BY <1>2, <1>5, <2>1, Zenon
  <1>7. ASSUME NEW x \in Bufs PROVE \E j \in 1 .. N : o[j] = x
    <2>1. PICK k \in 1 .. N : order[k] = x
      BY <1>2, Zenon
    <2>2. CASE x = b
      <3>1. 1 \in 1 .. N
        BY <1>1, <1>4
      <3> QED BY <1>5, <2>2, <3>1, Zenon
    <2>3. CASE x # b /\ k < i
      <3>1. k + 1 \in 1 .. N /\ k + 1 # 1 /\ k + 1 <= i /\ (k + 1) - 1 = k
        BY <1>1, <1>4, <2>3
      <3> QED BY <1>5, <2>1, <3>1, Zenon
    <2>4. CASE x # b /\ i < k
      <3>1. k # 1 /\ ~ (k <= i)
        BY <1>1, <1>4, <2>4
      <3> QED BY <1>5, <2>1, <3>1, Zenon
    <2>5. x # b => k # i
      BY <1>4, <2>1, Zenon
    <2> QED BY <1>1, <1>4, <2>1, <2>2, <2>3, <2>4, <2>5
  <1>8. Range(o) = Bufs
    BY <1>6, <1>7, Zenon DEF Range
  <1> QED BY <1>6, <1>8, Zenon DEF N, o

-----------------------------------------------------------------------------
(* Every action keeps the invariant. *)

LEMMA bget_hitInv ==
  ASSUME IInv, NEW p \in Procs, NEW s \in Sectors, bget_hit(p, s)
  PROVE  IInv'
  <1> USE DEF Buffer
  <1>1. PICK b \in Bufs : /\ buf[b].sector = s /\ ~buf[b].busy
                          /\ buf' = [buf EXCEPT ![b].busy = TRUE]
                          /\ Takes(p, b, buf[b].valid)
    BY Zenon DEF bget_hit, Cached
  <1>2. order' = order /\ disk' = disk /\ latest' = latest /\ panicked' = panicked
    BY Zenon DEF bget_hit
  <1>3. /\ held' = [held EXCEPT ![p] = @ \cup {b}] /\ slot' = [slot EXCEPT ![p] = b]
        /\ want' = [want EXCEPT ![p] = None]
        /\ pc' = [pc EXCEPT ![p] = IF buf[b].valid THEN "run" ELSE "io"]
    BY <1>1, Zenon DEF Takes
  <1>4. TypeOK
    BY Zenon DEF IInv
  <1>5. /\ buf'[b].sector = s /\ buf'[b].busy /\ buf'[b].valid = buf[b].valid
        /\ buf'[b].dirty = buf[b].dirty /\ buf'[b].data = buf[b].data
        /\ \A c \in Bufs \ {b} : buf'[c] = buf[c]
        /\ buf' \in [Bufs -> Buffer]
    <2>1. buf \in [Bufs -> Buffer] /\ buf[b] \in Buffer
      BY <1>4, Zenon DEF TypeOK
    <2>2. /\ buf'[b] = [buf[b] EXCEPT !.busy = TRUE] /\ DOMAIN buf' = Bufs
          /\ \A c \in Bufs \ {b} : buf'[c] = buf[c]
          /\ buf' = [c \in Bufs |-> buf'[c]]
      BY <1>1, <2>1, Zenon
    <2>3. buf'[b] \in Buffer
      BY <2>1, <2>2, Zenon
    <2> QED BY <1>1, <2>1, <2>2, <2>3, Zenon
  <1>6. /\ \A q \in Procs \ {p} : pc'[q] = pc[q] /\ slot'[q] = slot[q] /\ held'[q] = held[q]
        /\ held'[p] = held[p] \cup {b} /\ slot'[p] = b
        /\ pc'[p] = IF buf[b].valid THEN "run" ELSE "io"
    BY <1>3, <1>4, Zenon DEF TypeOK
  <1>7. TypeOK'
    BY <1>2, <1>3, <1>4, <1>5 DEF TypeOK
  <1>8. \A c \in Bufs : buf'[c].sector = buf[c].sector
    BY <1>1, <1>5, Zenon
  <1>9. OneBufferPerSector'
    BY <1>8, ZenonT(60) DEF IInv, OneBufferPerSector
  <1>10. s # None /\ \A q \in Procs : b \notin held[q]
    BY <1>1, BioAssumption, Zenon DEF IInv, BusyIsExclusive
  <1>11. BusyIsExclusive'
    <2>1. \A c \in Bufs : buf'[c].busy <=> \E q \in Procs : c \in held'[q]
      BY <1>5, <1>6 DEF IInv, BusyIsExclusive
    <2>2. \A q, t \in Procs : q # t => held'[q] \cap held'[t] = {}
      BY <1>6, <1>10 DEF IInv, BusyIsExclusive
    <2>3. \A q \in Procs : pc'[q] = "asleep" => buf'[slot'[q]].busy
      BY <1>5, <1>6 DEF IInv, BusyIsExclusive, TransferInv
    <2> QED BY <2>1, <2>2, <2>3, Zenon DEF BusyIsExclusive
  <1>12. FlagsInv'
    BY <1>2, <1>5, <1>8, <1>10 DEF IInv, FlagsInv
  <1>13. TransferInv'
    <2>1. \A q \in Procs : pc'[q] \in {"io", "retry"} =>
            slot'[q] \in held'[q] /\ (buf'[slot'[q]].dirty \/ ~buf'[slot'[q]].valid)
      <3>1. \A q \in Procs \ {p} : pc[q] \in {"io", "retry"} => slot[q] \in Bufs \ {b}
        BY <1>4, <1>10, Zenon DEF IInv, TransferInv, TypeOK
      <3> QED BY <1>5, <1>6, <3>1 DEF IInv, TransferInv
    <2>2. \A q \in Procs : pc'[q] = "asleep" => slot'[q] \in Bufs
      BY <1>6, Zenon DEF IInv, TransferInv
    <2>3. \A q \in Procs : \A c \in held'[q] :
            IOFail \/ buf'[c].valid \/ (pc'[q] \in {"io", "retry"} /\ slot'[q] = c)
      BY <1>4, <1>5, <1>6, <1>10 DEF IInv, TransferInv, TypeOK, bget_hit, Asks
    <2> QED BY <2>1, <2>2, <2>3, Zenon DEF TransferInv
  <1> QED BY <1>7, <1>9, <1>11, <1>12, <1>13, Zenon DEF IInv

LEMMA bget_sleepInv ==
  ASSUME IInv, NEW p \in Procs, NEW s \in Sectors, bget_sleep(p, s)
  PROVE  IInv'
  <1>1. PICK b \in Bufs : buf[b].sector = s /\ buf[b].busy /\ slot' = [slot EXCEPT ![p] = b]
    BY Zenon DEF bget_sleep, Cached
  <1>2. /\ buf' = buf /\ order' = order /\ disk' = disk /\ latest' = latest
        /\ panicked' = panicked /\ held' = held
        /\ want' = [want EXCEPT ![p] = s] /\ pc' = [pc EXCEPT ![p] = "asleep"]
    BY Zenon DEF bget_sleep
  <1>3. TypeOK /\ pc[p] \in {"run", "woken"}
    BY Zenon DEF IInv, bget_sleep, Asks
  <1>4. /\ \A q \in Procs \ {p} : pc'[q] = pc[q] /\ slot'[q] = slot[q]
        /\ slot'[p] = b /\ pc'[p] = "asleep"
    BY <1>1, <1>2, <1>3, Zenon DEF TypeOK
  <1>5. TypeOK'
    BY <1>1, <1>2, <1>3, Zenon DEF TypeOK
  <1>6. OneBufferPerSector' /\ FlagsInv'
    BY <1>2, Zenon DEF IInv, OneBufferPerSector, FlagsInv
  <1>7. BusyIsExclusive'
    BY <1>1, <1>2, <1>4 DEF IInv, BusyIsExclusive
  <1>8. TransferInv'
    BY <1>1, <1>2, <1>3, <1>4 DEF IInv, TransferInv
  <1> QED BY <1>5, <1>6, <1>7, <1>8, Zenon DEF IInv

LEMMA bget_recycleInv ==
  ASSUME IInv, NEW p \in Procs, NEW s \in Sectors, bget_recycle(p, s)
  PROVE  IInv'
  <1> DEFINE b == Victim
  <1> USE DEF Buffer
  <1>1. TypeOK /\ b \in Bufs /\ b \in Free
    BY VictimFree, Zenon DEF IInv, bget_recycle
  <1>2. /\ buf' = [buf EXCEPT ![b].sector = s, ![b].busy = TRUE,
                              ![b].valid = FALSE, ![b].dirty = FALSE]
        /\ Takes(p, b, FALSE)
    BY Zenon DEF bget_recycle
  <1> HIDE DEF b
  <1>3. order' = order /\ disk' = disk /\ latest' = latest /\ panicked' = panicked
    BY Zenon DEF bget_recycle
  <1>4. /\ held' = [held EXCEPT ![p] = @ \cup {b}] /\ slot' = [slot EXCEPT ![p] = b]
        /\ want' = [want EXCEPT ![p] = None] /\ pc' = [pc EXCEPT ![p] = "io"]
    BY <1>2, Zenon DEF Takes
  <1>5. ~buf[b].busy /\ ~buf[b].dirty /\ s # None /\ \A c \in Bufs : buf[c].sector # s
    BY <1>1, BioAssumption, Zenon DEF Free, bget_recycle, Cached
  <1>6. /\ buf'[b].sector = s /\ buf'[b].busy /\ ~buf'[b].valid /\ ~buf'[b].dirty
        /\ \A c \in Bufs \ {b} : buf'[c] = buf[c]
        /\ buf' \in [Bufs -> Buffer]
    <2>1. buf \in [Bufs -> Buffer] /\ buf[b] \in Buffer
      BY <1>1, Zenon DEF TypeOK
    <2>2. /\ buf'[b] = [sector |-> s, busy |-> TRUE, valid |-> FALSE, dirty |-> FALSE,
                        data |-> buf[b].data]
          /\ DOMAIN buf' = Bufs
          /\ \A c \in Bufs \ {b} : buf'[c] = buf[c]
          /\ buf' = [c \in Bufs |-> buf'[c]]
      BY <1>1, <1>2, <2>1, Zenon
    <2>3. buf'[b] \in Buffer
      BY <2>1, <2>2
    <2>4. buf'[b].sector = s /\ buf'[b].busy /\ ~buf'[b].valid /\ ~buf'[b].dirty
      BY <2>2
    <2>5. \A c \in Bufs : buf'[c] \in Buffer
      BY <2>1, <2>2, <2>3, ZenonT(60)
    <2>6. buf' \in [Bufs -> Buffer]
      BY <2>2, <2>5, Zenon
    <2> QED BY <2>2, <2>4, <2>6, Zenon
  <1>7. /\ \A q \in Procs \ {p} : pc'[q] = pc[q] /\ slot'[q] = slot[q] /\ held'[q] = held[q]
        /\ held'[p] = held[p] \cup {b} /\ slot'[p] = b /\ pc'[p] = "io"
    BY <1>1, <1>4, Zenon DEF TypeOK
  <1>8. TypeOK'
    BY <1>1, <1>3, <1>4, <1>6, ZenonT(60) DEF TypeOK
  <1>9. OneBufferPerSector'
    BY <1>1, <1>5, <1>6 DEF IInv, OneBufferPerSector
  <1>10. \A q \in Procs : b \notin held[q]
    BY <1>1, <1>5, Zenon DEF IInv, BusyIsExclusive
  <1>11. BusyIsExclusive'
    <2>1. \A c \in Bufs : buf'[c].busy <=> \E q \in Procs : c \in held'[q]
      BY <1>6, <1>7 DEF IInv, BusyIsExclusive
    <2>2. \A q, t \in Procs : q # t => held'[q] \cap held'[t] = {}
      BY <1>7, <1>10 DEF IInv, BusyIsExclusive
    <2>3. \A q \in Procs : pc'[q] = "asleep" => buf'[slot'[q]].busy
      BY <1>5, <1>6, <1>7 DEF IInv, BusyIsExclusive, TransferInv
    <2> QED BY <2>1, <2>2, <2>3, Zenon DEF BusyIsExclusive
  <1>12. FlagsInv'
    <2>1. \A c \in Bufs \ {b} : c \in Bufs /\ buf'[c] = buf[c]
      BY <1>6, Zenon
    <2>2. disk[s] = latest[s]
      BY <1>5, Zenon DEF IInv, FlagsInv
    <2>3. ASSUME NEW t \in Sectors, \A c \in Bufs : buf'[c].sector # t PROVE disk[t] = latest[t]
      <3>1. CASE buf[b].sector = t
        BY <1>1, <1>5, <3>1, BioAssumption, Zenon DEF IInv, FlagsInv
      <3>2. CASE buf[b].sector # t
        BY <2>1, <2>3, <3>2 DEF IInv, FlagsInv
      <3> QED BY <3>1, <3>2, Zenon
    <2>4. ASSUME NEW c \in Bufs
          PROVE /\ buf'[c].sector = None => ~buf'[c].busy /\ ~buf'[c].valid /\ ~buf'[c].dirty
                /\ buf'[c].sector # None /\ (buf'[c].valid \/ buf'[c].dirty)
                     => buf'[c].data = latest[buf'[c].sector]
                /\ buf'[c].sector # None /\ ~buf'[c].dirty
                     => disk[buf'[c].sector] = latest[buf'[c].sector]
      <3>1. CASE c = b
        BY <1>5, <1>6, <2>2, <3>1, Zenon
      <3>2. CASE c # b
        BY <2>1, <3>2, Zenon DEF IInv, FlagsInv
      <3> QED BY <3>1, <3>2, Zenon
    <2> QED BY <1>3, <2>3, <2>4, Zenon DEF FlagsInv
  <1>13. TransferInv'
    <2>1. \A q \in Procs : pc'[q] \in {"io", "retry"} =>
            slot'[q] \in held'[q] /\ (buf'[slot'[q]].dirty \/ ~buf'[slot'[q]].valid)
      <3>1. \A q \in Procs \ {p} : pc[q] \in {"io", "retry"} => slot[q] \in Bufs \ {b}
        BY <1>1, <1>10, ZenonT(60) DEF IInv, TransferInv, TypeOK
      <3> QED BY <1>6, <1>7, <3>1 DEF IInv, TransferInv
    <2>2. \A q \in Procs : pc'[q] = "asleep" => slot'[q] \in Bufs
      BY <1>7, Zenon DEF IInv, TransferInv
    <2>3. \A q \in Procs : \A c \in held'[q] :
            IOFail \/ buf'[c].valid \/ (pc'[q] \in {"io", "retry"} /\ slot'[q] = c)
      BY <1>1, <1>6, <1>7, <1>10, SMTT(30), Z3T(30) DEF IInv, TransferInv, TypeOK, bget_recycle, Asks
    <2> QED BY <2>1, <2>2, <2>3, Zenon DEF TransferInv
  <1> QED BY <1>8, <1>9, <1>11, <1>12, <1>13, Zenon DEF IInv

\* A process does something to a buffer b that it holds: it transfers or
\* changes it, and goes on at l.
LEMMA HolderStep ==
  ASSUME IInv, NEW p \in Procs, NEW b \in held[p], NEW l \in {"run", "io", "retry"},
         buf' \in [Bufs -> Buffer],
         \A c \in Bufs \ {b} : buf'[c] = buf[c],
         buf'[b].sector = buf[b].sector, buf'[b].busy = buf[b].busy,
         disk' \in [Sectors -> Vals], latest' \in [Sectors -> Vals],
         \A t \in Sectors \ {buf[b].sector} : disk'[t] = disk[t] /\ latest'[t] = latest[t],
         buf'[b].valid \/ buf'[b].dirty => buf'[b].data = latest'[buf[b].sector],
         ~buf'[b].dirty => disk'[buf[b].sector] = latest'[buf[b].sector],
         pc' = [pc EXCEPT ![p] = l], slot' \in [Procs -> Bufs \cup {None}],
         \A q \in Procs \ {p} : slot'[q] = slot[q],
         l # "run" => slot'[p] = b /\ (buf'[b].dirty \/ ~buf'[b].valid),
         IOFail \/ buf'[b].valid \/ l # "run",
         pc[p] = "run" \/ slot[p] = b,
         order' = order, want' = want, held' = held, panicked' = panicked
  PROVE  IInv'
  <1>1. TypeOK /\ b \in Bufs
    BY Zenon DEF IInv, TypeOK
  <1>2. pc'[p] = l /\ \A q \in Procs \ {p} : pc'[q] = pc[q]
    BY <1>1, Zenon DEF TypeOK
  <1>3. TypeOK'
    BY <1>1, Zenon DEF TypeOK
  <1>4. \A c \in Bufs : buf'[c].sector = buf[c].sector /\ buf'[c].busy = buf[c].busy
    BY <1>1, Zenon
  <1>5. OneBufferPerSector'
    BY <1>4 DEF IInv, OneBufferPerSector
  <1>6. \A q \in Procs \ {p} : b \notin held[q]
    BY Zenon DEF IInv, BusyIsExclusive
  <1>7. BusyIsExclusive'
    BY <1>2, <1>4 DEF IInv, BusyIsExclusive, TransferInv
  <1>8. buf[b].busy /\ buf[b].sector # None /\ buf[b].sector \in Sectors
    <2>1. buf[b].busy
      BY <1>1, Zenon DEF IInv, BusyIsExclusive
    <2>2. buf[b].sector # None
      BY <1>1, <2>1, Zenon DEF IInv, FlagsInv
    <2>3. buf \in [Bufs -> Buffer]
      BY <1>1, Zenon DEF TypeOK
    <2>4. buf[b] \in Buffer
      BY <1>1, <2>3, ZenonT(60)
    <2> QED BY <2>1, <2>2, <2>4, Zenon DEF Buffer
  <1>9. FlagsInv'
    <2>1. ASSUME NEW t \in Sectors, \A c \in Bufs : buf'[c].sector # t PROVE disk'[t] = latest'[t]
      <3>1. t # buf[b].sector /\ \A c \in Bufs : buf[c].sector # t
        BY <1>1, <1>4, <2>1, Zenon
      <3> QED BY <3>1, Zenon DEF IInv, FlagsInv
    <2>2. ASSUME NEW c \in Bufs
          PROVE /\ buf'[c].sector = None => ~buf'[c].busy /\ ~buf'[c].valid /\ ~buf'[c].dirty
                /\ buf'[c].sector # None /\ (buf'[c].valid \/ buf'[c].dirty)
                     => buf'[c].data = latest'[buf'[c].sector]
                /\ buf'[c].sector # None /\ ~buf'[c].dirty
                     => disk'[buf'[c].sector] = latest'[buf'[c].sector]
      <3>1. CASE c = b
        BY <1>8, <3>1, ZenonT(60)
      <3>2. CASE c # b
        <4>1. buf'[c] = buf[c] /\ buf[c] \in Buffer
          BY <1>1, <3>2, Zenon DEF TypeOK
        <4>2. buf[c].sector # None => buf[c].sector \in Sectors \ {buf[b].sector}
          BY <1>1, <3>2, <4>1, Zenon DEF IInv, OneBufferPerSector, Buffer
        <4> QED BY <4>1, <4>2 DEF IInv, FlagsInv
      <3> QED BY <3>1, <3>2, Zenon
    <2> QED BY <2>1, <2>2, Zenon DEF FlagsInv
  <1>10. TransferInv'
    <2>1. \A q \in Procs : pc'[q] \in {"io", "retry"} =>
            slot'[q] \in held'[q] /\ (buf'[slot'[q]].dirty \/ ~buf'[slot'[q]].valid)
      <3>1. \A q \in Procs \ {p} : pc[q] \in {"io", "retry"} => slot[q] \in Bufs \ {b}
        BY <1>1, <1>6, SMTT(30), Z3T(30) DEF IInv, TransferInv, TypeOK
      <3> QED BY <1>2, <3>1, SMTT(30), Z3T(30) DEF IInv, TransferInv
    <2>2. \A q \in Procs : pc'[q] = "asleep" => slot'[q] \in Bufs
      BY <1>2, Zenon DEF IInv, TransferInv
    <2>3. ASSUME NEW q \in Procs, NEW c \in held'[q]
          PROVE  IOFail \/ buf'[c].valid \/ (pc'[q] \in {"io", "retry"} /\ slot'[q] = c)
      <3>1. CASE c = b
        BY <1>2, <1>6, <2>3, <3>1, Zenon
      <3>2. CASE c # b
        <4>1. c \in held[q] /\ buf'[c] = buf[c]
          BY <1>1, <2>3, <3>2, Zenon DEF TypeOK
        <4>2. CASE q = p
          BY <3>2, <4>1, <4>2, Zenon DEF IInv, TransferInv
        <4>3. CASE q # p
          BY <1>2, <4>1, <4>3, SMTT(30), Z3T(30) DEF IInv, TransferInv
        <4> QED BY <4>2, <4>3, Zenon
      <3> QED BY <3>1, <3>2, Zenon
    <2> QED BY <2>1, <2>2, <2>3, Zenon DEF TransferInv
  <1> QED BY <1>3, <1>5, <1>7, <1>9, <1>10, Zenon DEF IInv

\* The buffer of a transfer, and what is known of it.
LEMMA InTransfer ==
  ASSUME IInv, NEW p \in Procs, pc[p] \in {"io", "retry"}
  PROVE  /\ slot[p] \in held[p] /\ slot[p] \in Bufs
         /\ buf[slot[p]] \in Buffer /\ buf[slot[p]].sector \in Sectors
         /\ buf[slot[p]].dirty \/ ~buf[slot[p]].valid
  <1>1. slot[p] \in held[p] /\ (buf[slot[p]].dirty \/ ~buf[slot[p]].valid)
    BY Zenon DEF IInv, TransferInv
  <1>2. slot[p] \in Bufs /\ buf[slot[p]] \in Buffer
    BY <1>1, Zenon DEF IInv, TypeOK
  <1>3. buf[slot[p]].busy
    BY <1>1, <1>2, Zenon DEF IInv, BusyIsExclusive
  <1>4. buf[slot[p]].sector # None
    BY <1>2, <1>3, Zenon DEF IInv, FlagsInv
  <1> QED BY <1>1, <1>2, <1>4, Zenon DEF Buffer

LEMMA usb_rwInv ==
  ASSUME IInv, NEW p \in Procs, usb_rw(p)
  PROVE  IInv'
  <1> DEFINE b == slot[p]
             s == buf[b].sector
  <1>1. /\ pc[p] \in {"io", "retry"} /\ pc' = [pc EXCEPT ![p] = "run"]
        /\ order' = order /\ want' = want /\ slot' = slot /\ held' = held
        /\ latest' = latest /\ panicked' = panicked
        /\ IF buf[b].dirty
             THEN disk' = [disk EXCEPT ![s] = buf[b].data] /\
                  buf' = [buf EXCEPT ![b].dirty = FALSE, ![b].valid = TRUE]
             ELSE buf' = [buf EXCEPT ![b].data = disk[s], ![b].valid = TRUE] /\ disk' = disk
    BY Zenon DEF usb_rw
  <1>2. b \in held[p] /\ b \in Bufs /\ buf[b] \in Buffer /\ s \in Sectors
    BY <1>1, InTransfer, Zenon
  <1>3. TypeOK
    BY Zenon DEF IInv
  <1>4. s # None
    BY <1>2, BioAssumption, Zenon
  <1>5. buf[b].data \in Vals /\ disk[s] \in Vals
    BY <1>2, <1>3, Zenon DEF TypeOK, Buffer
  <1> HIDE DEF s, b
  <1> DEFINE new == IF buf[b].dirty THEN [buf[b] EXCEPT !.dirty = FALSE, !.valid = TRUE]
                                    ELSE [buf[b] EXCEPT !.data = disk[s], !.valid = TRUE]
  <1>6. new \in Buffer
    BY <1>2, <1>5, Zenon DEF Buffer
  <1>7. buf' = [buf EXCEPT ![b] = new]
    BY <1>1, <1>2, <1>3, Zenon DEF TypeOK
  <1>8. /\ new.valid /\ new.sector = s /\ new.busy = buf[b].busy
        /\ new.data = IF buf[b].dirty THEN buf[b].data ELSE disk[s]
        /\ ~new.dirty
    BY <1>2, Zenon DEF Buffer, s
  <1> HIDE DEF new
  <1>9. /\ buf' \in [Bufs -> Buffer] /\ buf'[b] = new
        /\ \A c \in Bufs \ {b} : buf'[c] = buf[c]
    BY <1>2, <1>3, <1>6, <1>7, Zenon DEF TypeOK
  <1>10. /\ disk' \in [Sectors -> Vals] /\ latest' \in [Sectors -> Vals]
         /\ \A t \in Sectors \ {s} : disk'[t] = disk[t] /\ latest'[t] = latest[t]
         /\ disk'[s] = IF buf[b].dirty THEN buf[b].data ELSE disk[s]
    BY <1>1, <1>2, <1>3, <1>5, Zenon DEF TypeOK
  <1>11. /\ buf[b].dirty => buf[b].data = latest[s]
         /\ ~buf[b].dirty => disk[s] = latest[s]
    BY <1>2, <1>4, Zenon DEF IInv, FlagsInv, s
  <1>12. new.data = latest'[s] /\ disk'[s] = latest'[s]
    BY <1>1, <1>8, <1>10, <1>11, Zenon
  <1>13. slot' \in [Procs -> Bufs \cup {None}] /\ slot[p] = b
    BY <1>1, <1>3, Zenon DEF TypeOK, b
  <1>14. /\ pc' = [pc EXCEPT ![p] = "run"] /\ "run" \in {"run", "io", "retry"}
         /\ order' = order /\ want' = want /\ slot' = slot /\ held' = held
         /\ panicked' = panicked
    BY <1>1, Zenon
  <1>15. s = buf[b].sector
    BY Zenon DEF s
  <1>16. /\ buf'[b].sector = buf[b].sector /\ buf'[b].busy = buf[b].busy
         /\ buf'[b].valid /\ ~buf'[b].dirty /\ buf'[b].data = latest'[buf[b].sector]
         /\ disk'[buf[b].sector] = latest'[buf[b].sector]
    BY <1>8, <1>9, <1>12, <1>15, Zenon
  <1>17. \A t \in Sectors \ {buf[b].sector} : disk'[t] = disk[t] /\ latest'[t] = latest[t]
    BY <1>10, <1>15, Zenon
  <1>18. /\ buf'[b].valid \/ buf'[b].dirty => buf'[b].data = latest'[buf[b].sector]
         /\ ~buf'[b].dirty => disk'[buf[b].sector] = latest'[buf[b].sector]
         /\ \A q \in Procs \ {p} : slot'[q] = slot[q]
         /\ "run" # "run" => slot'[p] = b /\ (buf'[b].dirty \/ ~buf'[b].valid)
         /\ IOFail \/ buf'[b].valid \/ "run" # "run"
         /\ pc[p] = "run" \/ slot[p] = b
    BY <1>13, <1>14, <1>16, Zenon
  <1> QED BY <1>2, <1>9, <1>10, <1>13, <1>14, <1>16, <1>17, <1>18, HolderStep, ZenonT(40)

LEMMA usb_rw_errorInv ==
  ASSUME IInv, NEW p \in Procs, usb_rw_error(p)
  PROVE  IInv'
  <1> DEFINE b == slot[p]
             s == buf[b].sector
             l == IF pc[p] = "io" THEN "retry" ELSE "run"
  <1>1. /\ pc[p] \in {"io", "retry"} /\ pc' = [pc EXCEPT ![p] = l]
        /\ order' = order /\ want' = want /\ slot' = slot /\ held' = held
        /\ latest' = latest /\ panicked' = panicked /\ IOFail
        /\ l \in {"run", "io", "retry"}
    BY Zenon DEF usb_rw_error
  <1>2. /\ b \in held[p] /\ b \in Bufs /\ buf[b] \in Buffer /\ s \in Sectors
        /\ buf[b].dirty \/ ~buf[b].valid
    BY <1>1, InTransfer, Zenon
  <1>3. TypeOK
    BY Zenon DEF IInv
  <1>4. PICK v \in Vals :
          /\ buf[b].dirty => disk' \in {disk, [disk EXCEPT ![s] = buf[b].data]} /\ buf' = buf
          /\ ~buf[b].dirty => buf' = [buf EXCEPT ![b].data = v] /\ disk' = disk
    BY BioAssumption, Zenon DEF usb_rw_error
  <1>5. s # None /\ buf[b].data \in Vals
    BY <1>2, BioAssumption, Zenon DEF Buffer
  <1>6. slot' \in [Procs -> Bufs \cup {None}] /\ slot'[p] = b
    BY <1>1, <1>3, Zenon DEF TypeOK
  <1>7. /\ disk' \in [Sectors -> Vals] /\ latest' \in [Sectors -> Vals]
        /\ \A t \in Sectors \ {s} : disk'[t] = disk[t] /\ latest'[t] = latest[t]
        /\ ~buf[b].dirty => disk' = disk
    BY <1>1, <1>2, <1>3, <1>4, <1>5, Zenon DEF TypeOK
  <1>8. /\ buf' \in [Bufs -> Buffer] /\ \A c \in Bufs \ {b} : buf'[c] = buf[c]
        /\ buf'[b].sector = s /\ buf'[b].busy = buf[b].busy
        /\ buf'[b].dirty = buf[b].dirty /\ buf'[b].valid = buf[b].valid
        /\ buf[b].dirty => buf'[b].data = buf[b].data
    <2>1. CASE buf[b].dirty
      BY <1>3, <1>4, <2>1, ZenonT(60) DEF TypeOK
    <2>2. CASE ~buf[b].dirty
      <3>1. buf'[b] = [buf[b] EXCEPT !.data = v] /\ \A c \in Bufs \ {b} : buf'[c] = buf[c]
        BY <1>2, <1>3, <1>4, <2>2, Zenon DEF TypeOK
      <3>2. buf'[b] \in Buffer
        BY <1>2, <3>1, Zenon DEF Buffer
      <3>3. buf' \in [Bufs -> Buffer]
        BY <1>2, <1>3, <1>4, <2>2, <3>1, <3>2, Zenon DEF TypeOK
      <3> QED BY <1>2, <2>2, <3>1, <3>3, Zenon DEF Buffer
    <2> QED BY <2>1, <2>2, Zenon
  <1>9. /\ buf[b].dirty => buf[b].data = latest[s]
        /\ ~buf[b].dirty => disk[s] = latest[s]
    BY <1>2, <1>5, Zenon DEF IInv, FlagsInv
  <1>10. /\ buf'[b].valid \/ buf'[b].dirty => buf'[b].data = latest'[s]
         /\ ~buf'[b].dirty => disk'[s] = latest'[s]
         /\ buf'[b].dirty \/ ~buf'[b].valid
         /\ slot[p] = b /\ \A q \in Procs \ {p} : slot'[q] = slot[q]
    BY <1>1, <1>2, <1>7, <1>8, <1>9, Zenon
  <1> HIDE DEF l, b
  <1> QED BY <1>1, <1>2, <1>6, <1>7, <1>8, <1>10, HolderStep, Zenon

LEMMA BufferIs ==
  ASSUME NEW s \in Sectors, NEW x \in BOOLEAN, NEW y \in BOOLEAN, NEW z \in BOOLEAN, NEW v \in Vals
  PROVE  [sector |-> s, busy |-> x, valid |-> y, dirty |-> z, data |-> v] \in Buffer
  BY Zenon DEF Buffer

\* log_write and bwrite: new data, marked B_DIRTY.
LEMMA ChangedInv ==
  ASSUME IInv, NEW p \in Procs, NEW b \in held[p], NEW v \in Vals, NEW l \in {"run", "io"},
         pc[p] = "run", pc' = [pc EXCEPT ![p] = l],
         buf' = [buf EXCEPT ![b].data = v, ![b].dirty = TRUE],
         latest' = [latest EXCEPT ![buf[b].sector] = v],
         slot' \in [Procs -> Bufs \cup {None}], \A q \in Procs \ {p} : slot'[q] = slot[q],
         l # "run" => slot'[p] = b,
         order' = order, disk' = disk, want' = want, held' = held, panicked' = panicked
  PROVE  IInv'
  <1> DEFINE s == buf[b].sector
  <1>1. TypeOK /\ b \in Bufs /\ buf[b] \in Buffer
    BY Zenon DEF IInv, TypeOK
  <1>2. buf[b].busy
    BY <1>1, Zenon DEF IInv, BusyIsExclusive
  <1>3. s \in Sectors
    BY <1>1, <1>2, Zenon DEF IInv, FlagsInv, Buffer
  <1>4. /\ disk' \in [Sectors -> Vals] /\ latest' \in [Sectors -> Vals] /\ latest'[s] = v
        /\ \A t \in Sectors \ {s} : disk'[t] = disk[t] /\ latest'[t] = latest[t]
    BY <1>1, <1>3, Zenon DEF TypeOK
  <1>5. buf'[b] = [buf[b] EXCEPT !.data = v, !.dirty = TRUE] /\ \A c \in Bufs \ {b} : buf'[c] = buf[c]
    BY <1>1, Zenon DEF TypeOK
  <1>6. buf'[b] = [sector |-> s, busy |-> buf[b].busy, valid |-> buf[b].valid,
                   dirty |-> TRUE, data |-> v]
    BY <1>1, Zenon DEF TypeOK, Buffer
  <1>7. buf' \in [Bufs -> Buffer]
    <2>1. buf[b].busy \in BOOLEAN /\ buf[b].valid \in BOOLEAN /\ TRUE \in BOOLEAN
      BY <1>1, Zenon DEF Buffer
    <2>2. [sector |-> s, busy |-> buf[b].busy, valid |-> buf[b].valid,
           dirty |-> TRUE, data |-> v] \in Buffer
      BY <1>3, <2>1, BufferIs, Zenon
    <2>3. buf'[b] \in Buffer
      BY <1>6, <2>2, Zenon
    <2> QED BY <1>1, <1>5, <2>3, Zenon DEF TypeOK
  <1>8. /\ buf'[b].sector = s /\ buf'[b].busy = buf[b].busy /\ buf'[b].valid = buf[b].valid
        /\ buf'[b].dirty /\ buf'[b].data = v
    BY <1>6
  <1>9. IOFail \/ buf[b].valid
    BY Zenon DEF IInv, TransferInv
  <1>10. l \in {"run", "io", "retry"}
    OBVIOUS
  <1> QED BY <1>4, <1>5, <1>7, <1>8, <1>9, <1>10, HolderStep, ZenonT(40)

LEMMA brelseInv ==
  ASSUME IInv, NEW p \in Procs, NEW b \in Bufs, brelse(p, b)
  PROVE  IInv'
  <1>1. /\ pc[p] = "run" /\ b \in held[p] /\ order' = ToFront(b)
        /\ buf' = [buf EXCEPT ![b].busy = FALSE] /\ held' = [held EXCEPT ![p] = @ \ {b}]
        /\ pc' = wakeup(b) /\ disk' = disk /\ want' = want /\ slot' = slot
        /\ latest' = latest /\ panicked' = panicked
    BY Zenon DEF brelse
  <1>2. TypeOK
    BY Zenon DEF IInv
  <1>3. /\ buf'[b].sector = buf[b].sector /\ ~buf'[b].busy /\ buf'[b].valid = buf[b].valid
        /\ buf'[b].dirty = buf[b].dirty /\ buf'[b].data = buf[b].data
        /\ \A c \in Bufs \ {b} : buf'[c] = buf[c]
        /\ buf' \in [Bufs -> Buffer]
    <2>1. buf \in [Bufs -> Buffer] /\ buf[b] \in Buffer
      BY <1>2, Zenon DEF TypeOK
    <2>2. /\ buf'[b] = [buf[b] EXCEPT !.busy = FALSE] /\ DOMAIN buf' = Bufs
          /\ \A c \in Bufs \ {b} : buf'[c] = buf[c]
          /\ buf' = [c \in Bufs |-> buf'[c]]
      BY <1>1, <2>1, Zenon
    <2>3. buf'[b] \in Buffer
      BY <2>1, <2>2, Zenon DEF Buffer
    <2>4. buf' \in [Bufs -> Buffer]
      BY <2>1, <2>2, <2>3, Zenon
    <2> QED BY <2>1, <2>2, <2>4, Zenon DEF Buffer
  <1>4. /\ \A q \in Procs \ {p} : held'[q] = held[q]
        /\ held'[p] = held[p] \ {b}
        /\ \A q \in Procs : pc'[q] = IF pc[q] = "asleep" /\ slot[q] = b THEN "woken" ELSE pc[q]
        /\ pc' \in [Procs -> {"run", "io", "retry", "asleep", "woken"}]
    BY <1>1, <1>2, Zenon DEF TypeOK, wakeup
  <1>5. TypeOK'
    <2>1. order' \in [1 .. Cardinality(Bufs) -> Bufs] /\ Range(order') = Bufs
      BY <1>1, <1>2, FrontOrder, Zenon
    <2>2. held' \in [Procs -> SUBSET Bufs]
      BY <1>1, <1>2, Zenon DEF TypeOK
    <2> QED BY <1>1, <1>2, <1>3, <1>4, <2>1, <2>2, Zenon DEF TypeOK
  <1>6. \A c \in Bufs : /\ buf'[c].sector = buf[c].sector /\ buf'[c].valid = buf[c].valid
                        /\ buf'[c].dirty = buf[c].dirty /\ buf'[c].data = buf[c].data
    BY <1>3, Zenon
  <1>7. OneBufferPerSector'
    BY <1>6 DEF IInv, OneBufferPerSector
  <1>8. \A q \in Procs \ {p} : b \notin held[q]
    BY <1>1, Zenon DEF IInv, BusyIsExclusive
  <1>9. BusyIsExclusive'
    <2>1. \A c \in Bufs : buf'[c].busy <=> \E q \in Procs : c \in held'[q]
      BY <1>3, <1>4, <1>8 DEF IInv, BusyIsExclusive
    <2>2. \A q, t \in Procs : q # t => held'[q] \cap held'[t] = {}
      BY <1>4 DEF IInv, BusyIsExclusive
    <2>3. \A q \in Procs : pc'[q] = "asleep" => buf'[slot'[q]].busy
      BY <1>1, <1>3, <1>4 DEF IInv, BusyIsExclusive, TransferInv
    <2> QED BY <2>1, <2>2, <2>3, Zenon DEF BusyIsExclusive
  <1>10. FlagsInv'
    BY <1>1, <1>3, <1>6 DEF IInv, FlagsInv
  <1>11. TransferInv'
    <2>1. ASSUME NEW q \in Procs, pc'[q] \in {"io", "retry"}
          PROVE  slot'[q] \in held'[q] /\ (buf'[slot'[q]].dirty \/ ~buf'[slot'[q]].valid)
      <3>1. pc[q] = pc'[q] /\ q # p
        BY <1>1, <1>4, <2>1, Zenon
      <3>2. slot[q] \in held[q] /\ slot[q] \in Bufs
        BY <1>2, <2>1, <3>1, Zenon DEF IInv, TransferInv, TypeOK
      <3> QED BY <1>1, <1>4, <1>6, <2>1, <3>1, <3>2 DEF IInv, TransferInv
    <2>2. \A q \in Procs : pc'[q] = "asleep" => slot'[q] \in Bufs
      BY <1>1, <1>4, Zenon DEF IInv, TransferInv
    <2>3. ASSUME NEW q \in Procs, NEW c \in held'[q]
          PROVE  IOFail \/ buf'[c].valid \/ (pc'[q] \in {"io", "retry"} /\ slot'[q] = c)
      <3>1. c \in held[q] /\ c \in Bufs
        BY <1>2, <1>4, <2>3, Zenon DEF TypeOK
      <3>2. IOFail \/ buf[c].valid \/ (pc[q] \in {"io", "retry"} /\ slot[q] = c)
        BY <3>1, Zenon DEF IInv, TransferInv
      <3> QED BY <1>1, <1>4, <1>6, <3>1, <3>2, SMTT(30), Z3T(30)
    <2> QED BY <2>1, <2>2, <2>3, Zenon DEF TransferInv
  <1> QED BY <1>5, <1>7, <1>9, <1>10, <1>11, Zenon DEF IInv

LEMMA FrameInv ==
  ASSUME IInv, buf' = buf, order' = order, disk' = disk, pc' = pc, want' = want,
         slot' = slot, held' = held, latest' = latest, panicked' \in BOOLEAN
  PROVE  IInv'
  <1>1. TypeOK'
    BY Zenon DEF IInv, TypeOK
  <1>2. OneBufferPerSector' /\ BusyIsExclusive'
    BY Zenon DEF IInv, OneBufferPerSector, BusyIsExclusive
  <1>3. FlagsInv' /\ TransferInv'
    BY Zenon DEF IInv, FlagsInv, TransferInv
  <1> QED BY <1>1, <1>2, <1>3, Zenon DEF IInv

LEMMA InitIInv == Init => IInv
  <1> SUFFICES ASSUME Init PROVE IInv
    OBVIOUS
  <1> DEFINE N == Cardinality(Bufs)
  <1>1. order \in [1 .. N -> Bufs] /\ Range(order) = Bufs
    <2>1. PICK f : f \in Bijection(1 .. N, Bufs)
      BY FS_CardinalityType, BioAssumption, Zenon DEF ExistsBijection
    <2>2. f \in [1 .. N -> Bufs] /\ \A b \in Bufs : \E i \in 1 .. N : f[i] = b
      BY <2>1, Zenon DEF Bijection, Surjection, Injection
    <2>3. f \in [1 .. N -> Bufs] /\ Range(f) = Bufs
      BY <2>2, Zenon DEF Range
    <2> QED BY <2>3, Zenon DEF Init
  <1>2. /\ \A b \in Bufs : /\ buf[b].sector = None /\ ~buf[b].busy /\ ~buf[b].valid
                           /\ ~buf[b].dirty
        /\ \A p \in Procs : pc[p] = "run" /\ held[p] = {}
        /\ disk = latest
    BY Zenon DEF Init
  <1>3. buf \in [Bufs -> Buffer]
    <2>1. [sector |-> None, busy |-> FALSE, valid |-> FALSE, dirty |-> FALSE,
           data |-> InitVal] \in Buffer
      BY BioAssumption, Zenon DEF Buffer
    <2> QED BY <2>1, Zenon DEF Init
  <1>4. TypeOK
    BY <1>1, <1>3, BioAssumption, Zenon DEF Init, TypeOK
  <1>5. OneBufferPerSector /\ BusyIsExclusive
    BY <1>2, Zenon DEF OneBufferPerSector, BusyIsExclusive
  <1>6. FlagsInv /\ TransferInv
    BY <1>2, BioAssumption, Zenon DEF FlagsInv, TransferInv
  <1> QED BY <1>4, <1>5, <1>6, Zenon DEF IInv

LEMMA NextIInv == IInv /\ [Next]_vars => IInv'
  <1> SUFFICES ASSUME IInv, [Next]_vars PROVE IInv'
    OBVIOUS
  <1>1. ASSUME NEW p \in Procs, bget(p) PROVE IInv'
    <2>1. PICK s \in Sectors : bget_hit(p, s) \/ bget_sleep(p, s) \/ bget_recycle(p, s) \/ bget_panic(p, s)
      BY <1>1, Zenon DEF bget
    <2>2. ASSUME bget_panic(p, s) PROVE IInv'
      <3>1. TRUE \in BOOLEAN
        BY Zenon
      <3> QED BY <2>2, <3>1, FrameInv, Zenon DEF bget_panic
    <2> QED BY <2>1, <2>2, bget_hitInv, bget_sleepInv, bget_recycleInv, Zenon
  <1>2. ASSUME NEW p \in Procs, usb_try_recover_disk_panic(p) PROVE IInv'
    <2>1. TRUE \in BOOLEAN
      BY Zenon
    <2> QED BY <1>2, <2>1, FrameInv, Zenon DEF usb_try_recover_disk_panic
  <1>3. ASSUME NEW p \in Procs, NEW b \in Bufs, NEW v \in Vals, log_write(p, b, v) PROVE IInv'
    <2>1. TypeOK
      BY Zenon DEF IInv
    <2>2. pc' = [pc EXCEPT ![p] = "run"] /\ slot' \in [Procs -> Bufs \cup {None}]
      BY <1>3, <2>1, Zenon DEF log_write, TypeOK
    <2>3. /\ pc[p] = "run" /\ b \in held[p]
          /\ buf' = [buf EXCEPT ![b].data = v, ![b].dirty = TRUE]
          /\ latest' = [latest EXCEPT ![buf[b].sector] = v]
          /\ order' = order /\ disk' = disk /\ want' = want /\ held' = held
          /\ panicked' = panicked /\ slot' = slot
      BY <1>3, Zenon DEF log_write
    <2>4. "run" \in {"run", "io"} /\ \A q \in Procs \ {p} : slot'[q] = slot[q]
      BY <2>3, Zenon
    <2> QED BY <2>2, <2>3, <2>4, ChangedInv, Zenon
  <1>4. ASSUME NEW p \in Procs, NEW b \in Bufs, NEW v \in Vals, bwrite(p, b, v) PROVE IInv'
    <2>1. TypeOK
      BY Zenon DEF IInv
    <2>2. /\ pc[p] = "run" /\ b \in held[p] /\ pc' = [pc EXCEPT ![p] = "io"]
          /\ buf' = [buf EXCEPT ![b].data = v, ![b].dirty = TRUE]
          /\ latest' = [latest EXCEPT ![buf[b].sector] = v]
          /\ order' = order /\ disk' = disk /\ want' = want /\ held' = held
          /\ panicked' = panicked /\ slot' = [slot EXCEPT ![p] = b]
      BY <1>4, Zenon DEF bwrite
    <2>3. /\ slot' \in [Procs -> Bufs \cup {None}] /\ slot'[p] = b
          /\ \A q \in Procs \ {p} : slot'[q] = slot[q]
      BY <2>1, <2>2, Zenon DEF TypeOK
    <2>4. "io" \in {"run", "io"}
      OBVIOUS
    <2> QED BY <2>2, <2>3, <2>4, ChangedInv, Zenon
  <1>5. ASSUME UNCHANGED vars PROVE IInv'
    <2>1. panicked \in BOOLEAN
      BY Zenon DEF IInv, TypeOK
    <2> QED BY <1>5, <2>1, FrameInv, Zenon DEF vars
  <1> QED BY <1>1, <1>2, <1>3, <1>4, <1>5, usb_rwInv, usb_rw_errorInv, brelseInv, Zenon DEF Next

-----------------------------------------------------------------------------
(* The theorems. *)

\* The invariant that carries all the others.
THEOREM BioInvariant == Spec => []IInv
  BY InitIInv, NextIInv, PTL DEF Spec

\* The type invariant; in particular brelse's relinking keeps every buffer on
\* the list, so that bget's two loops see all of them.
THEOREM BioTypes == Spec => []TypeOK
  <1>1. IInv => TypeOK
    BY Zenon DEF IInv
  <1> QED BY <1>1, BioInvariant, PTL

\* bget never gives a sector a second buffer.
THEOREM BioOneBuffer == Spec => []OneBufferPerSector
  <1>1. IInv => OneBufferPerSector
    BY Zenon DEF IInv
  <1> QED BY <1>1, BioInvariant, PTL

\* B_BUSY is a lock, and whoever sleeps on a buffer sleeps on one that is
\* going to be released.
THEOREM BioBusy == Spec => []BusyIsExclusive
  <1>1. IInv => BusyIsExclusive
    BY Zenon DEF IInv
  <1> QED BY <1>1, BioInvariant, PTL

\* bread returns the last data written, and an invalid buffer only after usb_rw
\* has given up.
THEOREM BioContents == Spec => []BreadReturnsContents
  <1>1. IInv => BreadReturnsContents
    <2> SUFFICES ASSUME IInv, NEW p \in Procs, NEW b \in held[p],
                        ~(pc[p] \in {"io", "retry"} /\ slot[p] = b)
                 PROVE  IF buf[b].valid THEN buf[b].data = latest[buf[b].sector] ELSE IOFail
      BY Zenon DEF BreadReturnsContents
    <2>1. b \in Bufs
      BY Zenon DEF IInv, TypeOK
    <2>2. buf[b].busy
      BY <2>1, Zenon DEF IInv, BusyIsExclusive
    <2>3. buf[b].sector # None
      BY <2>1, <2>2, Zenon DEF IInv, FlagsInv
    <2>4. IOFail \/ buf[b].valid
      BY Zenon DEF IInv, TransferInv
    <2> QED BY <2>1, <2>3, <2>4, Zenon DEF IInv, FlagsInv
  <1> QED BY <1>1, BioInvariant, PTL

\* Recycling and failed transfers lose nothing: what has no marked buffer is on
\* the device.
THEOREM BioNothingLost == Spec => []NothingLost
  <1>1. IInv => NothingLost
    <2> SUFFICES ASSUME IInv, NEW s \in Sectors, \A b \in Cached(s) : ~buf[b].dirty
                 PROVE  disk[s] = latest[s]
      BY Zenon DEF NothingLost
    <2>1. CASE \E b \in Bufs : buf[b].sector = s
      BY <2>1, BioAssumption, Zenon DEF IInv, FlagsInv, Cached
    <2>2. CASE \A b \in Bufs : buf[b].sector # s
      BY <2>2, Zenon DEF IInv, FlagsInv
    <2> QED BY <2>1, <2>2, Zenon
  <1> QED BY <1>1, BioInvariant, PTL

\* bget gives a sector one buffer and a buffer one holder.
THEOREM BioExclusive == Spec => []BuffersExclusive
  BY BioTypes, BioOneBuffer, BioBusy, PTL DEF BuffersExclusive

\* What was written last is what bread returns, and is never lost.
THEOREM BioContentsKept == Spec => []ContentsKept
  BY BioContents, BioNothingLost, PTL DEF ContentsKept
=============================================================================
