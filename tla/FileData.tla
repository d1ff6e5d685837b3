------------------------------ MODULE FileData ------------------------------
(***************************************************************************)
(* The blocks of files: balloc and bfree over the bitmap, bmap over direct,*)
(* indirect and double-indirect blocks, writei and itrunc (kernel/fs.c),   *)
(* and the calls that use them through struct file (kernel/file.c,         *)
(* sys_open and sys_unlink in kernel/sysfile.c).  A transaction is one     *)
(* step: Log shows that it takes effect as a whole or not at all.  What it *)
(* must fit into is modelled: the log of LOGSIZE blocks and the NBUF       *)
(* buffers of the cache, of which the log pins every block it holds.       *)
(*                                                                         *)
(* A block is NINDIRECT words, as on disk: block numbers in an indirect    *)
(* block, data otherwise.  File i is written with the word Own(i).         *)
(***************************************************************************)
EXTENDS Integers, Sequences, FiniteSets, FiniteSetsExt, SequencesExt

CONSTANTS
  NDIRECT, NINDIRECT,
  BPB,                   \* blocks that one bitmap block describes
  DataStart, FSSIZE,     \* the first data block; sb.size - sb.nlog
  LOGSIZE, NLOG,         \* slots of the header; sb.nlog
  NBUF,
  NINODES,
  Files,                 \* struct file
  Counts,                \* the sizes, in words, of write calls
  Seeks,                 \* arguments of lseek
  MaxSize                \* bound on the size of a file that is written to

ASSUME FileDataAssumption ==
  /\ {NDIRECT, NINDIRECT, BPB, DataStart, LOGSIZE, NLOG, NBUF, NINODES} \subseteq Nat \ {0}
  /\ DataStart < FSSIZE /\ Counts \cup Seeks \subseteq Nat /\ MaxSize \in Nat

BSIZE == NINDIRECT
MAXFILE == NDIRECT + NINDIRECT + NINDIRECT * NINDIRECT
Data == DataStart .. FSSIZE - 1
Inodes == 1 .. NINODES
Words == 0 .. NINDIRECT - 1
Own(i) == FSSIZE + i

VARIABLES
  bitmap,  \* the data blocks marked in use
  blk,     \* the contents of the data blocks
  dinode,  \* inodes on disk
  inode,   \* the copies in the inode cache, valid while a file refers to them
  fil,     \* open files: inode, offset, and the words a write has still to do
  lost,    \* history: inodes that were open and unlinked when power failed
  maps,    \* history: the bitmap blocks in the log at a panic
  kern     \* "up", or which panic

vars == <<bitmap, blk, dinode, inode, fil, lost, maps, kern>>

NoAddrs == [k \in 0 .. NDIRECT + 1 |-> 0]
FreeInode == [type |-> "free", nlink |-> 0, size |-> 0, addrs |-> NoAddrs]
Closed == [ip |-> 0, off |-> 0, todo |-> 0]
Zeros == [w \in Words |-> 0]

TypeOK ==
  /\ bitmap \subseteq Data
  /\ blk \in [Data -> [Words -> Data \cup {0} \cup {Own(i) : i \in Inodes}]]
  /\ \A i \in Inodes : \A d \in {dinode[i], inode[i]} :
       /\ d.type \in {"free", "file"} /\ d.nlink \in {0, 1}
       /\ d.size \in 0 .. MAXFILE * BSIZE
       /\ d.addrs \in [0 .. NDIRECT + 1 -> Data \cup {0}]
  /\ \A f \in Files : fil[f].ip \in 0 .. NINODES /\ {fil[f].off, fil[f].todo} \subseteq Nat
  /\ lost \subseteq Inodes
  /\ kern \in {"up", "too big a transaction", "bget: no buffers",
               "balloc: out of blocks", "freeing free block"}

\* mkfs: no files.
Init ==
  /\ bitmap = {} /\ blk = [b \in Data |-> Zeros]
  /\ dinode = [i \in Inodes |-> FreeInode] /\ inode = dinode
  /\ fil = [f \in Files |-> Closed]
  /\ lost = {} /\ maps = 0 /\ kern = "up"

Users(i) == {f \in Files : fil[f].ip = i}

-----------------------------------------------------------------------------
(* A transaction in progress is a record: the state it has reached, the    *)
(* blocks in the log, the busy buffers, and the block*)
(*  number that the last operation returned.                      *)

Begin == [bitmap |-> bitmap, blk |-> blk, dinode |-> dinode,
          inode |-> [i \in Inodes |-> IF Users(i) = {} THEN dinode[i] ELSE inode[i]],
          log |-> {}, busy |-> {}, ret |-> 0, kern |-> "up"]

\* A panic changes nothing on disk: the transaction has not been committed.
Commit(t, g) ==
  /\ kern' = t.kern
  /\ maps' = IF t.kern = "up" THEN 0 ELSE Cardinality({b \in t.log : b[1] = "bitmap"})
  /\ IF t.kern = "up"
       THEN /\ bitmap' = t.bitmap /\ blk' = t.blk /\ dinode' = t.dinode /\ fil' = g
            /\ inode' = [i \in Inodes |-> IF \E f \in Files : g[f].ip = i
                                            THEN t.inode[i] ELSE t.dinode[i]]
       ELSE UNCHANGED <<bitmap, blk, dinode, inode, fil>>

Panic(t, msg) == [t EXCEPT !.kern = msg]

\* bget: buffers in the log are pinned, so a new block needs another one.
\* Nothing happens after a panic.
bread(t, b) ==
  LET used == Cardinality(t.log \cup t.busy \cup {b}) IN
  IF t.kern # "up" THEN t
  ELSE IF used > NBUF THEN Panic(t, "bget: no buffers")
  ELSE [t EXCEPT !.busy = @ \cup {b}]

brelse(t, b) == [t EXCEPT !.busy = @ \ {b}]

\* The test for room comes before the search for the block in the log; the
\* copy to the log takes a buffer of its own.
log_write(t, b) ==
  LET u == bread(t, <<"log", 0>>) IN
  IF t.kern = "up" /\ Cardinality(t.log) >= Min({LOGSIZE, NLOG - 1})
    THEN Panic(t, "too big a transaction")
    ELSE IF u.kern # "up" THEN u
    ELSE [brelse(u, <<"log", 0>>) EXCEPT !.log = @ \cup {b}]

\* Read a block, change it, log it, release it.
Touch(t, b) == brelse(log_write(bread(t, b), b), b)

\* Fault: the buffer is not released.
readsb_keep(t) == bread(t, <<"super", 1>>)

readsb(t) == brelse(bread(t, <<"super", 1>>), <<"super", 1>>)

BBLOCK(b) == <<"bitmap", b \div BPB>>
DBLOCK(b) == <<"data", b>>
IBLOCK(i) == <<"inode", i>>

bzero(t, b) == Touch([t EXCEPT !.blk[b] = Zeros], DBLOCK(b))

\* First fit over the bitmap blocks.
balloc(t) ==
  LET u == readsb(t)
      b == Min(Data \ t.bitmap)
  IN  IF u.kern # "up" THEN u
      ELSE IF t.bitmap = Data THEN Panic(u, "balloc: out of blocks")
      ELSE [bzero(Touch([u EXCEPT !.bitmap = @ \cup {b}], BBLOCK(b)), b) EXCEPT !.ret = b]

bfree(b, t) ==
  LET u == readsb(t) IN
  IF u.kern = "up" /\ b \notin t.bitmap THEN Panic(u, "freeing free block")
  ELSE Touch([u EXCEPT !.bitmap = @ \ {b}], BBLOCK(b))

iupdate(t, i) == Touch([t EXCEPT !.dinode[i] = t.inode[i]], IBLOCK(i))

\* The two steps of bmap: the block in slot k of the inode, and the block in
\* entry k of an indirect block, which stays busy while another is allocated.
Slot(t, i, k) ==
  LET u == balloc(t) IN
  IF t.inode[i].addrs[k] # 0 THEN [t EXCEPT !.ret = t.inode[i].addrs[k]]
  ELSE [u EXCEPT !.inode[i].addrs[k] = u.ret]

Entry(t, k) ==
  LET a == t.ret
      u == bread(t, DBLOCK(a))
      v == balloc(u)
  IN  IF t.kern # "up" THEN t
      ELSE brelse(IF t.blk[a][k] # 0 THEN [u EXCEPT !.ret = t.blk[a][k]]
                  ELSE log_write([v EXCEPT !.blk[a][k] = v.ret], DBLOCK(a)), DBLOCK(a))

bmap(t, i, bn) ==
  LET k1 == bn - NDIRECT
      k2 == k1 - NINDIRECT
  IN  IF bn < NDIRECT THEN Slot(t, i, bn)
      ELSE IF k1 < NINDIRECT THEN Entry(Slot(t, i, NDIRECT), k1)
      ELSE Entry(Entry(Slot(t, i, NDIRECT + 1), k2 \div NINDIRECT), k2 % NINDIRECT)

\* 0 for a block that is not there.
bmap_read(d, bn) ==
  LET k1 == bn - NDIRECT
      k2 == k1 - NINDIRECT
      Get(a, k) == IF a = 0 THEN 0 ELSE blk[a][k]
  IN  IF bn < NDIRECT THEN d.addrs[bn]
      ELSE IF k1 < NINDIRECT THEN Get(d.addrs[NDIRECT], k1)
      ELSE Get(Get(d.addrs[NDIRECT + 1], k2 \div NINDIRECT), k2 % NINDIRECT)

\* The loop of writei: one block after the other, then the size.
WriteBlocks(t, i, off, n) ==
  LET first == off \div BSIZE
      last == (off + n - 1) \div BSIZE
      In(bn, w) == bn * BSIZE + w \in off .. off + n - 1
      One(u, bn) ==
        LET v == bmap(u, i, bn)
            c == [w \in Words |-> IF In(bn, w) THEN Own(i) ELSE v.blk[v.ret][w]]
        IN  IF v.kern # "up" THEN v
            ELSE Touch([v EXCEPT !.blk[v.ret] = c], DBLOCK(v.ret))
      done == FoldLeft(One, t, [k \in 1 .. last - first + 1 |-> first + k - 1])
  IN  IF off + n > t.inode[i].size
        THEN iupdate([done EXCEPT !.inode[i].size = off + n], i)
        ELSE done

\* Fault: an offset past the end is not refused.
Refused_holes(i, off, n) == off + n > MAXFILE * BSIZE

\* What writei refuses (it returns -1).
Refused(i, off, n) == off > inode[i].size \/ off + n > MAXFILE * BSIZE

\* What an indirect block lists.
Listed(a, t) == {t.blk[a][k] : k \in Words} \ {0}

\* Free an indirect block and what it lists.
FreeIndirect(a, t) ==
  LET u == bread(t, DBLOCK(a))
  IN  IF u.kern # "up" THEN u
      ELSE bfree(a, brelse(FoldSet(bfree, u, Listed(a, t)), DBLOCK(a)))

\* The same for a block that lists indirect blocks.
FreeDouble(a, t) ==
  LET u == bread(t, DBLOCK(a))
  IN  IF u.kern # "up" THEN u
      ELSE bfree(a, brelse(FoldSet(FreeIndirect, u, Listed(a, t)), DBLOCK(a)))

\* Fault: the double-indirect block is freed without what it lists.
itrunc_shallow(t, i) ==
  LET d == t.inode[i].addrs
      t1 == FoldSet(bfree, t, {d[k] : k \in 0 .. NDIRECT - 1} \ {0})
      t2 == FoldSet(FreeIndirect, t1, {d[NDIRECT], d[NDIRECT + 1]} \ {0})
  IN  iupdate([t2 EXCEPT !.inode[i].addrs = NoAddrs, !.inode[i].size = 0], i)

itrunc(t, i) ==
  LET d == t.inode[i].addrs
      t1 == FoldSet(bfree, t, {d[k] : k \in 0 .. NDIRECT - 1} \ {0})
      t2 == FoldSet(FreeIndirect, t1, {d[NDIRECT]} \ {0})
      t3 == FoldSet(FreeDouble, t2, {d[NDIRECT + 1]} \ {0})
  IN  iupdate([t3 EXCEPT !.inode[i].addrs = NoAddrs, !.inode[i].size = 0], i)

\* The last reference to an inode without links: iput frees it.
IputFree(t, i) == iupdate([itrunc(t, i) EXCEPT !.inode[i].type = "free"], i)

-----------------------------------------------------------------------------
(* System calls.  A file has one name, in a directory with a free entry;   *)
(* names, links and directories are the subject of FsTree.                 *)

DirBlock == <<"dir", 0>>
Linked(i) == dinode[i].type = "file" /\ dinode[i].nlink = 1

\* open(O_CREATE) of a new name: ialloc takes the first free inode, create
\* writes the inode and the directory entry.
open_create(f) ==
  LET free == {i \in Inodes : dinode[i].type = "free"}
      i == Min(free)
      t == [Begin EXCEPT !.dinode[i].type = "file", !.inode[i] =
                           [FreeInode EXCEPT !.type = "file", !.nlink = 1]]
  IN  /\ kern = "up" /\ fil[f] = Closed /\ free # {}
      /\ Commit(Touch(iupdate(Touch(readsb(t), IBLOCK(i)), i), DirBlock),
                [fil EXCEPT ![f] = [ip |-> i, off |-> 0, todo |-> 0]])
      /\ UNCHANGED lost

\* open of a file, perhaps with O_APPEND: the offset is set here and nowhere else.
open(f, i, append) ==
  /\ kern = "up" /\ fil[f] = Closed /\ Linked(i)
  /\ fil' = [fil EXCEPT ![f] = [ip |-> i, off |-> IF append THEN dinode[i].size ELSE 0,
                                todo |-> 0]]
  /\ UNCHANGED <<bitmap, blk, dinode, inode, lost, maps, kern>>

\* open(O_TRUNC), also while other processes have the file open.
open_trunc(f, i) ==
  /\ kern = "up" /\ fil[f] = Closed /\ Linked(i)
  /\ Commit(iupdate(itrunc(Begin, i), i),
            [fil EXCEPT ![f] = [ip |-> i, off |-> 0, todo |-> 0]])
  /\ UNCHANGED lost

\* The end of unlink is the iput of its own reference.
unlink(i) ==
  LET t == iupdate([Touch(Begin, DirBlock) EXCEPT !.inode[i].nlink = 0], i) IN
  /\ kern = "up" /\ Linked(i)
  /\ Commit(IF Users(i) = {} THEN IputFree(t, i) ELSE t, fil)
  /\ UNCHANGED lost

\* Fault: the last close does not free an unlinked file.
close_keep(f) ==
  /\ kern = "up" /\ fil[f].ip # 0 /\ fil[f].todo = 0
  /\ Commit(Begin, [fil EXCEPT ![f] = Closed])
  /\ UNCHANGED lost

close(f) ==
  LET i == fil[f].ip
      last == Users(i) = {f} /\ inode[i].nlink = 0
  IN  /\ kern = "up" /\ i # 0 /\ fil[f].todo = 0
      /\ Commit(IF last THEN IputFree(Begin, i) ELSE Begin, [fil EXCEPT ![f] = Closed])
      /\ UNCHANGED lost

\* Each turn of filewrite's loop is a transaction of at most MaxChunk words;
\* others run between the turns.  The loop ends when writei returns -1.
MaxChunk == ((LOGSIZE - 1 - 1 - 2) \div 2) * BSIZE

Turn(f, n) ==
  LET i == fil[f].ip
      off == fil[f].off
      n1 == Min({n, MaxChunk})
  IN  /\ IF Refused(i, off, n1)
           THEN Commit(Begin, [fil EXCEPT ![f].todo = 0])
           ELSE Commit(WriteBlocks(Begin, i, off, n1),
                       [fil EXCEPT ![f].off = off + n1, ![f].todo = n - n1])
      /\ UNCHANGED lost

filewrite(f, n) ==
  /\ kern = "up" /\ fil[f].ip # 0 /\ fil[f].todo = 0
  /\ fil[f].off + n <= MaxSize
  /\ Turn(f, n)

filewrite_next(f) == kern = "up" /\ fil[f].todo > 0 /\ Turn(f, fil[f].todo)

\* fileread to the end of the file; readi returns -1 beyond it.
fileread(f) ==
  /\ kern = "up" /\ fil[f].ip # 0 /\ fil[f].todo = 0
  /\ fil[f].off < inode[fil[f].ip].size
  /\ fil' = [fil EXCEPT ![f].off = inode[fil[f].ip].size]
  /\ UNCHANGED <<bitmap, blk, dinode, inode, lost, maps, kern>>

\* lseek may move past the end.
fileseek(f, o) ==
  /\ kern = "up" /\ fil[f].ip # 0 /\ fil[f].todo = 0 /\ fil[f].off # o
  /\ fil' = [fil EXCEPT ![f].off = o]
  /\ UNCHANGED <<bitmap, blk, dinode, inode, lost, maps, kern>>

\* Power fails, or the machine is started again after a panic.  What is in
\* memory is gone; nothing looks for inodes without links.
crash ==
  /\ lost' = lost \cup {i \in Inodes : dinode[i].type = "file" /\ dinode[i].nlink = 0}
  /\ fil' = [f \in Files |-> Closed] /\ inode' = dinode /\ kern' = "up"
  /\ maps' = 0
  /\ UNCHANGED <<bitmap, blk, dinode>>

Next ==
  \/ \E f \in Files :
       \/ open_create(f) \/ close(f) \/ filewrite_next(f) \/ fileread(f)
       \/ \E i \in Inodes : open_trunc(f, i) \/ \E append \in BOOLEAN : open(f, i, append)
       \/ \E n \in Counts : filewrite(f, n)
       \/ \E o \in Seeks : fileseek(f, o)
  \/ \E i \in Inodes : unlink(i)
  \/ crash

Spec == Init /\ [][Next]_vars

-----------------------------------------------------------------------------
(* Properties.                                                             *)

\* The indirect blocks of inode d, and all its pointers as pairs of the place
\* that holds them and the block they name.
Indirect(d) ==
  LET d2 == d.addrs[NDIRECT + 1] IN
  ({d.addrs[NDIRECT], d2} \cup (IF d2 = 0 THEN {} ELSE {blk[d2][k] : k \in Words})) \ {0}

Pointers ==
  {p \in UNION {{<<-i, k, dinode[i].addrs[k]>> : k \in 0 .. NDIRECT + 1} : i \in Inodes}
         \cup UNION {UNION {{<<b, k, blk[b][k]>> : k \in Words} : b \in Indirect(dinode[i])}
                       : i \in Inodes} : p[3] # 0}

\* The bitmap marks exactly the blocks that inodes and indirect blocks name,
\* and every one of them is named in one place: balloc, bfree, bmap and
\* itrunc never lose a block and never give one to two owners, whatever
\* truncations, writes in pieces and crashes come in between.
BlocksOwned ==
  /\ bitmap = {p[3] : p \in Pointers}
  /\ \A p, q \in Pointers : p[3] = q[3] => p = q

\* Every word below the size of a file is mapped and is the file's own: no
\* hole (writei refuses an offset past the end, also when O_TRUNC moved the
\* end between two pieces of a write), no word of another file's old block.
OwnWords ==
  \A i \in Inodes : \A w \in 0 .. dinode[i].size - 1 :
    LET b == bmap_read(dinode[i], w \div BSIZE) IN
    b # 0 /\ blk[b][w % BSIZE] = Own(i)

\* Whenever no transaction is running, the inode cache says what the disk
\* says: every path that changes an inode's size, pointers or links writes it
\* back before its transaction ends.
CacheIsDisk == \A i \in Inodes : inode[i] = dinode[i]

\* filewrite's pieces "avoid exceeding the maximum log transaction size": as
\* long as the blocks it allocates or frees belong to one bitmap block, no
\* transaction is too big for the log.
LogSuffices == kern = "too big a transaction" => maps >= 2

\* A transaction that runs alone finds a buffer for every block it reads,
\* though the log pins its blocks and each log_write needs one more; and no
\* block is freed twice.
BuffersSuffice == kern \notin {"bget: no buffers", "freeing free block"}

\* An inode without links is in use exactly while a file has it open, except
\* those that a crash caught in that state: nothing frees these afterwards.
OrphansFreed ==
  \A i \in Inodes :
    /\ dinode[i].type = "free" <=> dinode[i] = FreeInode
    /\ dinode[i].type = "file" /\ dinode[i].nlink = 0 => i \in lost \/ Users(i) # {}
    /\ i \in lost => dinode[i].type = "file" /\ dinode[i].nlink = 0 /\ Users(i) = {}

\* The structures on disk agree with each other and with the inode cache.
DiskConsistent == TypeOK /\ BlocksOwned /\ CacheIsDisk

\* No transaction exceeds the log or the buffer cache, with the exceptions above.
TransactionsFit == LogSuffices /\ BuffersSuffice
=============================================================================
