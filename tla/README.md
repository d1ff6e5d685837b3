# A verification of the Sirpair OS kernel

This directory holds TLA+ models of the kernel of Sirpair OS (`kernel/`), the
TLC configurations that check them on small instances, and machine-checked
proofs about seven of them. The reference is the source; every definition that
models code is listed in `PROJECT.json` with the lines it stands for.

## 1. The system

Sirpair OS is a 32-bit x86 kernel of the xv6 family with up to 8 CPUs. Its
parts, and what makes each one hard to get right:

| Part | Operations | What is hard |
|---|---|---|
| Spinlocks, scheduler, sleep/wakeup (`spinlock.c`, `proc.c`) | `acquire`, `release`, `scheduler`, `sched`, `yield`, `sleep`, `wakeup` | `ptable.lock` is handed from a process to the scheduler across `swtch`; a wakeup between test and sleep; interrupts on or off after a switch |
| Reboot (`sysproc.c`, `proc.c`, `trap.c`) | `reboot_prepare_cpus` | every CPU must stop, but not inside a critical section; CPU numbers and APIC ids |
| Processes (`proc.c`, `exec.c`, `trap.c`) | `fork`, `exec`, `exit`, `wait`, `kill` | entries are filled without the lock, reused, inherited by init; kill is asynchronous |
| Memory (`kalloc.c`, `vm.c`) | `kalloc`, `kfree`, `copyuvm`, `allocuvm`, `freevm` | three records of what is free; running out half way |
| Log (`log.c`) | `begin_trans`, `log_write`, `commit_trans`, recovery | power failure between any two sector writes, also during recovery |
| Buffer cache and disk (`bio.c`, `usb.c`) | `bread`, `bwrite`, `brelse`, `usb_rw` | sleep for a buffer that is recycled meanwhile; transfers fail, are retried, and finally fail silently |
| Blocks of files (`fs.c`, `file.c`) | `balloc`, `bmap`, `writei`, `itrunc`, `filewrite` | a transaction must fit the log and the cache; files are cut while they are written |
| Inodes and directories (`fs.c`, `sysfile.c`, `exec.c`) | `namei`, `open`, `create`, `mkdir`, `link`, `unlink`, `chdir`, `getcwd`, `close` | lookup holds no lock between elements and often no transaction; things are removed while in use |
| Pipes (`pipe.c`) | `pipewrite`, `piperead`, `pipeclose` | several readers and writers sleep on two channels, ends close, writers are killed, counters wrap |
| Unix sockets (`unixsock.c`) | `bind`, `listen`, `connect`, `accept`, close | a table lock and a lock per listener, and a queue that is used under one and reset under the other; failure half-way through `connect` |
| Console (`console.c`) | interrupt handler, `consoleread` | editing a line while it is read; ^C against a reader about to sleep |
| TCP (`microps/tcp.c` and its descriptors) | segments, timer, socket calls | lost and reordered segments, a call asleep on a control block that is released |
| The stack's mutex (`microps/microps_mutex.c`) | `mutex_lock`, `mutex_unlock`, `sched_sleep` | a recursive lock that counts per CPU, in sections that sleep and move, and a test of ownership made of two reads |

How they interact: a system call of the file system walks names (`FsTree`),
opens a transaction (`Log`), changes blocks (`FileData`) through the cache
(`Bio`) and commits; all of these wait with `sleep` and `wakeup` (`Sched`).
Files stand for inodes, pipes or sockets. The log writes through the cache to
the USB disk, whose failures nobody reports upwards.

## 2. Modules

| Module | Models | Grain of a step |
|---|---|---|
| `Log` | `log.c` over the cache and the device | one sector write, or a stretch that holds `log.lock` |
| `AtomicStore` | abstract: a store that changes by whole transactions | |
| `Bio` | `bio.c`, and `usb_rw` with its lock, retry and failures | a stretch that holds `bcache.lock`; the parts of a transfer |
| `Sched` | `spinlock.c`; `scheduler`, `sched`, `yield`, `sleep`, `wakeup`; the clock interrupt; the reboot handshake | one lock operation |
| `Proc` | `allocproc`, `fork`, `exec`'s effect on the table, `exit`, `wait`, `kill`, sleeps on devices, the exits of `trap` | a critical section of `ptable.lock`, or one unlocked write |
| `Vm` | `kalloc`, `kfree`, `setupkvm`, `mappages`, `allocuvm`, `deallocuvm`, `copyuvm`, `freevm` under `fork`, `exec`, `sbrk`, `exit`, `wait` | a stretch that holds `setupkvm_lock`; the two halves of `kfree` |
| `Pipe` | `pipe.c` | from taking `p->lock` to return or sleep |
| `ByteStream` | abstract: a queue of bytes with a writer's end that closes | |
| `UnixSock` | `unixsock.c`, with `filealloc`/`fileclose` and `pipealloc` | a critical section; under `l->lock`, one access to the queue |
| `FsTree` | `namex`, `iget`/`iput`/`ilock`, and the calls that change the tree, against the transaction | a stretch that holds one inode's lock; each `iput` |
| `FileData` | `balloc`, `bfree`, `bmap`, `writei`, `itrunc`, `iupdate`, `filewrite`, `O_TRUNC`, unlink and close of an open file, crash | a transaction |
| `Console` | `consoleintr`, `consoleread`, raw mode, the foreground process | a stretch that holds `input.lock`; the gap before `sleep`, where `kill` fits |
| `Tcp` | `tcp.c` on two hosts, the network between them, the descriptors | a stretch that holds the protocol's mutex |
| `Mutex` | `microps_mutex.c` and the sleep of `sched_sirpair.c` | one read of `holding`; a stretch that holds the spinlock |
| `LogProof`, `SchedProof`, `ProcProof`, `BioProof`, `PipeProof`, `MutexProof`, `UnixSockProof` | theorems | |

Each `MC…` module gives its specification small sets of model values and the
symmetry that is sound for them. Operators marked "Fault:" are deliberately
wrong variants of the definition that follows them; they are not part of any
specification and serve to show that a property notices such a mistake.

State and actions correspond to the code by name: variables carry the field
names (`ref`, `busy`, `nlink`, `ncli`, `nread`), actions the function names, with a
suffix where a function has several steps (`unlink`, `unlink_erase`,
`unlink_putdir`, `unlink_drop`). A panic is a state in which nothing more
happens, with the message where it matters.

### Abstractions

* Block contents, bytes and names are members of small sets. `Log`, `Bio` and
  `FileData` share the notion of a block but are separate: `Log` sees a cache in
  which dirty buffers stay, `Bio` shows that they do; `FileData` takes a
  transaction as one step, which is what `Log` shows it to be, and checks that it
  fits what `Log` and `Bio` have room for.
* A sector write is atomic. Both `Log` and `Bio` can let a transfer fail
  silently (`SilentFail`, `IOFail`), which is what `usb_rw` does after its second
  failed attempt.
* `Sched` runs one monitor (lock, condition, consume or set), of which every
  sleeping path of the kernel is an instance. The other modules take `sleep` as
  what `Sched` shows it to be: release and sleep in one step. A kill does not need
  the condition's lock, so it may fall between the test of `killed` and the sleep;
  the sleeping actions of `Pipe`, `Proc`, `UnixSock` and `Console` allow for it.
* The build does not optimise (`CFLAGS` in the Makefile), so where two locks or
  none protect the same field (`UnixSock`'s queue, `holding` in `Mutex`) every access
  is made in its place, and the steps are split there.
* `Pipe` and `Console` count modulo `Word` and `Tcp` numbers bytes modulo
  `SEQMOD` (all 2^32 in the code), so that they wrap in the runs; `Tcp` compares
  sequence numbers as the code does, as plain unsigned integers.
* In `FsTree`, an `iput` that frees an inode is one step: only the holder of the
  last reference knows the inode. `I_VALID` is not a variable: an inode without
  links was locked, and so read, by the call that removed its last link.
* `Vm` does not model which free page `kalloc` picks. `FileData` writes every
  file with words of its own, so that foreign or stale data shows.
* `Tcp` assumes of the processes that one connects or binds a descriptor once
  and does not share it. A byte is its number in the stream.

## 3. What the runs check

| Run | Properties | Shows |
|---|---|---|
| `log` | `LogConsistent`, `AtomicTransactions`, `WriteAhead`, `LogProgress` | one transaction at a time; a committed header has its blocks in the log area; the log implements `AtomicStore` across crashes at every write, also during recovery; home blocks change only after the commit; the log is released and recovery ends |
| `bio` | `BuffersExclusive`, `ContentsKept` | on a disk whose transfers fail, are retried while others transfer, and fail again: one buffer per sector, one holder per buffer, nobody asleep on a free buffer; a valid buffer holds what was last written, and recycling loses nothing |
| `sched` | `CriticalSections`, `NoLostWakeup`, `CleanReset` | no panic of `sched`, `acquire`, `release` or `popcli`; a process is on one CPU; interrupts are what they were after any nesting of locks and switches; no wakeup is lost; a CPU that reboot stopped holds no lock, and a caller that did not time out resets a quiet machine |
| `proc` | `TableConsistent`, `NoMissedExit`, `KilledExits`, `OrphansReaped` | an entry that `fork` fills is its own; every process has a living parent; kill reaches the process it names; nobody sleeps in `wait` over a dead child; killed processes exit; init reaps what it inherits |
| `vm` | `PagesAccounted`, `FreeListExact`, `TablesFollowSize` | a page has one use; the list, the counter and the page states agree; page tables agree with `sz`, also after a failure half way |
| `vm_leak` | `NoPageLost` (violated) | freeing an address space does not free all of it, although `vm.c:550` says so: see below |
| `pipe` | `SleepersBlocked`, `ImplementsByteStream`, `HangupSeen` | the ring implements `ByteStream` while its counters wrap; no wakeup is lost, whenever processes are killed; closing one end releases those asleep at the other |
| `usock` | `AcceptorsBlocked`, `QueueInBounds` | nobody sleeps in `accept` over a pending connection or a closed listener, and the queue stays inside its array, although `bind` and `close` reset the entry under the holder of its lock; files and pages may run out anywhere in `connect` |
| `fs_tree` | `LinkCounts`, `InodesHeld`, `LocksResolve` | link counts are exact between transactions, reference counts always; what a process keeps is allocated, and nothing held or named is free, up to the first step in a removed directory; the opposite lock orders of `getcwd` and `unlink` block nobody, because both run in a transaction |
| `file_data` | `DiskConsistent`, `OwnWords`, `TransactionsFit`, `OrphansFreed` | bitmap, pointers and inode cache agree after every transaction and crash; a file holds only its own data; transactions fit the log and the cache; only a crash leaves an unlinked inode behind |
| `console` | `RingUsable`, `SleepersBlocked`, `ReadOnce`, `CtrlCReturns` | committed input is final and read once, in lines; the ring never locks up; nobody sleeps on readable input; ^C gets the foreground process out of its read |
| `tcp` | `StreamIntact`, `EndsAgree`, `OverrunOnlyPastWindow`, `BlocksHaveOwners`, `AcceptorsWoken` | received bytes are the peer's, in order, and complete until a segment was taken out of order; the two ends agree on what is acknowledged; a control block has one descriptor and a live one has an owner; acceptors are woken |

Several of these names are conjunctions of smaller invariants that are defined,
with a comment each, just before them: `CriticalSections`, for example, is
`TypeOK`, `NoPanic`, `OneCPUPerProcess` and `InterruptsRestored`.

### What the code allows

Some properties are weaker than one would like, because the models show the
code to allow the following. The comment at the property, or the note at the
hazard in `PROJECT.json`, says so.

* Disk: a write that fails twice is dropped silently (`usb.c:748`). With
  `SilentFail = TRUE` the part `CommitForcesLog` of `LogConsistent` is false, although
  `log.c:11` says "Commit forces the log (with commit record) to disk". A read that
  fails twice makes `bread` return a buffer that is not `B_VALID`.
* Kill: one that falls between the test of `killed` and `sleep` does not wake the
  process (`KilledExits`; in `consoleread` too, except for ^C), and one may mark an
  unused entry, whose next process then starts out killed. A killed writer
  leaves a full pipe without waking its readers (`SleepersBlocked`); a killed
  console reader loses the bytes it had copied.
* Reboot: acknowledgements are written by APIC id and read by CPU number
  (`proc.c:110-141`). With ids that are not the numbers the wait times out, and
  `CleanReset` then says nothing about the machine.
* Unix sockets: a `pipealloc` that fails with a file in hand, because there is no
  second one or no page, closes what it has and leaves its caller the pointers
  (`pipe.c:48-55`); the error path of `connect` (`unixsock.c:209`) closes those files
  again. `fileclose` panics, or closes a file that another call has been given
  meanwhile. `bind` resets a queue under `usock_lock` (`unixsock.c:104`) that the
  entry's last users still work on under `l->lock`, and the emptying that a close
  leaves for later may meet the entry's next owner: an endpoint is lost or
  overwritten, the count ends one too low, and `accept` or the close takes an empty
  slot, a null pointer. All of this is in the model and its run; so no property
  speaks of which connection is delivered to whom, or says that no file is lost.
  A refused connect leaves two pipe ends open.
* Tree: `open`, `exec` (`exec.c:84`), `unlink` and `link` may free an inode outside
  their own transaction, although `log.c:8` says "Each system call that might write
  the file system should be surrounded with begin_trans() and commit_trans()
  calls". In a removed current directory files can still be made
  (`sysfile.c:300`), and are never freed; its `..` keeps the number of an inode that
  may be freed (`fs.c:729`), and `ilock` panics there. The history variable `strayed`
  records the first step in such a directory; `LinkCounts` and the part
  `NoDangling` of `InodesHeld` end with it.
* Blocks: a transaction whose blocks belong to two bitmap blocks may exceed the
  log, although `filewrite`'s bound (`file.c:168-173`) is meant to leave room
  for "allocation blocks"; `TransactionsFit` leaves such a transaction out.
  `itrunc`'s comment (`fs.c:465-469`) says that it is called only when the inode
  has no links and no other reference; `O_TRUNC` (`sysfile.c:374`) calls it with
  both. An unlinked open file that a crash catches is never freed.
* Memory: `deallocuvm` skips the pages below 0x4000 (`vm.c:458`), so `freevm` does not
  give them back, although its comment (`vm.c:550`) says "Free a page table and all
  the physical memory pages in the user part." The run `vm_leak` shows it: TLC finds
  `NoPageLost`, that every page is free or in use, violated. The page in
  `copyuvm`'s hand is lost too when `mappages` fails (`vm.c:603`). A process that shrank below
  0x4000 and grows again panics with "remap".
* TCP: a segment that touches the window is taken as the next one (`tcp.c:574`),
  so bytes may be skipped. The probe of a closed window, and the unsigned
  difference after it (`tcp.c:1297`), send more than the receiver's buffer holds.
  Plain comparisons stall a connection at the end of the sequence space. A block
  released under a sleeper (`tcp.c:1111-1126`, `1212`) leaves it asleep, or awake with
  another's block; a connection completed after its listening block was released
  joins the backlog of whatever the block is now (`tcp.c:650`); `tcp_close` of a
  `CLOSED` block does not release it (`tcp.c:1443`).
* Mutex: `holding` (`spinlock.c:98`) reads `lock->cpu` and then the CPU it runs on, with
  interrupts on. A caller that is moved in between to the CPU it has read is told
  that it holds the mutex (`misled`): it goes on without it, and its unlock may
  release the mutex of another. And a section that slept has no depth entry. A
  nested lock then counts from zero, its unlock releases the mutex under the
  outer section, and a later sleep of that section panics in `release`.

### Bounds

Two or three processes and two CPUs: the races above are between two actors,
and a third is there where waking the wrong sleeper matters (`sched`).

| Run | Bounds | Why they are enough |
|---|---|---|
| `log` | `LogSize` 2, 3 sectors | a full log, absorption, and one block outside it |
| `bio` | 2 buffers, 3 sectors, `MaxDirty` 1 | recycling, and a pool with one buffer pinned |
| `sched` | 2 CPUs, 3 processes, 4 numberings | equal, permuted and sparse APIC ids |
| `proc` | `NPROC` 3, `MaxPid` 4 | init, a parent and a child it leaves to init; entries are reused |
| `vm` | 15 pages of 2 units, 2 processes, `LOWPAGES` 2 | memory runs out in every operation; sizes end inside pages and below and above the low pages |
| `pipe`, `console` | 2 bytes, `Word` 4 | messages longer than the ring; indices wrap |
| `usock` | 3 processes, 1 listener entry, a queue of 1, `NFILE` 7, `MaxConn` 1, `NoMem` | one process holds the entry's lock while a second closes the listener and a third binds the entry again; files and pages run out in each `pipealloc` and at `make_endpoint`. One connection is enough to meet each reset; any number, and any queue, is in the proof |
| `fs_tree` | 3 inodes, `NCOMPS` 3, two workloads | root, a directory, something inside it; inodes run out. With 4 inodes the second workload, which has `chdir` and `getcwd`, gives the same result |
| `file_data` | `NDIRECT` 1, 3 words per block, 12 data blocks, 5 per bitmap block, `LOGSIZE` and `NBUF` 10 as in the code | double-indirect blocks, pieces that cross every boundary, a full disk, two bitmap blocks |
| `tcp` | 2 control blocks, buffer 3, MSS 2, `SEQMOD` 16, 5 bytes, 1 fault | windows close, numbers wrap, blocks run out; `MaxFaults` bounds losses, duplicates, timeouts, kills and failures together; reordering is free |

Deadlock is not checked where a panic or an exhausted bound is a legal end, or
where processes may all wait for ever by their own choice (a read from a pipe
that nobody writes).

### Fairness

Weak fairness of the steps of a process that is inside the kernel (`log`, `pipe`,
`proc`): the scheduler is a round-robin loop over the table, so a
runnable process is run. `console` assumes strong fairness of a reader's steps,
because a reader competes for `input.lock` with an interrupt handler and other
readers that each hold it for a bounded time only. `proc` also assumes that init
keeps calling `wait`, as `user/init.c` does; `log`, that the boot code goes on with
recovery. Requests (a new system call, a key, a kill, a power failure) are never
fair. The other runs check safety only; there "no lost wakeup" is the invariant
that a sleeper's condition is false, so that whoever makes it true still has to
wake it.

## 4. Proofs

The theorems hold for every value of the constants that satisfies the named
assumption of the module. Each proof finds an inductive invariant, has one lemma
per action, and derives the listed theorems.

* **`LogProof`** (`LogAssumption`; all but `TypeCorrect` under `~SilentFail`). That
  the home blocks can be rebuilt depends on the phase of the transaction, so `LogInv` adds to `TypeOK` and `OneTransaction`: `PhaseInv` (before
  commit the header on disk is empty and the log blocks on disk equal the ones in
  memory; while installing the two headers agree; afterwards all blocks are
  home), `CacheInv` (a clean buffer equals its home sector, a dirty one is in the
  header) and `BlockInv` (the cached data of a logged sector is its log block).
  From it: `LogConsistency`, `WriteAheadHolds`, and `Refinement`, that `Log` implements
  `AtomicStore` through `stable <- Recovered`, `view <- View`.
* **`SchedProof`** (`SchedAssumption`). `IInv` says which lock each CPU holds, its
  `ncli` and `intena`, and which process it runs, all from where it stands in the
  code (`LocksInv`, `RunInv`, `IntrInv`). `WakeInv` follows the condition: it is false from
  the test to the release of its lock in `sleep`, and if it becomes true before the
  sleeper is `SLEEPING`, the producer still has `wakeup` to do, for which it needs
  `ptable.lock`; without this, `NoLostWakeup` is not inductive. For `QuietReset` a second
  invariant ties acknowledgements to stopped CPUs under any numbering. Theorems:
  `SchedCriticalSections`, `SchedNoLostWakeup`, `SchedCleanReset` and their parts.
* **`ProcProof`** (`ProcAssumption`). `IInv` adds to the types: pids are distinct
  and below `nextpid` (`PidInv`), which entries forks own (`ForkInv`), that parents
  are alive and older or are init, so that there are no cycles (`TreeInv`), and that
  a process asleep in `wait` has only living children (`WaitInv`). Theorems:
  `ProcTable`, `ProcNoMissedExit` and their parts.
* **`BioProof`** (`BioAssumption`). `IInv` adds what the flags of a buffer say about
  its data and the disk (`FlagsInv`), and that a process in a transfer holds the
  busy buffer it transfers (`TransferInv`). Theorems: `BioExclusive`, `BioContentsKept` and
  their parts, on a disk whose transfers may fail.
* **`PipeProof`** (`PipeAssumption`: any `PIPESIZE` that divides `Word`). Lemmas about
  the ring give what writing and reading do to `Contents` across the wrap of the
  counters; `IInv` adds which ends are open, what each call has left, and that
  sleepers are blocked. Theorems: `PipeTypes`, `PipeSleepers`, and `PipeImplements`, that
  `Pipe` implements `ByteStream`.
* **`MutexProof`** (no assumption). As long as `holding` has misled nobody, `IInv` says
  where a call stands and what it has found out (`CallsInv`, `ReadsInv`: the process of
  the CPU that holds the mutex is not moved, so what it reads stays true), and that
  no depth entry counts more sections than the CPU's process is in, and exactly
  as many for a section with an entry of its own (`DepthInv`). Theorems: `MutexHeld`
  (a process in a section holds the mutex), `MutexReleased` (no section ends with the
  mutex still held), `MutexPanic` (when `release` may panic), each with the
  exceptions described above. `Mutex` has no run of its own: its properties are
  proved for every number of CPUs and processes and any depth of nesting.
* **`UnixSockProof`** (`UnixSockAssumption`). `IInv` says that `l->lock` excludes
  (`Exclusive`), and what its holder still knows when `bind` may have reset the queue
  at any point (`Knows`): a reset only lowers the count, so that what `connect` has
  tested leaves room, and what `clear_listener_pending` has collected and what is
  left fit its array. `Takers` carries a sleeper past an endpoint that `accept` is
  taking. Nothing is needed of the files, and nothing is assumed about failures.
  Theorems: `UnixSockAcceptors` and `UnixSockQueue`.

The proof modules name the backend at a leaf where one of the two is much
quicker. Where a leaf names more than one, they are tried in that order.

Only model-checked, at the bounds above:

* every liveness property (the prover does not handle fairness): `KilledExits`,
  `OrphansReaped`, `HangupSeen`, `LogProgress` and `CtrlCReturns`;
* the properties of `Tcp`, which has recursive operators, and those of `FileData` and
  `Vm`, which fold over blocks and pages: what a fold computes needs induction;
* `FsTree` (`LinkCounts`, `InodesHeld`, `LocksResolve`) and `Console`
  (`RingUsable`, `SleepersBlocked`, `ReadOnce`): nothing in them is out of the prover's
  reach, but they have no proof.

## 5. Not modelled

* TCP: delivery to the host itself (the loopback device) and the wait for ARP
  inside an output call run the input path inside the output path
  (`tcp.c:334`, `arp.c:297`); that needs a model with a call stack. Failure to
  allocate a queue entry, the rfc793-style open (no caller), checksums, more
  than two hosts. The 64 KB buffers on the kernel's stack of one page (`tcp.c:351`,
  `ip.c:387`) are a matter of memory layout.
* UDP: a block is a queue of datagrams; the release of a block under a process
  asleep in `recvfrom` is the pattern `Tcp` has for `accept`.
* IP, ARP, ICMP, Ethernet, the NIC driver and DHCP: to `Tcp` they are the network
  that loses, repeats and reorders; the rings are shared with a device whose
  behaviour is in no source here.
* USB below `usb_rw`: queue heads, enumeration and port resets are register
  programming.
* The tree across crashes: `FsTree` has no crash of its own. Its calls change the
  disk through transactions, which `Log` shows to be atomic, and `FileData` has the
  crash with unlinked open files; what a crash does to a call that freed an inode
  outside its transaction is not covered.
* The kernel heap, the repair of a corrupted free list, start-up, segments and
  TLBs, ACPI and the reset sequences after the reboot handshake.
* Pixel output, key maps, formatting, interrupt controllers, system call
  dispatch, the image builder, user programs and third-party ports: nothing in
  them is a protocol between actors.

`PROJECT.json` lists the components with what is left out of each, and the
hazards with the properties that would catch them.
