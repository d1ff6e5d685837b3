--------------------------------- MODULE Vm ---------------------------------
(***************************************************************************)
(* Physical pages and address spaces: kalloc and kfree (kernel/kalloc.c),  *)
(* setupkvm, mappages, allocuvm, deallocuvm, copyuvm and freevm            *)
(* (kernel/vm.c), and what fork, exec, sbrk and wait do with them.         *)
(*                                                                         *)
(* The operations on a page table run under setupkvm_lock and are single   *)
(* steps; exec takes the lock three times.  kfree marks the page before it *)
(* takes kmem.lock to put it on the list: kernel stacks, which are freed   *)
(* without setupkvm_lock, show the two halves.  Which free page kalloc     *)
(* returns is not modelled (it takes the lowest).  Sizes are in units of   *)
(* which a page has PGSIZE.                                                *)
(***************************************************************************)
EXTENDS Integers, Sequences, FiniteSets, FiniteSetsExt, SequencesExt

CONSTANTS
  NPAGES,
  Procs, InitProc,
  PGSIZE,
  NPTENTRIES,    \* pages that a page table maps
  KTABS,         \* page tables of the kernel part of an address space
  LOWPAGES,      \* pages below 0x4000
  KERNBASE,      \* the end of user space
  USTACK,        \* guard page and stack pages of exec
  Segments,      \* sizes of programs
  Deltas         \* arguments of sbrk

ASSUME VmAssumption ==
  /\ {NPAGES, PGSIZE, NPTENTRIES, KTABS, LOWPAGES, KERNBASE, USTACK} \subseteq Nat \ {0}
  /\ KERNBASE % PGSIZE = 0 /\ Segments \subseteq Nat \ {0} /\ Deltas \subseteq Int \ {0}
  /\ InitProc \in Procs

Pages == 1 .. NPAGES
VPages == 0 .. KERNBASE \div PGSIZE - 1
Tables == 0 .. (KERNBASE \div PGSIZE - 1) \div NPTENTRIES
PGROUNDUP(n) == (n + PGSIZE - 1) \div PGSIZE   \* as a page number

VARIABLES
  free,     \* the pages on kmem.freelist
  nfree,    \* kmem.nfree
  state,    \* the pages that page_state says are free
  space,    \* the address space of each process
  image,    \* the one that exec is building
  kstack,
  transit,  \* kernel stacks that kfree has marked and not yet put on the list
  kern      \* "up", or which panic

vars == <<free, nfree, state, space, image, kstack, transit, kern>>

\* pgdir, its page tables for the kernel and for the user part, the user pages.
NoSpace == [dir |-> 0, ktabs |-> {}, tabs |-> [i \in Tables |-> 0],
            pte |-> [a \in VPages |-> 0], sz |-> 0]

TypeOK ==
  /\ free \subseteq Pages /\ nfree \in Nat /\ state \subseteq Pages
  /\ \A p \in Procs : \A s \in {space[p], image[p]} :
       /\ s.dir \in 0 .. NPAGES /\ s.ktabs \subseteq Pages /\ s.sz \in 0 .. KERNBASE
       /\ s.tabs \in [Tables -> 0 .. NPAGES] /\ s.pte \in [VPages -> 0 .. NPAGES]
  /\ kstack \in [Procs -> 0 .. NPAGES] /\ transit \in [Procs -> 0 .. NPAGES]
  /\ kern \in {"up", "remap", "copyuvm"}

\* After kinit2 and userinit: one page of initcode.
Init ==
  LET s == [NoSpace EXCEPT !.dir = 2, !.ktabs = 3 .. 2 + KTABS, !.tabs[0] = 3 + KTABS,
                           !.pte[0] = 4 + KTABS, !.sz = PGSIZE]
  IN  /\ kstack = [p \in Procs |-> IF p = InitProc THEN 1 ELSE 0]
      /\ space = [p \in Procs |-> IF p = InitProc THEN s ELSE NoSpace]
      /\ image = [p \in Procs |-> NoSpace]
      /\ free = 5 + KTABS .. NPAGES /\ nfree = NPAGES - 4 - KTABS /\ state = free
      /\ transit = [p \in Procs |-> 0] /\ kern = "up"

-----------------------------------------------------------------------------
(* An operation in progress: the allocator, the address space s it works   *)
(* on, whether it has failed, and the page kalloc returned (0 for none).   *)

Begin(s) == [free |-> free, nfree |-> nfree, state |-> state, s |-> s, ok |-> TRUE,
             ret |-> 0, kern |-> "up"]

End(m) == free' = m.free /\ nfree' = m.nfree /\ state' = m.state /\ kern' = m.kern

rebuild_freelist(m) == [m EXCEPT !.free = m.state, !.nfree = Cardinality(m.state)]

\* Fault: the page keeps its state FREE.
kalloc_unmarked(m) ==
  IF m.free = {} THEN [m EXCEPT !.ret = 0]
  ELSE [m EXCEPT !.free = @ \ {Min(m.free)}, !.nfree = @ - 1, !.ret = Min(m.free)]

\* The list is rebuilt from page_state when it is found to be damaged.
kalloc(m) ==
  LET damaged == (m.free = {} /\ m.nfree > 0) \/ ~(m.free \subseteq m.state)
      g == IF damaged THEN rebuild_freelist(m) ELSE m
      p == Min(g.free)
  IN  IF g.free = {} THEN [g EXCEPT !.ret = 0]
      ELSE [g EXCEPT !.free = @ \ {p}, !.nfree = @ - 1, !.state = @ \ {p}, !.ret = p]

\* A page that is free already is left alone.
kfree(p, m) ==
  IF p \in m.state THEN m
  ELSE [m EXCEPT !.state = @ \cup {p}, !.free = @ \cup {p}, !.nfree = @ + 1]

FreeAll(S, m) == FoldSet(kfree, m, S)

\* walkpgdir(alloc) and mappages of one page.
mappages(m, a, p) ==
  LET i == a \div NPTENTRIES
      w == IF m.s.tabs[i] # 0 THEN m ELSE kalloc(m)
      t == IF m.s.tabs[i] # 0 THEN m.s.tabs[i] ELSE w.ret
  IN  IF t = 0 THEN [w EXCEPT !.ok = FALSE]
      ELSE IF m.s.pte[a] \notin {0, p} THEN [w EXCEPT !.kern = "remap"]
      ELSE [w EXCEPT !.s.tabs[i] = t, !.s.pte[a] = p]

\* pgdir_user_pt_shared_with_other
Shared(m, tab) == \E q \in Procs : space[q].dir \notin {0, m.s.dir} /\
                                   \E i \in Tables : space[q].tabs[i] = tab

\* Fault: the page that newsz lies in is unmapped too.
deallocuvm_rounddown(m, old, new) ==
  LET as == {a \in VPages : new \div PGSIZE <= a /\ a * PGSIZE < old /\ a >= LOWPAGES}
  IN  [FreeAll({m.s.pte[a] : a \in as} \ {0}, m) EXCEPT
         !.s.pte = [a \in VPages |-> IF a \in as THEN 0 ELSE m.s.pte[a]]]

\* Unmap and free the pages from newsz to oldsz, except those below LOWPAGES
\* and those in a page table that another process has too.
deallocuvm(m, old, new) ==
  LET as == {a \in VPages : /\ PGROUNDUP(new) <= a /\ a * PGSIZE < old /\ a >= LOWPAGES
                            /\ m.s.tabs[a \div NPTENTRIES] # 0
                            /\ ~Shared(m, m.s.tabs[a \div NPTENTRIES])}
  IN  [FreeAll({m.s.pte[a] : a \in as} \ {0}, m) EXCEPT
         !.s.pte = [a \in VPages |-> IF a \in as THEN 0 ELSE m.s.pte[a]]]

\* kalloc and mappages for page a; a page that finds no page table is freed by
\* allocuvm, and by copyuvm is not.
Grow(u, a, copying) ==
  LET k == kalloc(u)
      v == mappages(k, a, k.ret)
  IN  IF ~u.ok \/ u.kern # "up" THEN u
      ELSE IF k.ret = 0 THEN [k EXCEPT !.ok = FALSE]
      ELSE IF v.ok \/ copying THEN v ELSE kfree(k.ret, v)

\* The pages from size old to size new, in order.
VRange(old, new) == SetToSortSeq({a \in VPages : PGROUNDUP(old) <= a /\ a * PGSIZE < new}, <)

allocuvm(m, old, new) ==
  LET all == FoldLeft(LAMBDA u, a : Grow(u, a, FALSE), m, VRange(old, new))
  IN  IF new >= KERNBASE THEN [m EXCEPT !.ok = FALSE]
      ELSE IF all.ok THEN all ELSE deallocuvm(all, new, old)

\* The page directory, its tables and the user pages; what deallocuvm leaves
\* mapped is lost.
freevm(m) ==
  LET d == deallocuvm(m, KERNBASE, 0)
      tabs == {t \in Range(d.s.tabs) : t # 0 /\ ~Shared(m, t)}
      f == FreeAll(tabs \cup d.s.ktabs \cup {d.s.dir}, d)
  IN  [f EXCEPT !.s = NoSpace]

setupkvm(m) ==
  LET d == kalloc(m)
      Tab(u, n) == LET k == kalloc(u) IN
                   IF ~u.ok THEN u
                   ELSE IF k.ret = 0 THEN [k EXCEPT !.ok = FALSE]
                   ELSE [k EXCEPT !.s.ktabs = @ \cup {k.ret}]
      t == FoldLeft(Tab, [d EXCEPT !.s = [NoSpace EXCEPT !.dir = d.ret]], [n \in 1 .. KTABS |-> n])
  IN  IF d.ret = 0 THEN [d EXCEPT !.ok = FALSE]
      ELSE IF t.ok THEN t ELSE freevm(t)

copyuvm(m, parent) ==
  LET Copy(u, a) == IF parent.pte[a] = 0 THEN [u EXCEPT !.kern = "copyuvm"]
                                         ELSE Grow(u, a, TRUE)
      d == setupkvm(m)
      all == FoldLeft(Copy, d, VRange(0, parent.sz))
  IN  IF ~d.ok THEN d
      ELSE IF all.ok THEN [all EXCEPT !.s.sz = parent.sz] ELSE freevm(all)

-----------------------------------------------------------------------------
(* System calls.  A process that is building a new image is inside exec.   *)

Runs(p) == kern = "up" /\ kstack[p] # 0 /\ space[p].dir # 0 /\ image[p].dir = 0

Unused(c) == kstack[c] = 0 /\ space[c].dir = 0 /\ transit[c] = 0

\* The first half of kfree(kstack), without a lock: test and set page_state; a
\* page that is free already is left alone.
Mark(p, m) == [m EXCEPT !.state = @ \cup {p}]
Marked(p, m) == IF p \in m.state THEN 0 ELSE p

\* allocproc takes the kernel stack, copyuvm the rest.
fork(p, c) ==
  LET k == kalloc(Begin(NoSpace))
      m == copyuvm(k, space[p])
  IN  /\ Runs(p) /\ Unused(c)
      /\ IF k.ret = 0 THEN End(k) /\ UNCHANGED <<space, kstack, transit>>
         ELSE IF m.ok
           THEN /\ End(m) /\ kstack' = [kstack EXCEPT ![c] = k.ret]
                /\ space' = [space EXCEPT ![c] = m.s] /\ UNCHANGED transit
           ELSE /\ End(Mark(k.ret, m)) /\ transit' = [transit EXCEPT ![c] = Marked(k.ret, m)]
                /\ UNCHANGED <<space, kstack>>
      /\ UNCHANGED image

\* exec: a new page directory; then the program; then guard and stack, after
\* which the old address space is freed.
exec_setup(p) ==
  LET m == setupkvm(Begin(NoSpace)) IN
  /\ Runs(p)
  /\ End(m) /\ image' = [image EXCEPT ![p] = m.s]
  /\ UNCHANGED <<space, kstack, transit>>

exec_load(p, n) ==
  LET m == allocuvm(Begin(image[p]), 0, n) IN
  /\ kern = "up" /\ image[p].dir # 0 /\ image[p].sz = 0
  /\ LET r == IF m.ok THEN [m EXCEPT !.s.sz = n] ELSE freevm(m) IN
     End(r) /\ image' = [image EXCEPT ![p] = r.s]
  /\ UNCHANGED <<space, kstack, transit>>

\* A read of the file failed.
exec_bad(p) ==
  LET m == freevm(Begin(image[p])) IN
  /\ kern = "up" /\ image[p].dir # 0
  /\ End(m) /\ image' = [image EXCEPT ![p] = NoSpace]
  /\ UNCHANGED <<space, kstack, transit>>

exec_commit(p) ==
  LET sz == PGROUNDUP(image[p].sz) * PGSIZE
      m == allocuvm(Begin(image[p]), sz, sz + USTACK * PGSIZE)
      old == freevm([m EXCEPT !.s = space[p]])
  IN  /\ kern = "up" /\ image[p].dir # 0 /\ image[p].sz > 0
      /\ IF m.ok THEN End(old) /\ space' = [space EXCEPT ![p] = [m.s EXCEPT !.sz = sz + USTACK * PGSIZE]]
                 ELSE End(freevm(m)) /\ UNCHANGED space
      /\ image' = [image EXCEPT ![p] = NoSpace]
      /\ UNCHANGED <<kstack, transit>>

\* sbrk(n); a process may not shrink to nothing.
growproc(p, n) ==
  LET sz == space[p].sz
      m == IF n > 0 THEN allocuvm(Begin(space[p]), sz, sz + n)
                    ELSE deallocuvm(Begin(space[p]), sz, sz + n)
  IN  /\ Runs(p) /\ sz + n > 0 /\ sz + n < KERNBASE
      /\ End(m) /\ space' = [space EXCEPT ![p] = [m.s EXCEPT !.sz = IF m.ok /\ m.kern = "up" THEN sz + n ELSE sz]]
      /\ UNCHANGED <<image, kstack, transit>>

\* c has exited and its parent finds it in wait: first the kernel stack goes,
\* then the address space.
wait(c) ==
  /\ Runs(c) /\ c # InitProc
  /\ End(Mark(kstack[c], Begin(NoSpace)))
  /\ transit' = [transit EXCEPT ![c] = Marked(kstack[c], Begin(NoSpace))]
  /\ kstack' = [kstack EXCEPT ![c] = 0]
  /\ UNCHANGED <<space, image>>

wait_freevm(c) ==
  LET m == freevm(Begin(space[c])) IN
  /\ kern = "up" /\ kstack[c] = 0 /\ transit[c] = 0 /\ space[c].dir # 0
  /\ End(m) /\ space' = [space EXCEPT ![c] = NoSpace]
  /\ UNCHANGED <<image, kstack, transit>>

\* Fault: the counter is left alone.
kfree_push_uncounted(c) ==
  /\ kern = "up" /\ transit[c] # 0
  /\ transit' = [transit EXCEPT ![c] = 0] /\ free' = free \cup {transit[c]}
  /\ UNCHANGED <<nfree, state, space, image, kstack, kern>>

\* The second half of kfree, under kmem.lock.
kfree_push(c) ==
  /\ kern = "up" /\ transit[c] # 0
  /\ transit' = [transit EXCEPT ![c] = 0]
  /\ free' = free \cup {transit[c]} /\ nfree' = nfree + 1
  /\ UNCHANGED <<state, space, image, kstack, kern>>

Next ==
  \E p \in Procs :
       \/ \E c \in Procs : fork(p, c)
       \/ exec_setup(p) \/ exec_bad(p) \/ exec_commit(p)
       \/ wait(p) \/ wait_freevm(p) \/ kfree_push(p)
       \/ \E n \in Segments : exec_load(p, n)
       \/ \E n \in Deltas : growproc(p, n)

Spec == Init /\ [][Next]_vars

-----------------------------------------------------------------------------
(* Properties.                                                             *)

\* Every use of a page, as a pair of the page and what it is used for.
Uses(q, s, tag) ==
  {<<s.dir, q, tag, "dir", 0>>} \cup {<<t, q, tag, "ktab", 0>> : t \in s.ktabs}
    \cup {<<s.tabs[i], q, tag, "tab", i>> : i \in Tables}
    \cup {<<s.pte[a], q, tag, "page", a>> : a \in VPages}

AllUses ==
  {u \in UNION {Uses(q, space[q], "space") \cup Uses(q, image[q], "image")
                  \cup {<<kstack[q], q, "kstack", "", 0>>} : q \in Procs} : u[1] # 0}

Used == {u[1] : u \in AllUses}

\* No page is used twice: not by two address spaces, not as a page table and
\* as user memory, and never while it is free or about to be.  So the shared
\* page tables that deallocuvm, fork, exec and wait look for do not occur.
OneOwner ==
  /\ Cardinality(AllUses) = Cardinality(Used)
  /\ Used \cap state = {} /\ Used \cap free = {}

\* The allocator's three records of what is free agree, although kfree
\* changes page_state without the lock: pages in transit are marked and not
\* on the list.  So kalloc never rebuilds the list, which would put such a
\* page on it twice.
FreeListExact ==
  /\ state = free \cup (Range(transit) \ {0}) /\ free \cap Range(transit) = {}
  /\ nfree = Cardinality(free)

\* A process's size and its page table agree, also after a growth that ran
\* out of memory half way: all pages below sz are mapped, none above it,
\* except that shrinking does not unmap pages below 0x4000.
MappedToSize ==
  \A q \in Procs : kern = "up" /\ space[q].dir # 0 =>
    \A a \in VPages :
      /\ a < PGROUNDUP(space[q].sz) => space[q].pte[a] # 0
      /\ a >= PGROUNDUP(space[q].sz) /\ a >= LOWPAGES => space[q].pte[a] = 0

\* copyuvm never meets a hole, and mappages meets a mapped page only for a
\* process that had shrunk below 0x4000, or had failed to grow past it.
PanicsOnlyLow ==
  /\ kern # "copyuvm"
  /\ kern = "remap" => \E q \in Procs : /\ PGROUNDUP(space[q].sz) < LOWPAGES
                                        /\ space[q].pte[PGROUNDUP(space[q].sz)] # 0

\* No page is owned twice, whatever fails for want of memory half way.
PagesAccounted == TypeOK /\ OneOwner

\* Page tables follow the size of the process, so that fork never panics, and
\* growing panics only for a process that still maps pages below 0x4000 which
\* lie above its size.
TablesFollowSize == MappedToSize /\ PanicsOnlyLow

\* "Free a page table and all the physical memory pages in the user part"
\* (vm.c:550-551): a page that nothing uses any more is free again.
NoPageLost == kern = "up" => Pages = Used \cup state
=============================================================================
