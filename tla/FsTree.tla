------------------------------- MODULE FsTree -------------------------------
(***************************************************************************)
(* Names and inodes: namex, iget/iput and the system calls that change the *)
(* directory tree (kernel/fs.c, kernel/sysfile.c), against the transaction *)
(* of kernel/log.c.  Path lookup runs outside any transaction and locks    *)
(* one directory at a time, so it interleaves with the calls that hold the *)
(* transaction.  File contents and blocks are left to Log, Bio and         *)
(* FileData.                                                                *)
(***************************************************************************)
EXTENDS Naturals, Sequences, FiniteSets, FiniteSetsExt

CONSTANTS
  Procs, None,
  NINODES,   \* sb.ninodes - 1
  Names,     \* names of files, and possibly ".."
  Workloads, \* the calls and the paths that processes use; a behaviour has one of them
  NCOMPS,    \* NELEM(comps) in sys_getcwd, 64
  NoFile     \* may filealloc or fdalloc fail in sys_open?

ASSUME FsTreeAssumption ==
  /\ None \notin Procs /\ NINODES \in Nat \ {0} /\ NCOMPS \in Nat /\ NoFile \in BOOLEAN
  /\ \A w \in Workloads :
       /\ w.paths \subseteq Seq(Names) \ {<<>>}
       /\ w.calls \subseteq {"open", "trunc", "exec", "create", "mkdir", "unlink", "link",
                              "chdir", "getcwd"}

Inodes == 1 .. NINODES
ROOTINO == 1
NoIno == 0

VARIABLES
  type, nlink, ent, dotdot,  \* disk: inodes, the entries of directories, their ".."
  ref, busy,                 \* inode cache: ip->ref, I_BUSY
  trans,                     \* who is between begin_trans and commit_trans
  pc, op, path, newpath,     \* call in progress, path to walk, link's second path
  ip, nx, lp,                \* the inodes a call has references to
  fd, cwd,                   \* the inodes a process keeps: open file, directory
  kern,                      \* "up", or the message of a panic
  load,                      \* the workload
  strayed                    \* history: a directory without links was given an
                             \* entry, or its ".." was followed

disk == <<type, nlink, ent, dotdot>>
call == <<pc, op, path, newpath>>
vars == <<disk, ref, busy, trans, call, ip, nx, lp, fd, cwd, kern, load, strayed>>

NoEntries == [n \in Names |-> NoIno]

\* The state is well formed; counts never go below zero.
TypeOK ==
  /\ type \in [Inodes -> {"free", "file", "dir"}]
  /\ nlink \in [Inodes -> Nat] /\ ref \in [Inodes -> Nat]
  /\ ent \in [Inodes -> [Names -> 0 .. NINODES]] /\ dotdot \in [Inodes -> 0 .. NINODES]
  /\ busy \in [Inodes -> BOOLEAN] /\ trans \in Procs \cup {None}
  /\ \A p \in Procs : {ip[p], nx[p], lp[p], fd[p]} \subseteq 0 .. NINODES /\ cwd[p] \in Inodes
  /\ kern \in {"up", "ialloc: no inodes", "ilock: no type", "iput busy",
               "unlink: nlink < 1", "write outside of trans"}

\* A new file system; every process is in the root directory.
Init ==
  /\ type = [i \in Inodes |-> IF i = ROOTINO THEN "dir" ELSE "free"]
  /\ nlink = [i \in Inodes |-> IF i = ROOTINO THEN 1 ELSE 0]
  /\ ent = [i \in Inodes |-> NoEntries]
  /\ dotdot = [i \in Inodes |-> IF i = ROOTINO THEN ROOTINO ELSE NoIno]
  /\ ref = [i \in Inodes |-> IF i = ROOTINO THEN Cardinality(Procs) ELSE 0]
  /\ busy = [i \in Inodes |-> FALSE]
  /\ trans = None
  /\ pc = [p \in Procs |-> "idle"] /\ op = [p \in Procs |-> "none"]
  /\ path = [p \in Procs |-> <<>>] /\ newpath = [p \in Procs |-> <<>>]
  /\ ip = [p \in Procs |-> NoIno] /\ nx = [p \in Procs |-> NoIno]
  /\ lp = [p \in Procs |-> NoIno] /\ fd = [p \in Procs |-> NoIno]
  /\ cwd = [p \in Procs |-> ROOTINO]
  /\ kern = "up"
  /\ load \in Workloads /\ strayed = FALSE

At(p, l) == kern = "up" /\ pc[p] = l
Set(v, p, x) == [v EXCEPT ![p] = x]
Goto(p, l) == pc' = Set(pc, p, l) /\ UNCHANGED <<op, path, newpath>>
Refer(i) == ref' = [ref EXCEPT ![i] = @ + 1]

\* ilock returns at once: the inode is unlocked and allocated.
Lockable(i) == ~busy[i] /\ type[i] # "free"

\* dirlookup
dirlookup(d, n) == IF n = ".." THEN dotdot[d] ELSE ent[d][n]

-----------------------------------------------------------------------------
(* iput *)

\* Fault: iput frees a linkless inode that others still hold.
Last_eager(i) == nlink[i] = 0

\* Is this the last reference to an inode without links?
Last(i) == ref[i] = 1 /\ nlink[i] = 0

\* Free an inode on disk: itrunc, type = 0, iupdate.
Freed(i) ==
  /\ type' = [type EXCEPT ![i] = IF Last(i) THEN "free" ELSE @]
  /\ ent' = [ent EXCEPT ![i] = IF Last(i) THEN NoEntries ELSE @]
  /\ dotdot' = [dotdot EXCEPT ![i] = IF Last(i) THEN NoIno ELSE @]

\* Drop a reference; the last one frees the inode with log_writes, which panic
\* outside a transaction but do not ask whose transaction it is.
iput(i) ==
  /\ ref' = [ref EXCEPT ![i] = @ - 1]
  /\ Freed(i)
  /\ kern' = CASE Last(i) /\ busy[i] -> "iput busy"
               [] Last(i) /\ trans = None -> "write outside of trans"
               [] OTHER -> kern
  /\ UNCHANGED <<nlink, busy, trans>>

-----------------------------------------------------------------------------
(* The start and the end of a call. *)

\* Fault: sys_getcwd takes its locks without a transaction.
BeginsFirst_nocwd(o) == o \in {"create", "mkdir", "trunc", "chdir", "close"}

\* Calls that begin a transaction before they look at anything.
BeginsFirst(o) == o \in {"create", "mkdir", "trunc", "chdir", "getcwd", "close"}

\* Where a call goes on once it has the transaction.
AfterBegin(o) == CASE o \in {"create", "mkdir", "trunc", "chdir"} -> "walk"
                   [] OTHER -> o

\* namex starts at the root or, for a relative path, at the current directory.
syscall(p, o, w) ==
  /\ At(p, "idle")
  /\ o \in {"open", "trunc", "create"} => fd[p] = NoIno
  /\ \E start \in IF o = "getcwd" THEN {cwd[p]} ELSE {ROOTINO, cwd[p]} :
       ip' = Set(ip, p, start) /\ Refer(start)
  /\ op' = Set(op, p, o) /\ path' = Set(path, p, IF o = "getcwd" THEN <<>> ELSE w)
  /\ \E w2 \in IF o = "link" THEN load.paths ELSE {<<>>} : newpath' = Set(newpath, p, w2)
  /\ pc' = Set(pc, p, IF BeginsFirst(o) THEN "begin" ELSE IF o = "getcwd" THEN o ELSE "walk")
  /\ UNCHANGED <<disk, busy, trans, nx, lp, fd, cwd, kern>>

\* The last reference to an open file is closed.
sys_close(p) ==
  /\ At(p, "idle") /\ fd[p] # NoIno
  /\ op' = Set(op, p, "close") /\ pc' = Set(pc, p, "begin")
  /\ UNCHANGED <<disk, ref, busy, trans, path, newpath, ip, nx, lp, fd, cwd, kern>>

close(p) ==
  /\ At(p, "close")
  /\ iput(fd[p])
  /\ fd' = Set(fd, p, NoIno)
  /\ Goto(p, "done")
  /\ UNCHANGED <<ip, nx, lp, cwd>>

begin_trans(p) ==
  /\ At(p, "begin") /\ trans = None
  /\ trans' = p
  /\ Goto(p, AfterBegin(op[p]))
  /\ UNCHANGED <<disk, ref, busy, ip, nx, lp, fd, cwd, kern>>

\* The call returns, having committed the transaction it began.
done(p) ==
  /\ At(p, "done")
  /\ trans' = IF trans = p THEN None ELSE trans
  /\ pc' = Set(pc, p, "idle") /\ op' = Set(op, p, "none")
  /\ path' = Set(path, p, <<>>) /\ newpath' = Set(newpath, p, <<>>)
  /\ UNCHANGED <<disk, ref, busy, ip, nx, lp, fd, cwd, kern>>

\* The iput of ip with which a call ends, or with which link gives up.
put_ip(p) ==
  /\ At(p, "put")
  /\ iput(ip[p])
  /\ ip' = Set(ip, p, NoIno)
  /\ Goto(p, IF lp[p] # NoIno THEN "linkbad" ELSE "done")
  /\ UNCHANGED <<nx, lp, fd, cwd>>

\* The inodes, at most one, that a process is about to lock.
Wants(p) ==
  IF pc[p] \in {"walk", "open", "create", "create4", "unlink", "link", "link2", "getcwd"}
    THEN {ip[p]}
    ELSE IF pc[p] \in {"getcwd2", "unlink2"} THEN {nx[p]}
    ELSE IF pc[p] = "linkbad" THEN {lp[p]} ELSE {}

\* The inode a process is about to lock has been freed.
ilock_panic(p) ==
  /\ kern = "up"
  /\ \E i \in Wants(p) : type[i] = "free"
  /\ kern' = "ilock: no type"
  /\ UNCHANGED <<disk, ref, busy, trans, call, ip, nx, lp, fd, cwd>>

-----------------------------------------------------------------------------
(* namex *)

\* Does the walk stop at the parent of the last element (nameiparent)?
Parent(p) == op[p] \in {"create", "mkdir", "unlink"} \/ lp[p] # NoIno

\* Where a call goes on once namex has returned an inode.
AfterWalk(p) == CASE op[p] \in {"open", "trunc", "exec", "chdir"} -> "open"
                  [] op[p] \in {"create", "mkdir"} -> "create"
                  [] op[p] = "unlink" -> "begin"
                  [] op[p] = "link" -> IF lp[p] = NoIno THEN "begin" ELSE "link2"

\* One round: ilock, the tests, dirlookup, iunlock.
namex(p) ==
  LET i == ip[p]
      j == dirlookup(i, Head(path[p]))
  IN
  /\ At(p, "walk") /\ path[p] # <<>> /\ Lockable(i)
  /\ \/ /\ type[i] = "dir" /\ Parent(p) /\ Len(path[p]) = 1
        /\ Goto(p, AfterWalk(p)) /\ UNCHANGED <<nx, ref>>
     \/ /\ type[i] # "dir" \/ (j = NoIno /\ ~(Parent(p) /\ Len(path[p]) = 1))
        /\ Goto(p, "put") /\ UNCHANGED <<nx, ref>>
     \/ /\ type[i] = "dir" /\ ~(Parent(p) /\ Len(path[p]) = 1) /\ j # NoIno
        /\ nx' = Set(nx, p, j) /\ Refer(j)
        /\ Goto(p, "walk2")
  /\ UNCHANGED <<disk, busy, trans, ip, lp, fd, cwd, kern>>

\* iput the directory and go on with the inode found in it.
namex_next(p) ==
  /\ At(p, "walk2")
  /\ iput(ip[p])
  /\ ip' = Set(ip, p, nx[p]) /\ nx' = Set(nx, p, NoIno)
  /\ path' = [path EXCEPT ![p] = Tail(@)]
  /\ pc' = Set(pc, p, IF Len(path[p]) = 1 THEN AfterWalk(p) ELSE "walk")
  /\ UNCHANGED <<op, newpath, lp, fd, cwd>>

-----------------------------------------------------------------------------
(* open, exec, chdir, getcwd *)

\* ilock, the tests, iunlock: open keeps the reference as an open file, chdir
\* as the current directory, and exec drops it.  An open without O_TRUNC and
\* exec are outside transactions.
open(p) ==
  LET i == ip[p]
      fails == \/ op[p] = "exec" \/ (op[p] \in {"open", "trunc"} /\ NoFile)
               \/ (op[p] = "chdir" /\ type[i] # "dir") \/ (op[p] = "trunc" /\ type[i] = "dir")
      works == op[p] # "exec" /\ (op[p] = "chdir" => type[i] = "dir")
               /\ (op[p] = "trunc" => type[i] # "dir")
  IN
  /\ At(p, "open") /\ Lockable(i)
  /\ \/ fails /\ Goto(p, "put") /\ UNCHANGED <<fd, ip, nx>>
     \/ /\ works /\ op[p] # "chdir"
        /\ fd' = Set(fd, p, i) /\ ip' = Set(ip, p, NoIno)
        /\ Goto(p, "done") /\ UNCHANGED nx
     \/ /\ works /\ op[p] = "chdir"
        /\ nx' = Set(nx, p, i) /\ ip' = Set(ip, p, NoIno)
        /\ Goto(p, "chdir") /\ UNCHANGED fd
  /\ UNCHANGED <<disk, ref, busy, trans, lp, cwd, kern>>

chdir(p) ==
  /\ At(p, "chdir")
  /\ iput(cwd[p])
  /\ cwd' = Set(cwd, p, nx[p]) /\ nx' = Set(nx, p, NoIno)
  /\ Goto(p, "done")
  /\ UNCHANGED <<ip, lp, fd>>

\* getcwd climbs: it locks a directory and then, still holding it, its parent.
getcwd(p) ==
  LET i == ip[p] IN
  /\ At(p, "getcwd") /\ Lockable(i)
  /\ IF i = ROOTINO THEN Goto(p, "put") /\ UNCHANGED <<busy, nx, ref>>
     ELSE /\ busy' = [busy EXCEPT ![i] = TRUE]
          /\ nx' = Set(nx, p, dotdot[i]) /\ Refer(dotdot[i])
          /\ Goto(p, "getcwd2")
  /\ UNCHANGED <<disk, trans, ip, lp, fd, cwd, kern>>

\* The parent is locked and searched for the child; both are unlocked.  The
\* component found goes to comps (path), which has a limit.
getcwd_parent(p) ==
  LET i == ip[p]  d == nx[p]
      names == {n \in Names : dirlookup(d, n) = i}
  IN
  /\ At(p, "getcwd2") /\ Lockable(d)
  /\ busy' = [busy EXCEPT ![i] = FALSE]
  /\ IF names = {} \/ Len(path[p]) = NCOMPS
       THEN Goto(p, "getcwdbad")
       ELSE /\ path' = [path EXCEPT ![p] = Append(@, CHOOSE n \in names : TRUE)]
            /\ pc' = Set(pc, p, "getcwd3") /\ UNCHANGED <<op, newpath>>
  /\ UNCHANGED <<disk, ref, trans, ip, nx, lp, fd, cwd, kern>>

\* The child is put; the climb goes on from the parent, or the parent is put.
getcwd_up(p) ==
  /\ pc[p] \in {"getcwd3", "getcwdbad"} /\ kern = "up"
  /\ iput(ip[p])
  /\ ip' = Set(ip, p, nx[p]) /\ nx' = Set(nx, p, NoIno)
  /\ Goto(p, IF pc[p] = "getcwd3" THEN "getcwd" ELSE "put")
  /\ UNCHANGED <<lp, fd, cwd>>

-----------------------------------------------------------------------------
(* create *)

FreeInodes == {i \in Inodes : type[i] = "free"}

\* With dp locked: the entry exists, or ialloc, ilock(ip) and dirlink make one.
create(p) ==
  LET d == ip[p]  n == Head(path[p])  old == dirlookup(d, n)
      dir == op[p] = "mkdir"
  IN
  /\ At(p, "create") /\ Lockable(d)
  /\ \/ /\ old # NoIno
        /\ nx' = Set(nx, p, old) /\ Refer(old)
        /\ Goto(p, "create2") /\ UNCHANGED <<disk, busy, kern>>
     \/ /\ old = NoIno /\ FreeInodes = {}
        /\ kern' = "ialloc: no inodes"
        /\ UNCHANGED <<disk, ref, busy, nx, call>>
     \/ /\ old = NoIno /\ FreeInodes # {}
        /\ LET i == Min(FreeInodes) IN
             /\ type' = [type EXCEPT ![i] = IF dir THEN "dir" ELSE "file"]
             /\ nlink' = [nlink EXCEPT ![i] = 1, ![d] = IF dir THEN @ + 1 ELSE @]
             /\ ent' = [ent EXCEPT ![i] = NoEntries, ![d][n] = i]
             /\ dotdot' = [dotdot EXCEPT ![i] = IF dir THEN d ELSE NoIno]
             /\ busy' = [busy EXCEPT ![i] = TRUE]
             /\ nx' = Set(nx, p, i) /\ Refer(i)
        /\ Goto(p, "create3") /\ UNCHANGED kern
  /\ UNCHANGED <<trans, ip, lp, fd, cwd>>

\* iput(dp), with the new inode locked or before the existing one is.
create_putdir(p) ==
  /\ pc[p] \in {"create2", "create3"} /\ kern = "up"
  /\ iput(ip[p])
  /\ ip' = Set(ip, p, nx[p]) /\ nx' = Set(nx, p, NoIno)
  /\ Goto(p, IF pc[p] = "create2" THEN "create4" ELSE "create5")
  /\ UNCHANGED <<lp, fd, cwd>>

\* The existing inode is locked: fine for a file that open wants, else put.
create_old(p) ==
  LET i == ip[p] IN
  /\ At(p, "create4") /\ Lockable(i)
  /\ IF op[p] = "create" /\ type[i] = "file"
       THEN busy' = [busy EXCEPT ![i] = TRUE] /\ Goto(p, "create5")
       ELSE UNCHANGED busy /\ Goto(p, "put")
  /\ UNCHANGED <<disk, ref, trans, ip, nx, lp, fd, cwd, kern>>

\* create has returned a locked inode.  sys_open commits with the inode still
\* locked; sys_mkdir unlocks and puts it first.
create_return(p) ==
  /\ At(p, "create5")
  /\ IF op[p] = "create"
       THEN trans' = None /\ UNCHANGED busy /\ Goto(p, "create6")
       ELSE busy' = [busy EXCEPT ![ip[p]] = FALSE] /\ UNCHANGED trans /\ Goto(p, "put")
  /\ UNCHANGED <<disk, ref, ip, nx, lp, fd, cwd, kern>>

\* filealloc, fdalloc and iunlock; without a file the reference is dropped.
create_open(p) ==
  /\ At(p, "create6")
  /\ busy' = [busy EXCEPT ![ip[p]] = FALSE]
  /\ \/ fd' = Set(fd, p, ip[p]) /\ ip' = Set(ip, p, NoIno) /\ Goto(p, "done")
     \/ NoFile /\ UNCHANGED <<fd, ip>> /\ Goto(p, "put")
  /\ UNCHANGED <<disk, ref, trans, nx, lp, cwd, kern>>

-----------------------------------------------------------------------------
(* unlink *)

\* ilock(dp), dirlookup.
unlink(p) ==
  LET d == ip[p]  n == Head(path[p]) IN
  /\ At(p, "unlink") /\ Lockable(d)
  /\ IF n = ".." \/ dirlookup(d, n) = NoIno
       THEN Goto(p, "put") /\ UNCHANGED <<nx, ref, busy>>
       ELSE /\ busy' = [busy EXCEPT ![d] = TRUE]
            /\ nx' = Set(nx, p, ent[d][n]) /\ Refer(ent[d][n])
            /\ Goto(p, "unlink2")
  /\ UNCHANGED <<disk, trans, ip, lp, fd, cwd, kern>>

isdirempty(i) == ent[i] = NoEntries

\* ilock(ip) with dp still locked, the tests, the entry erased, iunlock(dp).
unlink_erase(p) ==
  LET d == ip[p]  i == nx[p] IN
  /\ At(p, "unlink2") /\ Lockable(i)
  /\ kern' = IF nlink[i] < 1 THEN "unlink: nlink < 1" ELSE kern
  /\ IF type[i] = "dir" /\ ~isdirempty(i)
       THEN /\ busy' = [busy EXCEPT ![d] = FALSE]
            /\ Goto(p, "unlinkbad") /\ UNCHANGED <<ent, nlink>>
       ELSE /\ ent' = [ent EXCEPT ![d][Head(path[p])] = NoIno]
            /\ nlink' = [nlink EXCEPT ![d] = IF type[i] = "dir" THEN @ - 1 ELSE @]
            /\ busy' = [busy EXCEPT ![d] = FALSE, ![i] = TRUE]
            /\ Goto(p, "unlink3")
  /\ UNCHANGED <<type, dotdot, ref, trans, ip, nx, lp, fd, cwd>>

unlink_putdir(p) ==
  /\ At(p, "unlink3")
  /\ iput(ip[p])
  /\ ip' = Set(ip, p, nx[p]) /\ nx' = Set(nx, p, NoIno)
  /\ Goto(p, "unlink4")
  /\ UNCHANGED <<lp, fd, cwd>>

\* ip->nlink--, iunlock; the put that follows may free the inode.
unlink_drop(p) ==
  /\ At(p, "unlink4")
  /\ nlink' = [nlink EXCEPT ![ip[p]] = @ - 1]
  /\ busy' = [busy EXCEPT ![ip[p]] = FALSE]
  /\ Goto(p, "put")
  /\ UNCHANGED <<type, ent, dotdot, ref, trans, ip, nx, lp, fd, cwd, kern>>

\* The directory to remove is not empty: put it, then dp.
unlink_bad(p) ==
  /\ At(p, "unlinkbad")
  /\ iput(nx[p])
  /\ nx' = Set(nx, p, NoIno)
  /\ Goto(p, "put")
  /\ UNCHANGED <<ip, lp, fd, cwd>>

-----------------------------------------------------------------------------
(* link *)

\* ilock(ip), nlink++, iunlock; then nameiparent(new).
link(p) ==
  LET i == ip[p] IN
  /\ At(p, "link") /\ Lockable(i)
  /\ \/ type[i] = "dir" /\ Goto(p, "put") /\ UNCHANGED <<nlink, lp, ip, ref>>
     \/ /\ type[i] # "dir"
        /\ nlink' = [nlink EXCEPT ![i] = @ + 1]
        /\ lp' = Set(lp, p, i)
        /\ \E start \in {ROOTINO, cwd[p]} : ip' = Set(ip, p, start) /\ Refer(start)
        /\ path' = Set(path, p, newpath[p]) /\ pc' = Set(pc, p, "walk")
        /\ UNCHANGED <<op, newpath>>
  /\ UNCHANGED <<type, ent, dotdot, busy, trans, nx, fd, cwd, kern>>

\* ilock(dp), dirlink.
link_entry(p) ==
  LET d == ip[p]  n == Head(path[p]) IN
  /\ At(p, "link2") /\ Lockable(d)
  /\ IF dirlookup(d, n) # NoIno THEN Goto(p, "put") /\ UNCHANGED ent
     ELSE ent' = [ent EXCEPT ![d][n] = lp[p]] /\ Goto(p, "link3")
  /\ UNCHANGED <<type, nlink, dotdot, ref, busy, trans, ip, nx, lp, fd, cwd, kern>>

link_putdir(p) ==
  /\ At(p, "link3")
  /\ iput(ip[p])
  /\ ip' = Set(ip, p, lp[p]) /\ lp' = Set(lp, p, NoIno)
  /\ Goto(p, "put")
  /\ UNCHANGED <<nx, fd, cwd>>

\* Fault: nlink is not taken back.
link_bad_keep(p) ==
  /\ At(p, "linkbad") /\ Lockable(lp[p])
  /\ ip' = Set(ip, p, lp[p]) /\ lp' = Set(lp, p, NoIno)
  /\ Goto(p, "put")
  /\ UNCHANGED <<disk, ref, busy, trans, nx, fd, cwd, kern>>

\* No entry could be made: ilock(ip), nlink--, iunlockput.
link_bad(p) ==
  /\ At(p, "linkbad") /\ Lockable(lp[p])
  /\ nlink' = [nlink EXCEPT ![lp[p]] = @ - 1]
  /\ ip' = Set(ip, p, lp[p]) /\ lp' = Set(lp, p, NoIno)
  /\ Goto(p, "put")
  /\ UNCHANGED <<type, ent, dotdot, ref, busy, trans, nx, fd, cwd, kern>>

-----------------------------------------------------------------------------
Step(p) ==
  \/ begin_trans(p) \/ done(p) \/ close(p) \/ put_ip(p) \/ ilock_panic(p)
  \/ namex(p) \/ namex_next(p) \/ open(p) \/ chdir(p)
  \/ getcwd(p) \/ getcwd_parent(p) \/ getcwd_up(p)
  \/ create(p) \/ create_putdir(p) \/ create_old(p) \/ create_return(p) \/ create_open(p)
  \/ unlink(p) \/ unlink_erase(p) \/ unlink_putdir(p) \/ unlink_drop(p) \/ unlink_bad(p)
  \/ link(p) \/ link_entry(p) \/ link_putdir(p) \/ link_bad(p)

\* From a directory without links p goes on to another inode, or adds an entry.
Strays(p) ==
  LET d == ip[p] IN
  /\ d # NoIno /\ type[d] = "dir" /\ nlink[d] = 0
  /\ \/ nx'[p] \notin {NoIno, nx[p]}
     \/ \E n \in Names : ent[d][n] = NoIno /\ ent'[d][n] # NoIno

Next ==
  /\ \E p \in Procs :
       \/ \E o \in load.calls, w \in load.paths : syscall(p, o, w)
       \/ sys_close(p) \/ Step(p)
  /\ strayed' = (strayed \/ \E p \in Procs : Strays(p))
  /\ UNCHANGED load

Spec == Init /\ [][Next]_vars

-----------------------------------------------------------------------------
(* Properties. *)

Holding(v, i) == Cardinality({p \in Procs : v[p] = i})

\* ip->ref "tracks the number of in-memory pointers to the entry" (fs.c): no
\* call loses or duplicates a reference on any of its paths.
RefCounts ==
  \A i \in Inodes : ref[i] = Holding(ip, i) + Holding(nx, i) + Holding(lp, i)
                             + Holding(fd, i) + Holding(cwd, i)

\* An inode that somebody holds or that a directory names is allocated, even if
\* it was unlinked while it was looked up, opened or used as a directory.
NoDangling ==
  /\ \A i \in Inodes : ref[i] > 0 => type[i] # "free"
  /\ \A i \in Inodes, n \in Names : ent[i][n] # NoIno => type[ent[i][n]] # "free"
  /\ kern # "ilock: no type"

\* What a process keeps between its calls is allocated.
KeptAllocated ==
  \A p \in Procs : type[cwd[p]] # "free" /\ (fd[p] # NoIno => type[fd[p]] # "free")

Entries(i) == Cardinality({e \in Inodes \X Names : ent[e[1]][e[2]] = i})
Subdirs(i) == Cardinality({d \in Inodes : type[d] = "dir" /\ nlink[d] > 0 /\ dotdot[d] = i})

\* Between transactions nlink is "the number of links referring to" the inode
\* (fs.c): its directory entries, and the ".." of its subdirectories.  This is
\* so until a process works in a current directory that was removed: create
\* and namex do not look at the link count of a directory.
LinkCounts ==
  trans = None /\ ~strayed =>
    \A i \in Inodes \ {ROOTINO} : type[i] # "free" => nlink[i] = Entries(i) + Subdirs(i)

\* References are counted exactly, and an open file and a current directory are
\* allocated, whatever is removed; and everything that is held or named is,
\* until a process works in a directory that was removed.
InodesHeld == TypeOK /\ RefCounts /\ KeptAllocated /\ (strayed \/ NoDangling)

\* No deadlock, although unlink locks a directory before its child and getcwd a
\* child before its directory: while a process that has the transaction waits
\* for an inode, another one can go on, and does not need the transaction.
LocksResolve ==
  \A p \in Procs :
    kern = "up" /\ trans = p /\ (\E i \in Wants(p) : busy[i]) =>
      \E q \in Procs \ {p} : pc[q] \notin {"idle", "begin"} /\ \A i \in Wants(q) : ~busy[i]
=============================================================================
