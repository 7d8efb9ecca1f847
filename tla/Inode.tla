------------------------------- MODULE Inode --------------------------------
(***************************************************************************)
(* The inode cache and the directories of fs.c, with the system calls of   *)
(* sysfile.c that walk and change the tree: open, mkdir, link, unlink,     *)
(* chdir, and the use and release of an open file.  icache.lock protects   *)
(* single steps; the sleep lock of an inode is explicit, because a process *)
(* holds one while it waits for another.  A cache entry is identified with *)
(* the inode it holds: an inode with ref 0 has no entry.  The disk is what *)
(* a transaction sees of it through the buffer cache.                      *)
(***************************************************************************)
EXTENDS Naturals, FiniteSets, Sequences, KernelThread

CONSTANTS
  NoProc,
  NInum,        \* inodes on the disk; 1 is the root directory
  NINODE,       \* entries of the inode cache
  Name,         \* names of files, other than . and ..
  AbsPaths,     \* paths from the root that the programs use
  RelPaths,     \* and from the current directory
  LinkPaths,    \* pairs of paths from the root, for link()
  Calls         \* system calls they make

ASSUME InodeAssumption ==
  /\ NoProc \notin Proc /\ IsFiniteSet(Proc)
  /\ NInum \in Nat \ {0} /\ NINODE \in Nat
  /\ {".", ".."} \cap Name = {} /\ IsFiniteSet(Name)
  /\ AbsPaths \cup RelPaths \subseteq Seq(Name \cup {".", ".."})
  /\ LinkPaths \subseteq Seq(Name \cup {".", ".."}) \X Seq(Name \cup {".", ".."})
  /\ Calls \subseteq {"open", "creat", "mkdir", "unlink", "chdir"}

Inum == 1..NInum
Root == 1
Null == 0            \* no inode; the inum of a free directory entry
Elem == Name \cup {".", ".."}

VARIABLES
  dinode,       \* struct dinode: type and nlink
  entries,      \* contents of a directory
  ref, valid,   \* struct inode: reference count, is "inode" loaded?
  inode,        \*   type and nlink
  lock,         \*   holder of the sleep lock
  cwd, file,    \* of each process: current directory, an open file
  args,         \* local variables: the call, what is left of its path, the
                \*   second path of link(), the last element of a path
  dp, ip,       \*   directory (the walk of namex), and file
  puts, phase,  \* inodes to iput(), and how far the first of them is
  panicked

disk == <<dinode, entries>>
icache == <<ref, valid, inode, lock>>
owned == <<cwd, file>>
vars == <<disk, icache, owned, pc, args, dp, ip, puts, phase, panicked>>

PC == {"idle", "namex", "found", "parent", "exists", "create_new", "created",
       "unlink_ip", "unlink_bad", "unlinked", "link_exists", "link_bad"}

FreeInode == [type |-> "free", nlink |-> 0]

NoEntries == [e \in Elem |-> Null]

\* p is at "here", and no iput() it called is unfinished.
At(p, here) == pc[p] = here /\ puts[p] = <<>> /\ panicked = "no"

NoArgs == [call |-> "none", path |-> <<>>, new |-> <<>>, name |-> "."]

\* The system call is over, and its local variables with it.
Return(p) == Goto(p, "idle") /\ args' = [args EXCEPT ![p] = NoArgs]

Put(p, s) == puts' = [puts EXCEPT ![p] = s]

\* nameiparent() rather than namei().
WantsParent(p) == args[p].call \in {"creat", "mkdir", "unlink", "link2"}

-----------------------------------------------------------------------------
\* mkfs made the root directory; every process has it as current directory.
Init ==
  /\ dinode = [i \in Inum |-> IF i = Root THEN [type |-> "dir", nlink |-> 1]
                                          ELSE FreeInode]
  /\ entries = [i \in Inum |->
                  IF i = Root THEN [NoEntries EXCEPT !["."] = Root, ![".."] = Root]
                              ELSE NoEntries]
  /\ ref = [i \in Inum |-> IF i = Root THEN Cardinality(Proc) ELSE 0]
  /\ valid = [i \in Inum |-> FALSE]
  /\ inode = [i \in Inum |-> FreeInode]
  /\ lock = [i \in Inum |-> NoProc]
  /\ cwd = [p \in Proc |-> Root]
  /\ file = [p \in Proc |-> Null]
  /\ pc = [p \in Proc |-> "idle"]
  /\ args = [p \in Proc |-> NoArgs]
  /\ dp = [p \in Proc |-> Null]
  /\ ip = [p \in Proc |-> Null]
  /\ puts = [p \in Proc |-> <<>>]
  /\ phase = [p \in Proc |-> "lock"]
  /\ panicked = "no"

(***************************************************************************)
(* The inode layer.  A critical section of one inode's lock in which       *)
(* nothing else is waited for is one step; the lock is in the state where  *)
(* the holder takes another one, or waits in iput().                       *)
(***************************************************************************)
\* What ilock() finds in i once it has the lock.
Loaded(i) == IF valid[i] THEN inode[i] ELSE dinode[i]

LockPanic(i) ==
  IF ref[i] < 1 THEN "ilock"
  ELSE IF ~valid[i] /\ dinode[i].type = "free" THEN "ilock: no type" ELSE "no"

\* ilock(): wait for the lock, read the inode if necessary.
Ilock(i) ==
  /\ lock[i] = NoProc
  /\ valid' = [valid EXCEPT ![i] = TRUE]
  /\ panicked' = LockPanic(i)

Load(i) == inode' = [inode EXCEPT ![i] = Loaded(i)]

\* Mutant: a hit does not count the new reference.
IgetNoRef(i, held) ==
  /\ ref' = [ref EXCEPT ![i] = IF @ = 0 THEN 1 ELSE @]
  /\ valid' = [j \in Inum |-> j \in held \/ (valid[j] /\ (j # i \/ ref[i] > 0))]
  /\ panicked' = "no"

\* iget(): a hit counts one more reference, a miss takes a free entry, not
\* valid.  The step has locked the inodes in "held" before.
Iget(i, held) ==
  /\ ref' = [ref EXCEPT ![i] = @ + 1]
  /\ valid' = [j \in Inum |-> j \in held \/ (valid[j] /\ (j # i \/ ref[i] > 0))]
  /\ panicked' = IF \E j \in held : LockPanic(j) # "no" THEN "ilock: no type"
                 ELSE IF /\ ref[i] = 0
                         /\ Cardinality({j \in Inum : ref[j] > 0}) >= NINODE
                 THEN "iget: no inodes" ELSE "no"

\* ip->nlink = n; iupdate(ip)
Iupdate(i, n) ==
  LET x == [Loaded(i) EXCEPT !.nlink = n] IN
  /\ inode' = [inode EXCEPT ![i] = x]
  /\ dinode' = [dinode EXCEPT ![i] = x]

Unlocked(i) == [lock EXCEPT ![i] = NoProc]

\* iput(): "inode has no links and no other references".
LastRef(i) == valid[i] /\ inode[i].nlink = 0 /\ ref[i] = 1

\* iput(), with the sleep lock; the reference count is read before the inode
\* is truncated.
IputLock(p) ==
  LET i == Head(puts[p]) IN
  /\ puts[p] # <<>> /\ phase[p] = "lock" /\ panicked = "no"
  /\ lock[i] = NoProc
  /\ lock' = [lock EXCEPT ![i] = IF LastRef(i) THEN p ELSE NoProc]
  /\ phase' = [phase EXCEPT ![p] = IF LastRef(i) THEN "free" ELSE "unref"]
  /\ UNCHANGED <<disk, ref, valid, inode, owned, pc, args, dp, ip, puts, panicked>>

\* Mutant: the cached copy stays valid.
InvalidateNot(i) == UNCHANGED valid

\* ip->valid = 0
Invalidate(i) == valid' = [valid EXCEPT ![i] = FALSE]

\* itrunc(); ip->type = 0; iupdate(); ip->valid = 0; releasesleep()
IputFree(p) ==
  LET i == Head(puts[p]) IN
  /\ puts[p] # <<>> /\ phase[p] = "free" /\ panicked = "no"
  /\ entries' = [entries EXCEPT ![i] = NoEntries]
  /\ inode' = [inode EXCEPT ![i] = FreeInode]
  /\ dinode' = [dinode EXCEPT ![i] = FreeInode]
  /\ Invalidate(i)
  /\ lock' = Unlocked(i)
  /\ phase' = [phase EXCEPT ![p] = "unref"]
  /\ UNCHANGED <<ref, owned, pc, args, dp, ip, puts, panicked>>

IputUnref(p) ==
  /\ puts[p] # <<>> /\ phase[p] = "unref" /\ panicked = "no"
  /\ ref' = [ref EXCEPT ![Head(puts[p])] = @ - 1]
  /\ Put(p, Tail(puts[p]))
  /\ phase' = [phase EXCEPT ![p] = "lock"]
  /\ UNCHANGED <<disk, valid, inode, lock, owned, pc, args, dp, ip, panicked>>

\* The inode that directory d has under the name e; dirlookup() reads the
\* entries with d locked.
Dirlookup(d, e) == entries[d][e]

\* A path is the sequence of its elements; skipelem() takes off the first.
Skipelem(s) == Head(s)

(***************************************************************************)
(* namex(): one directory after the other, never two locks.  The reference *)
(* to the next directory is taken before that to the last one is dropped.  *)
(***************************************************************************)
\* The system calls begin with namei() or nameiparent(): iget(root) or
\* idup(cwd).
Begin(p, what, s, t, from) ==
  /\ At(p, "idle")
  /\ what \in {"open", "creat"} => file[p] = Null   \* bound: one open file
  /\ args' = [args EXCEPT ![p].call = what, ![p].path = s, ![p].new = t]
  /\ dp' = [dp EXCEPT ![p] = from]
  /\ Iget(from, {})
  /\ Goto(p, "namex")
  /\ UNCHANGED <<disk, inode, lock, owned, ip, puts, phase>>

\* namex() returns 0; p has nothing but d to put.
Fail(p, d) ==
  /\ IF args[p].call = "link2" THEN Goto(p, "link_bad") /\ UNCHANGED args
                               ELSE Return(p)
  /\ Put(p, <<d>>)
  /\ dp' = [dp EXCEPT ![p] = Null]

\* The path is used up: an error for nameiparent().
NamexEnds(p) ==
  /\ At(p, "namex") /\ args[p].path = <<>>
  /\ IF WantsParent(p) THEN Fail(p, dp[p])
                       ELSE Goto(p, "found") /\ UNCHANGED <<args, puts, dp>>
  /\ UNCHANGED <<disk, icache, owned, ip, phase, panicked>>

\* One path element: ilock(ip), dirlookup(), iunlock(ip), iput(ip).
NamexStep(p) ==
  LET d == dp[p]
      isdir == Loaded(d).type = "dir"
      last == WantsParent(p) /\ Len(args[p].path) = 1
      next == Dirlookup(d, Skipelem(args[p].path))
  IN
  /\ At(p, "namex") /\ args[p].path # <<>>
  /\ lock[d] = NoProc
  /\ \/ /\ isdir /\ last
        /\ Ilock(d)
        /\ args' = [args EXCEPT ![p].name = Skipelem(args[p].path), ![p].path = <<>>]
        /\ Goto(p, "parent")
        /\ UNCHANGED <<ref, dp, puts>>
     \/ /\ isdir /\ ~last /\ next # Null
        /\ Iget(next, {d})
        /\ args' = [args EXCEPT ![p].path = Tail(@)]
        /\ dp' = [dp EXCEPT ![p] = next]
        /\ Put(p, <<d>>)
        /\ Goto(p, "namex")
     \/ /\ ~isdir \/ (~last /\ next = Null)
        /\ Ilock(d)
        /\ Fail(p, d)
        /\ UNCHANGED ref
  /\ Load(d)
  /\ UNCHANGED <<disk, lock, owned, ip, phase>>

(***************************************************************************)
(* sys_open() without O_CREATE, sys_chdir(); use and close of a file.      *)
(***************************************************************************)
\* open() ends with the file in p's table or, if it is a directory and not
\* O_RDONLY or if there is no file or descriptor for it, with an iput().
Opened(p, i, ok) ==
  /\ file' = [file EXCEPT ![p] = IF ok THEN i ELSE @]
  /\ Put(p, IF ok THEN <<>> ELSE <<i>>)
  /\ Return(p)

Open(p, ok) ==
  /\ At(p, "found") /\ args[p].call = "open"
  /\ Ilock(dp[p]) /\ Load(dp[p])
  /\ Opened(p, dp[p], ok)
  /\ dp' = [dp EXCEPT ![p] = Null]
  /\ UNCHANGED <<disk, ref, lock, cwd, ip, phase>>

Chdir(p) ==
  LET i == dp[p]
      ok == Loaded(i).type = "dir"
  IN
  /\ At(p, "found") /\ args[p].call = "chdir"
  /\ Ilock(i) /\ Load(i)
  /\ cwd' = [cwd EXCEPT ![p] = IF ok THEN i ELSE @]
  /\ Put(p, <<IF ok THEN cwd[p] ELSE i>>)
  /\ dp' = [dp EXCEPT ![p] = Null]
  /\ Return(p)
  /\ UNCHANGED <<disk, ref, lock, file, ip, phase>>

\* fileread(), filewrite() and filestat() lock the inode of the open file.
UseFile(p) ==
  /\ At(p, "idle") /\ file[p] # Null
  /\ Ilock(file[p]) /\ Load(file[p])
  /\ UNCHANGED <<disk, ref, lock, owned, pc, args, dp, ip, puts, phase>>

CloseFile(p) ==
  /\ At(p, "idle") /\ file[p] # Null
  /\ Put(p, <<file[p]>>)
  /\ file' = [file EXCEPT ![p] = Null]
  /\ UNCHANGED <<disk, icache, cwd, pc, args, dp, ip, phase, panicked>>

(***************************************************************************)
(* create(), for sys_open() with O_CREATE and sys_mkdir()                  *)
(***************************************************************************)
\* ilock(dp); dirlookup() finds the name; iunlockput(dp)
CreateFound(p) ==
  LET d == dp[p]
      i == Dirlookup(d, args[p].name)
  IN
  /\ At(p, "parent") /\ args[p].call \in {"creat", "mkdir"} /\ i # Null
  /\ lock[d] = NoProc
  /\ Iget(i, {d}) /\ Load(d)
  /\ ip' = [ip EXCEPT ![p] = i]
  /\ Put(p, <<d>>)
  /\ dp' = [dp EXCEPT ![p] = Null]
  /\ Goto(p, "exists")
  /\ UNCHANGED <<disk, lock, owned, args, phase>>

\* open(O_CREATE) of a file that exists opens it; all else is an error.
CreateExists(p, ok) ==
  LET i == ip[p] IN
  /\ At(p, "exists")
  /\ ok => args[p].call = "creat" /\ Loaded(i).type = "file"
  /\ Ilock(i) /\ Load(i)
  /\ Opened(p, i, ok)
  /\ ip' = [ip EXCEPT ![p] = Null]
  /\ UNCHANGED <<disk, ref, lock, cwd, dp, phase>>

\* ilock(dp); the name is new; ialloc() takes the first free inode.
Ialloc(p) ==
  LET d == dp[p]
      free == {i \in Inum : dinode[i].type = "free"}
      i == CHOOSE j \in free : \A k \in free : j <= k
  IN
  /\ At(p, "parent") /\ args[p].call \in {"creat", "mkdir"}
  /\ Dirlookup(d, args[p].name) = Null
  /\ lock[d] = NoProc
  /\ lock' = [lock EXCEPT ![d] = p]
  /\ Load(d)
  /\ IF free = {}
     THEN /\ panicked' = "ialloc: no inodes"
          /\ UNCHANGED <<dinode, ref, valid, ip>>
     ELSE /\ dinode' = [dinode EXCEPT ![i] =
                          [type |-> IF args[p].call = "mkdir" THEN "dir" ELSE "file",
                           nlink |-> 0]]
          /\ Iget(i, {d})
          /\ ip' = [ip EXCEPT ![p] = i]
  /\ Goto(p, "create_new")
  /\ UNCHANGED <<entries, owned, args, dp, puts, phase>>

\* ilock(ip), links, entries; then iunlockput(dp) with ip still locked.
CreateNew(p) ==
  LET i == ip[p]
      d == dp[p]
      isdir == args[p].call = "mkdir"
      x == [Loaded(i) EXCEPT !.nlink = 1]
      y == [inode[d] EXCEPT !.nlink = IF isdir THEN @ + 1 ELSE @]
  IN
  /\ At(p, "create_new")
  /\ Ilock(i)
  /\ lock' = [lock EXCEPT ![i] = p, ![d] = NoProc]
  /\ inode' = [inode EXCEPT ![i] = x, ![d] = y]
  /\ dinode' = [dinode EXCEPT ![i] = x, ![d] = y]
  /\ entries' = [entries EXCEPT ![d][args[p].name] = i,
                   ![i] = IF isdir THEN [@ EXCEPT !["."] = i, ![".."] = d] ELSE @]
  /\ Put(p, <<d>>)
  /\ dp' = [dp EXCEPT ![p] = Null]
  /\ Goto(p, "created")
  /\ UNCHANGED <<ref, owned, args, ip, phase>>

\* sys_mkdir() puts the inode.
Created(p, ok) ==
  /\ At(p, "created")
  /\ ok => args[p].call = "creat"
  /\ Opened(p, ip[p], ok)
  /\ lock' = Unlocked(ip[p])
  /\ ip' = [ip EXCEPT ![p] = Null]
  /\ UNCHANGED <<disk, ref, valid, inode, cwd, dp, phase, panicked>>

(***************************************************************************)
(* sys_unlink()                                                            *)
(***************************************************************************)
\* ilock(dp); dirlookup().  The lock is kept if there is an entry.
UnlinkLookup(p) ==
  LET d == dp[p]
      i == Dirlookup(d, args[p].name)
  IN
  /\ At(p, "parent") /\ args[p].call = "unlink"
  /\ lock[d] = NoProc
  /\ Load(d)
  /\ IF args[p].name \in {".", ".."} \/ i = Null
     THEN Ilock(d) /\ Fail(p, d) /\ UNCHANGED <<ref, lock, ip>>
     ELSE /\ Iget(i, {d})
          /\ ip' = [ip EXCEPT ![p] = i]
          /\ lock' = [lock EXCEPT ![d] = p]
          /\ Goto(p, "unlink_ip")
          /\ UNCHANGED <<args, puts, dp>>
  /\ UNCHANGED <<disk, owned, phase>>

Empty(i) == \A e \in Name : entries[i][e] = Null

\* ilock(ip) with dp locked.  A directory that is not empty stays; otherwise
\* the entry is cleared, and iunlockput(dp) follows with ip still locked.
UnlinkIp(p) ==
  LET i == ip[p]
      d == dp[p]
      isdir == Loaded(i).type = "dir"
      x == [inode[d] EXCEPT !.nlink = IF isdir THEN @ - 1 ELSE @]
  IN
  /\ At(p, "unlink_ip")
  /\ lock[i] = NoProc
  /\ valid' = [valid EXCEPT ![i] = TRUE]
  /\ IF isdir /\ ~Empty(i)
     THEN /\ Load(i)
          /\ Put(p, <<i>>)
          /\ ip' = [ip EXCEPT ![p] = Null]
          /\ Goto(p, "unlink_bad")
          /\ UNCHANGED <<disk, lock, dp>>
     ELSE /\ lock' = [lock EXCEPT ![i] = p, ![d] = NoProc]
          /\ entries' = [entries EXCEPT ![d][args[p].name] = Null]
          /\ inode' = [inode EXCEPT ![i] = Loaded(i), ![d] = x]
          /\ dinode' = [dinode EXCEPT ![d] = x]
          /\ Put(p, <<d>>)
          /\ dp' = [dp EXCEPT ![p] = Null]
          /\ Goto(p, "unlinked")
          /\ UNCHANGED ip
  /\ panicked' = IF LockPanic(i) = "no" /\ Loaded(i).nlink < 1
                 THEN "unlink: nlink < 1" ELSE LockPanic(i)
  /\ UNCHANGED <<ref, owned, args, phase>>

\* bad: iunlockput(dp)
UnlinkBad(p) ==
  /\ At(p, "unlink_bad")
  /\ lock' = Unlocked(dp[p])
  /\ Fail(p, dp[p])
  /\ UNCHANGED <<disk, ref, valid, inode, owned, ip, phase, panicked>>

\* ip->nlink--; iupdate(ip); iunlockput(ip)
Unlinked(p) ==
  LET i == ip[p] IN
  /\ At(p, "unlinked")
  /\ Iupdate(i, inode[i].nlink - 1)
  /\ lock' = Unlocked(i)
  /\ Put(p, <<i>>)
  /\ ip' = [ip EXCEPT ![p] = Null]
  /\ Return(p)
  /\ UNCHANGED <<entries, ref, valid, owned, dp, phase, panicked>>

(***************************************************************************)
(* sys_link(): count first, then the entry; on failure count back.         *)
(***************************************************************************)
\* Mutant: the new link is not counted.
OneMoreNot(n) == n

\* ip->nlink++
OneMore(n) == n + 1

\* The second walk, nameiparent(new), begins in the same step.
LinkCount(p) ==
  LET i == dp[p] IN
  /\ At(p, "found") /\ args[p].call = "link"
  /\ Loaded(i).type # "dir"
  /\ lock[i] = NoProc
  /\ Iupdate(i, OneMore(Loaded(i).nlink))
  /\ Iget(Root, {i})
  /\ ip' = [ip EXCEPT ![p] = i]
  /\ dp' = [dp EXCEPT ![p] = Root]
  /\ args' = [args EXCEPT ![p].call = "link2", ![p].path = args[p].new,
                          ![p].new = <<>>]
  /\ Goto(p, "namex")
  /\ UNCHANGED <<entries, lock, owned, puts, phase>>

\* A directory cannot be linked.
LinkDirectory(p) ==
  /\ At(p, "found") /\ args[p].call = "link"
  /\ Loaded(dp[p]).type = "dir"
  /\ Ilock(dp[p]) /\ Load(dp[p])
  /\ Fail(p, dp[p])
  /\ UNCHANGED <<disk, ref, lock, owned, ip, phase>>

\* ilock(dp); dirlink(dp, name, ip); iunlockput(dp); iput(ip).  If the name
\* exists, dirlink() puts its inode with dp locked.
LinkEntry(p) ==
  LET d == dp[p]
      i == Dirlookup(d, args[p].name)
  IN
  /\ At(p, "parent") /\ args[p].call = "link2"
  /\ lock[d] = NoProc
  /\ Load(d)
  /\ IF i # Null
     THEN /\ Iget(i, {d})
          /\ lock' = [lock EXCEPT ![d] = p]
          /\ Put(p, <<i>>)
          /\ Goto(p, "link_exists")
          /\ UNCHANGED <<entries, args, dp, ip>>
     ELSE /\ Ilock(d)
          /\ entries' = [entries EXCEPT ![d][args[p].name] = ip[p]]
          /\ Put(p, <<d, ip[p]>>)
          /\ dp' = [dp EXCEPT ![p] = Null]
          /\ ip' = [ip EXCEPT ![p] = Null]
          /\ Return(p)
          /\ UNCHANGED <<ref, lock>>
  /\ UNCHANGED <<dinode, owned, phase>>

\* iunlockput(dp); goto bad
LinkExists(p) ==
  /\ At(p, "link_exists")
  /\ lock' = Unlocked(dp[p])
  /\ Fail(p, dp[p])
  /\ UNCHANGED <<disk, ref, valid, inode, owned, ip, phase, panicked>>

\* bad: count back; iunlockput(ip)
LinkBad(p) ==
  LET i == ip[p] IN
  /\ At(p, "link_bad")
  /\ Ilock(i)
  /\ Iupdate(i, Loaded(i).nlink - 1)
  /\ Put(p, <<i>>)
  /\ ip' = [ip EXCEPT ![p] = Null]
  /\ Return(p)
  /\ UNCHANGED <<entries, ref, lock, owned, dp, phase>>

-----------------------------------------------------------------------------
\* The machine has stopped.
Halted == panicked # "no" /\ UNCHANGED vars

Next ==
  \/ \E p \in Proc :
       \/ \E what \in Calls, s \in AbsPaths : Begin(p, what, s, <<>>, Root)
       \/ \E what \in Calls, s \in RelPaths : Begin(p, what, s, <<>>, cwd[p])
       \/ \E s \in LinkPaths : Begin(p, "link", s[1], s[2], Root)
       \/ IputLock(p) \/ IputFree(p) \/ IputUnref(p)
       \/ NamexEnds(p) \/ NamexStep(p)
       \/ Chdir(p) \/ UseFile(p) \/ CloseFile(p)
       \/ CreateFound(p) \/ Ialloc(p) \/ CreateNew(p)
       \/ \E ok \in BOOLEAN : Open(p, ok) \/ CreateExists(p, ok) \/ Created(p, ok)
       \/ UnlinkLookup(p) \/ UnlinkIp(p) \/ UnlinkBad(p) \/ Unlinked(p)
       \/ LinkCount(p) \/ LinkDirectory(p) \/ LinkEntry(p) \/ LinkExists(p)
       \/ LinkBad(p)
  \/ Halted

Spec == Init /\ [][Next]_vars

-----------------------------------------------------------------------------
TypeOK ==
  /\ dinode \in [Inum -> [type : {"free", "file", "dir"}, nlink : Nat]]
  /\ inode \in [Inum -> [type : {"free", "file", "dir"}, nlink : Nat]]
  /\ entries \in [Inum -> [Elem -> Inum \cup {Null}]]
  /\ ref \in [Inum -> Nat] /\ valid \in [Inum -> BOOLEAN]
  /\ lock \in [Inum -> Proc \cup {NoProc}]
  /\ cwd \in [Proc -> Inum] /\ file \in [Proc -> Inum \cup {Null}]
  /\ pc \in [Proc -> PC]
  /\ \A p \in Proc :
       /\ args[p].call \in Calls \cup {"none", "link", "link2"} /\ args[p].name \in Elem
       /\ args[p].path \in Seq(Elem) /\ args[p].new \in Seq(Elem)
  /\ dp \in [Proc -> Inum \cup {Null}] /\ ip \in [Proc -> Inum \cup {Null}]
  /\ \A p \in Proc : puts[p] \in Seq(Inum)
  /\ phase \in [Proc -> {"lock", "free", "unref"}]

\* Pointers to the cache entry of i.
Pointers(i) ==
  Cardinality({p \in Proc : cwd[p] = i}) + Cardinality({p \in Proc : file[p] = i})
  + Cardinality({p \in Proc : dp[p] = i}) + Cardinality({p \in Proc : ip[p] = i})
  + Cardinality({c \in Proc \X {1, 2} : c[2] <= Len(puts[c[1]]) /\ puts[c[1]][c[2]] = i})

(***************************************************************************)
(* "ip->ref tracks the number of in-memory pointers to the entry"          *)
(* (fs.c:125), on every path of namex and of the calls that fail half way: *)
(* no entry leaks, and none is recycled under somebody (iget, iput).       *)
(***************************************************************************)
RefTracksPointers == \A i \in Inum : ref[i] = Pointers(i)

Entries(i) ==
  {x \in Inum \X Name : dinode[x[1]].type = "dir" /\ entries[x[1]][x[2]] = i}

(***************************************************************************)
(* An inode has at least as many links as directory entries, and what is   *)
(* linked, open or a current directory is allocated: iput() never frees an *)
(* inode that somebody can still reach, although it decides on a count it  *)
(* read earlier, and no panic of ilock() or unlink is reached; those on a  *)
(* full disk or cache are the code's way to say so (iput, ilock, sys_link, *)
(* sys_unlink, create).                                                    *)
(***************************************************************************)
NothingInUseIsFree ==
  /\ panicked \in {"no", "ialloc: no inodes", "iget: no inodes"}
  /\ \A i \in Inum : Cardinality(Entries(i)) <= dinode[i].nlink
  /\ \A p \in Proc : \A i \in {cwd[p], file[p]} \ {Null} : dinode[i].type # "free"

(***************************************************************************)
(* "i-node cache is write-through" (fs.c:219), and a freed inode that is   *)
(* allocated again while its old entry is still referenced is read anew:   *)
(* a valid entry is what the disk says (iupdate, iput, ialloc, ilock).     *)
(***************************************************************************)
CacheIsWriteThrough == \A i \in Inum : valid[i] => inode[i] = dinode[i]

(***************************************************************************)
(* "The separation also helps avoid deadlock" (fs.c:150): no processes     *)
(* wait for each other's inode locks, and none for its own (ilock, iput).  *)
(***************************************************************************)
WaitsFor(p) ==
  IF puts[p] # <<>> THEN IF phase[p] = "lock" THEN lock[Head(puts[p])] ELSE NoProc
  ELSE CASE pc[p] \in {"parent", "found"} -> lock[dp[p]]
         [] pc[p] = "namex" /\ args[p].path # <<>> -> lock[dp[p]]
         [] pc[p] \in {"exists", "create_new", "unlink_ip", "link_bad"} -> lock[ip[p]]
         [] OTHER -> NoProc

NoDeadlock ==
  \A p \in Proc :
    LET q == WaitsFor(p) IN q # NoProc => q # p /\ WaitsFor(q) # p
=============================================================================
