# xv6 in TLA+

A model of the xv6 kernel under `src/Xv6` (the x86 teaching kernel, with a
priority scheduler, `chpr`, `cps` and user and group identities added): its
locks, process table, memory, file system, pipes and console as TLA+ modules,
TLC runs over small instances, and machine-checked proofs for every value of the
constants of most of them.

## The system

xv6 is a monolithic kernel on a small multiprocessor. Concurrency comes from
three places: several CPUs execute kernel code at once, a timer interrupt
preempts kernel code wherever no spin lock is held, and a kernel thread that
waits (for a child, a disk block, a buffer, a pipe, log space) gives its CPU to
another. Everything is shared memory under spin locks and sleep locks; only the
disk survives a crash.

| component | state | operations | what is hard | what makes it correct |
|---|---|---|---|---|
| spin locks (`spinlock.c`) | `locked`, `cpu` of a lock; `ncli`, `intena` of a CPU | acquire, release, holding, pushcli, popcli | unsynchronised reads in `holding`; interrupts between any two instructions | exclusion, no self-deadlock with a handler, no false panic, the interrupt flag comes back |
| process table and scheduler (`proc.c`, `trap.c`) | `ptable`, `c->proc`, `nextpid` | fork, exit, wait, kill, yield, sched, scheduler, chpr | `ptable.lock` crosses `swtch`; fork works outside the lock; lost wakeups | one CPU per process, every zombie can be reaped and is noticed, slots and stacks have one owner, runnable processes run |
| sleep locks, buffer cache, disks (`sleeplock.c`, `bio.c`, `ide.c`, `memide.c`) | buffers in LRU order, flags, `idequeue` | bget, bread, bwrite, brelse, iderw, ideintr | lock hand-over between `bcache.lock` and the buffer's lock; interrupt against caller | one holder per buffer, one buffer per block, readers see the latest contents, requests are answered |
| log (`log.c`) | `struct log`, header and log blocks on disk | begin_op, log_write, end_op, commit, recovery | group commit of concurrent operations, crashes, pinned buffers, space | transactions are atomic and durable, the log never overflows, sleepers are woken |
| inodes and directories (`fs.c`, `sysfile.c`) | inode cache, `dinode`s, directory entries, current directories | iget, ilock, iput, ialloc, namex, create, link, unlink, chdir | reference counts against link counts, sleep locks of two inodes, reuse of a freed inode | nothing in use is freed, the cache is write-through, references are exact |
| blocks and file contents (`fs.c`, `file.c`, `mkfs.c`) | bitmap, `dinode` sizes and block numbers, data blocks, offsets | mkfs; balloc, bfree, bmap, itrunc, readi, writei, fileread, filewrite | several files allocate at once, writes cut into transactions, the indirect block | a file is a flat sequence of bytes, a block has one owner, a chunk fits its transaction |
| file table (`file.c`, `sysfile.c`) | `ftable`, `p->ofile` | open, pipe, dup, close, fork, exit | failures half way, work after the lock is dropped | reference counts are exact, nothing leaks, no descriptor outlives its object |
| pipes (`pipe.c`) | ring, `nread`, `nwrite`, open ends | pipewrite, piperead, pipeclose | several sleepers on two channels, wrapping counters, close against use | bytes come out in order, nobody is stranded, freed once |
| memory (`kalloc.c`, `vm.c`, `exec.c`, `syscall.c`) | free list, page directories, `sz`, `%cr3` | sbrk, fork, exec, exit, wait; argptr, fetchint, fetchstr | out of memory half way, addresses that wrap, a directory freed while it is loaded | no page is leaked or shared, `sz` is what is mapped, checked pointers are mapped |
| console and clock (`console.c`, `trap.c`, `sysproc.c`) | input ring, cursor, `ticks` | consoleintr, consoleread, consolewrite, cprintf, sys_sleep | `sleep()` hands over from one lock to another while an interrupt wants to wake; ring full, editing keys, wrapping ticks | a line is delivered once and whole, no wakeup is lost |
| identities (`proc.c`, `sysproc.c`) | uid, gid | getuid, setuid, suid | parent read without the lock | only a parent's identity is taken |

Calls go down the stack: system calls use file table, inodes, log, buffer cache
and disk; all of them use `sleep`/`wakeup` of the process table, and everything
uses spin locks. Interrupts go up: timer to `yield`, disk to `ideintr`.

## Modules

Every module is one component with its own state; an action is a stretch of
code between two points where another process can intervene (a lock given up, a
sleep, an unlocked access). Definitions carry the names of the C functions, and
`PROJECT.json` gives the lines of each. Definitions whose comment begins with
*Mutant* are deliberate errors: replacing the following definition by one of
them breaks a property, which shows that the property depends on that code.

* `Spinlock` – one action per instruction or access of `acquire` and `release`.
  Each CPU has a thread and at most one interrupt handler on top of it; the
  constant `Rank` is the kernel's lock order. `lk->cpu` is read by `holding()`
  without synchronisation, as in the code.
* `Proc` – `ptable.lock` is explicit because `sched()` carries it across
  `swtch()`. `scan` and `HighP` are the outer and inner loops of `scheduler()`.
  `fork` is four steps, of which the middle two run without the lock; `kalloc` and
  `copyuvm` may fail. `exec` appears by its unlocked write of the priority.
* `Log`, with `AtomicDisk` – the disk is `home`, `logblk` and `head`. A block
  write is atomic (one sector). `Recycle` is `bget` taking the buffer of a clean
  block. `Crash` is possible before and after every disk write, in recovery
  too. `AtomicDisk` is what the file system is promised: a disk on which the
  writes of a group of operations appear at once. `Log` instantiates it with a
  mapping in which the commit point is the write of the header. The size of the
  log is any member of `LogSizes`.
* `BufferCache` – `bget`'s two loops over the LRU list, the sleep lock of a
  buffer, the IDE queue and its interrupt. Reads of `BadBlocks` fail. `memdisk`
  chooses at the start between `ide.c` and the `iderw` of `memide.c`, which is
  done at once. `latest` is a history variable: the last contents anybody wrote
  to a block.
* `Inode` – the inode cache, the directories and the system calls on them. A
  cache entry is identified with its inode. A critical section of one inode lock
  in which nothing else is waited for is one step; a lock is in the state where
  its holder waits for another lock, which `create`, `unlink` and `dirlink` do.
  `iput()` is three steps (lock and decide; truncate and free; count down), since
  `ialloc` can reuse the inode between the last two. File contents are left to
  `FileData`.
* `FileData`, with `FlatFile` – `mkfs` builds the image step by step, then
  processes read, write and truncate. A block has `BSIZE` cells that hold a byte
  or a block number. A sleep lock of an inode is held over a chunk of
  `filewrite`, a `fileread` or an `itrunc`, each block of which is a step, and
  `balloc` and `bfree` interleave under the lock of the bitmap's buffer.
  `FlatFile` is the promise: a file is one sequence of bytes, an open file one
  offset, and a chunk moves both at once. The mapping shows a chunk as written
  when it starts.
* `FileTable` – `ftable.lock` is held for single steps. Pipes and inodes count as
  resources. `pipealloc` and `sys_pipe` with all of their error paths are here.
  `OpenFile` has the processes and the entries of `ftable.file` that `FileTable`
  and `FileData` declare in common.
* `Pipe`, with `Fifo` – one pipe and its readers and writers; `p->lock` is held
  from `acquire` to the next `sleep` or `release`, so such a stretch is one
  step. The counters wrap at `UINT`. `Fifo` is the promise, a bounded queue.
  `KernelThread` has the processes and program counters that `Pipe` and
  `Inode` declare in common.
* `VirtualMemory` – a page directory is a record of its page tables and of the
  pages they map. Each page that `allocuvm` or `copyuvm` takes and maps is two
  steps (`kalloc`, then `mappages`, which may need a table), since other
  processes allocate in between and either may fail. `exec` goes segment by
  segment up to the switch and the `freevm` of the old directory. `cr3` and
  `stale` are the directory and the outdated translations of the processor that
  runs a process. `lost` collects pages no pointer leads to any more.
* `Console` – the input ring, the cursor and the clock, with `cons.lock`,
  `tickslock` and `ptable.lock` explicit: `sleep()` is three steps (take
  `ptable.lock`, give up the caller's lock, switch away), and `wakeup()` in the
  two interrupt handlers waits for `ptable.lock`. The part of the ring between
  `r` and `w` implements `Fifo`. `^P` calls `procdump`, whose `cprintf`
  competes for `cons.lock` with `consolewrite`.

`sleep(chan, lk)` is atomic in the other modules that use it: `sleep()` takes
`ptable.lock` before it releases `lk`, and `wakeup()` needs `ptable.lock`;
`NoLostWakeup` of `Console` checks the hand-over in detail. The `MC*` modules
only add symmetry sets and values of constants.

## Runs

All runs explore the complete state space of their instance.

| run | instance | checks |
|---|---|---|
| `spinlock` | 2 CPUs, 2 locks, a handler per CPU | `MutualExclusion`, `InterruptsOffWhileHolding`, `NoPanic`, `FlagRestored` |
| `proc_safety` | 2 CPUs, 3 slots, pids to 3; fork, exit, wait, kill, faults, chpr, exec | `OneCpuPerProcess`, `ParentAlive`, `NoLostExit`, `ResourcesOwned`, `IntenaFollowsThread`, `HighestPriorityRuns` |
| `proc_liveness` | 1 CPU, 3 slots, equal priorities, fair | `RunnableRuns`, `WaitReturns`, `KilledExits` |
| `log_crash` | 2 processes, operations of 2 blocks, 3 blocks, logs with room for 1 and for 2 operations, 2 crashes | `CommitIsDurable`, `SleeperHasWaker`, `NoPanic`, `AtomicTransactions` (refinement of `AtomicDisk`) |
| `pipe` | 3 processes, ring of 2, counters modulo 4, requests to 2 bytes, a kill | `NoStrandedSleeper`, `PipeIsFifo` (refinement of `Fifo`) |
| `buffer_cache` | 2 processes, 3 buffers, 4 blocks of which one cannot be read, 1 pinned by the log, both disk drivers | `ExclusiveBuffers`, `ReaderSeesLatest`, `SleepersHaveWakers` |
| `file_table` | 2 processes, 3 files, 3 descriptors each, 1 pipe | `RefIsExact`, `PipeLifetime` |
| `inode` | 2 processes, root and 2 inodes, paths `/a`, `a` and links from `/a/a` | `RefTracksPointers`, `NothingInUseIsFree`, `CacheIsWriteThrough` |
| `virtual_memory` | 2 processes, 13 pages, 6 pages of user addresses in 3 tables, addresses modulo 24 | `PagesConserved`, `SizeIsMapped`, `LoadedDirectoryLive`, `ArgsMapped` |
| `console` | 2 processes, ring of 2, counters and ticks modulo 4, screen of 2 by 2 | `RingMovesOn`, `NoLostWakeup`, `CursorOnScreen`, `EndOfFileOnce`, `FinishedIsFifo` (refinement of `Fifo`) |
| `file_data` | 2 processes, 3 files of up to 3 blocks of 2 bytes (1 direct, 2 indirect), 23 blocks, two open files | `BlocksAccounted`, `InodeSaved`, `NoPanic`, `FilesAreFlat` (refinement of `FlatFile`) |
| `inode_deadlock` | 2 processes, `open(O_CREATE)` and `unlink` of one name | `NoDeadlock`, which fails: see Findings |

What the runs show, beyond the names:

* The locks, the process table and the waits hold up: no schedule of the
  instances runs a process twice, loses a zombie, an exit or a wakeup, or leaves
  a sleeper without somebody who will wake it.
* Whatever crashes, the disk after recovery has all or none of a transaction;
  whatever else happens, files are flat sequences of bytes, pipes and finished
  console lines are queues.
* Whatever fails half way (fork, exec, sbrk, pipe, open, link) gives back what it
  took, with the exceptions under Observations.

Why the bounds are enough for the cases of interest:

* Two CPUs and three process slots give a parent, a child and init, so that
  parent and child can exit at once and a slot is reused; a third runnable
  process is there for the priority search. `MaxPid` bounds the processes
  created, not their steps; `Pids` and `Priorities` are the arguments of kill
  and chpr.
* Two operations suffice for a group commit with a third `begin_op` of a thread
  that has finished; in the smaller log one of the two has to wait. Two crashes
  allow one in the middle of the recovery from the other. `OpBlocks <
  MAXOPBLOCKS` is a premise of `NoPanic`, see Observations.
* A ring of two with counters modulo four wraps after two fills; the code's
  constants (512 or 128, and 2^32) have the same divisibility, which
  `PipeAssumption` and `ConsoleAssumption` require. One kill is enough for a
  killed writer and for a killed reader.
* Three buffers for two processes and one pinned block is the least number for
  which `bget` always finds one: that it does not panic (in `ExclusiveBuffers`)
  says no more than that.
* Three inodes give a directory with a file in it, both of which can be removed,
  reused, open or a current directory. One name is enough for two levels, since
  `a` relative to `/a` is `/a/a`. The paths of the run do not contain `..`, see
  Observations. One open file per process is a bound of `Begin`.
* 13 pages are too few for two processes that both run the larger program, so
  that every allocation of fork, exec and sbrk fails in some schedule. The programs have
  two segments, one of which lies below the other, or an error exec must find
  (alignment, file longer than memory, end that wraps).
* A sleep of -1, in an unsigned comparison the longest, and ticks modulo four
  make the clock wrap during a sleep.
* A file of three blocks reaches through the direct into the indirect block; a
  length of five starts at even and odd offsets, takes three chunks, and runs
  into the largest file. 23 blocks are the least that hold every file at its
  largest (`RoomForAll`). `LayoutAssumption` says what `mkfs` needs to hold.

`pipe`, `virtual_memory` and the two inode runs do not check deadlock: processes
may have exited, or wait for input that no one is going to write, or (in the
inode runs) be in the deadlock under Findings.

### Fairness

Only `proc_liveness` needs it. A CPU keeps executing (weak fairness of the
scheduler loop). Ticks are strongly fair, because one that finds interrupts off
stays pending; a kernel step of a process is strongly fair, because a process
preempted again and again executes its instructions between two ticks. User
programs owe nothing.

All other modules state safety only; that a sleeper has somebody who will wake
it is there an invariant (`SleeperHasWaker`, `SleepersHaveWakers`,
`NoStrandedSleeper`, `NoLostWakeup`), which needs no fairness.

## Proofs

Eight modules `X_proofs` prove properties of the module `X` with TLAPS, for
every value of the constants that the `ASSUME` of `X` admits (`PipeInode_proofs`
of both `Pipe` and `Inode`, the two things a `struct file` leads to, and
`Files_proofs` of both `FileTable` and `FileData`, who shares a `struct file` and
what is read and written through it). Every invariant and every action property
the runs check is a theorem, and three of the four refinements are.

| module | theorems |
|---|---|
| `Spinlock_proofs` | `MutualExclusionThm`, `InterruptsOffThm`, `NoPanicThm`, `FlagRestoredThm` |
| `Proc_proofs` | `OneCpuPerProcessThm`, `ParentAliveThm`, `NoLostExitThm`, `ResourcesOwnedThm`, `IntenaFollowsThreadThm`, `HighestPriorityRunsThm` |
| `Log_proofs` | `CommitIsDurableThm`, `SleeperHasWakerThm`, `NoPanicThm`, `AtomicTransactionsThm` |
| `BufferCache_proofs` | `ExclusiveBuffersThm`, `SleepersHaveWakersThm`, `ReaderSeesLatestThm` |
| `Files_proofs` | `RefIsExactThm`, `PipeLifetimeThm` of `FileTable`; `InodeSavedThm`, `BlocksAccountedThm`, `NoPanicThm` of `FileData` |
| `PipeInode_proofs` | `NoStrandedSleeperThm`, `PipeIsFifoThm` of `Pipe`; `RefTracksPointersThm`, `CacheIsWriteThroughThm`, `NothingInUseIsFreeThm` of `Inode` |
| `Console_proofs` | `RingMovesOnThm`, `CursorOnScreenThm`, `NoLostWakeupThm`, `FinishedIsFifoThm`, `EndOfFileOnceThm` |
| `VirtualMemory_proofs` | `PagesConservedThm`, `SizeIsMappedThm`, `LoadedDirectoryLiveThm`, `ArgsMappedThm` |

All are laid out alike. The properties are not inductive, so each module defines
an invariant `IInv` (in `FileData`, `DataInv` and `DirtyInv`) as a conjunction of named parts (which TLC checked on the
instance of the module's run before it was proved), shows `InitIInv`, one lemma
per action or group of actions, and `NextIInv`, and concludes `Spec => []IInv`.
The theorems follow from `IInv`; the action properties and the refinements from
`IInv` and one more case per action. What the invariants add, and why:

* **Spin locks.** That `release` does not panic depends on what `holding()`
  reads in two unsynchronised loads, so `IInv` relates `lk->locked` and `lk->cpu`
  to the locks really held in both directions: a held lock is locked and names its
  holder except where the holder is about to set or has cleared the field
  (`OwnInv`), and a lock names only a CPU that holds it (`CpuInv`). `PcInv` says
  which lock an acquire or release is about. That an interrupt never finds a lock
  held needs a count: `ncli` is the number of locks held, plus one within
  `pushcli` to `xchg` and before `popcli` (`NcliInv`); the flag is off exactly
  while it is positive, and `intena` is then what the flag was (`FlagInv`); a
  handler is on top only of code that holds nothing (`HandlerInv`).
* **Processes.** `LockInv` says who holds `ptable.lock` across `swtch()`: the
  CPU whose scheduler, process or new child is between the two switches. From it
  follow that a state changes only under the lock, and that the state and the
  program counter of a process agree (`StateInv`). `ForkInv` gives an EMBRYO to one
  `fork()`, which is what makes the unlocked middle of fork safe. `FamilyInv`
  says that init is live, has no parent and pid 1, and that nobody is its own parent.
  That no exit is lost rests on `wait` holding the lock from its
  scan to its sleep.
* **Log.** The refinement maps the write of the header to the commit. `CacheInv`
  says that a buffer differs from its disk block only while it is dirty or held, and
  `CommitInv` what the buffers, the log blocks, the header and the home
  blocks hold at each program point of `commit()`; in particular a block of the
  header that is not installed yet has its value in the log, whichever of them
  have been installed before a crash, and again before the next. `BootInv` says the same of
  recovery. `WroteInv` and `SpaceInv` carry the reservation: the blocks in `lh` and
  what the outstanding operations may still write fit into the log.
* **Buffer cache.** `UseInv` counts: `refcnt` is the number of processes inside
  `bget` to `brelse` of the buffer. `LockInv` is about its sleep lock, `QueueInv` about
  the request each waiting process has in the queue of the disk, `DataInv` about
  which of buffer, disk and `latest` agree. `SpareInv` counts buffers in use
  against processes and pinned blocks: with `EnoughBuffers` there is one to recycle.
* **File table.** `CountInv` writes `ref` as the sum of five sets of references
  (descriptors, the two local pointers, files on the way to `fileclose`, less
  the `dup`s that owe one); `ExactStep` shows that a step which changes each by one
  member at most keeps the sum if it changes `ref` by the same amount, and each
  action is an instance. `Sole` draws the conclusion that a file counted once has
  owners of one kind: this makes it safe that `open` and `pipe` fill in a
  file without the lock. A `dup` in progress has two descriptors (`PlaceInv`),
  so a count is never 0 under it. `EndInv` gives each open end of a pipe to one
  file, or to the `fileclose` that took it over.
* **File contents.** `DataInv` has a part for `mkfs` and one for the kernel.
  The heart of both is `Owned(c, d, U)`: of the table `c` of block numbers in inodes and
  indirect blocks, without the places `d` that an `itrunc` has passed,
  every block of `U` that is not metadata is named once, and nothing else
  is. Each action changes the table in one place or none, so there is one lemma
  for adding a place, one for freeing one and one for leaving all as
  they are. While `mkfs` runs, `U` is what lies below `freeblock`, and the blocks
  above are still zero, which is why a new indirect block names nothing; then `U` is the bitmap. Two facts carry the rest.
  A file has no holes (`Full`): so `readi` never allocates, and a write that does
  not grow the file changes no block number, which is why `writei` may leave the
  inode unsaved then (`InoInv`). And a round of the loops ends at the end of a
  block or with the chunk (`Chunk`), so what has been copied is whole blocks. A process
  changes only the inode it has locked, and no other (`Touches`), from which the
  others keep theirs. `DirtyInv` is the accounting of
  `filewrite`: two blocks for every round done, one of data and one of the bitmap,
  and two for the indirect block, less one if the chunk started inside a block, since that
  block was there. A chunk of `K` blocks' length reaches into `K + 1` only if it
  starts inside one, and `2 * K + 4 <= MAXOPBLOCKS`. That `balloc` finds a block is a count: a
  place without a block leaves fewer blocks in use than `RoomForAll` asks
  the disk to have.
* **Inodes.** There are two invariants, one on top of the other. `IInv` is about
  the cache. `Place` says at each program point of the system calls which
  pointers a process has, which locks it holds and which copies are
  valid; `Freeing` and `ParentInv` that `iput()` frees an inode under its lock, and
  not one that `nameiparent()` has just returned. The pointers are counted as in the file
  table, over five places. With it `CacheInv` is inductive: a valid copy is the one
  on disk, and not that of a free inode. `LInv` is about the links, which
  reference counts do not mention. `TreeInv` bounds them from below: the names
  an inode has, the subdirectories whose `..` leads to it, and the links that are
  `Pending`, counted before they have a name (`link`) or after they
  have lost it (`unlink`). `Live` says that what a process points to
  is allocated and linked, with two exceptions: what it is creating (`Fresh`), and
  what its `iput()` has freed and not yet counted down. That freeing harms nobody is
  `Alone`: between the test and the truncation the inode has no links
  and one reference, which needs that others gain references only through
  names, pointers of their own, and locks (`Frame`). `Seen` carries what a process
  has read of a directory under its lock to the step that depends on it:
  `unlink` clears the entry it looked up, `create` fills one that is still free.
* **Pipe and console.** The counters wrap, so the contents of a ring are not a
  subsequence between two numbers. Both modules begin with the arithmetic: how distances
  modulo `UINT` change with a counter, and that two indices within a ring of
  each other meet in a cell only if they are equal, which is where
  `UINT % PIPESIZE = 0` is needed. The simulation of `Fifo` compares the queues
  cell by cell. `Console` needs `LineInv` (what is behind `w` is no end of line),
  `ReaderInv` (a reader in the kernel has asked for at least one byte more), and, for the wakeups, `LockInv` on its
  three spin locks and `WaitInv`: a process between its test and its sleep
  holds a lock that the handler needs.
* **Memory.** `PageInv` says of every page that there is one kind of use, one
  user and one index such that the page has this use and no other (`Entry`): on
  the free list, lost, a kernel stack, in a local variable, a directory, a
  kernel table, a user table or a user page. Stated so, and not as a count, it
  is kept page by page: `kalloc`, `mappages`, `setupkvm`, `deallocuvm` and
  `freevm` each have a lemma that moves a set of pages from one use to another
  (`GainMem`, `MapPage`, `GainDir`, `ReleasePages`, `ReleaseDir`), and
  `OneEntry` draws the count from it at the end. `DirInv` gives every directory
  to one process or one call, which is why a process keeps its own through the
  steps of the others (`Frame`). `SpaceInv` says which pages are mapped at each
  program point: exactly those below `a` in the loops of `allocuvm` and
  `copyuvm`, exactly those below the size outside of them, so that `mappages`
  never meets a mapped page and `loaduvm`, `copyuvm` and `clearpteu` always do.
  `LocInv` says which pages the locals of a call hold, `ForkInv` that an EMBRYO
  has one `fork()`, `TableInv` that a mapped page has a table, and `CpuInv`
  which directory each processor has loaded and where it may have stale
  translations.

Premises beyond types and distinctness: `PipeAssumption` and `ConsoleAssumption`
require that the ring size divides the counter's modulus (512 and 128 divide
2^32). `LogAssumption` requires that an operation writes fewer than
`MAXOPBLOCKS` blocks, see Observations, and that a log has room for one
operation (`LOGSIZE` is three times `MAXOPBLOCKS`). `ExclusiveBuffersThm`
assumes `EnoughBuffers`, a buffer for each process and each pinned block: the
code has 30 buffers for 64 processes, so "bget: no buffers" is out of reach only
while fewer processes use them at once. `VirtualMemoryAssumption` asks for the
four pages and the tables that `userinit` needs, for a `KERNBASE` that page
tables divide and that lies in the lower half of the addresses, for unsigned
fields in program headers (`elf.h`), and that what `exec` pushes does not wrap
around the user addresses: it stops at the first `copyout` that fails, after the
stack page and one string of the caller. `InodeAssumption` says that there are finitely many
processes and names (`NPROC`, `DIRSIZ`). `NothingInUseIsFreeThm` assumes `NoDotDot`, that no path of
a program goes up, because the property is false otherwise (Observations); the
other two theorems on inodes hold for all paths. `LayoutAssumption` is what the
makefile's image satisfies; `CallAssumption` says that lengths are positive and
fit an `int` (`argint`; a call of length 0 does nothing), and that `MAXOPBLOCKS` is at least 6
(it is 10), without which `filewrite` could not write a byte. `InodeSavedThm` and
`BlocksAccountedThm` speak of behaviours in which the image fits on the disk
(`ImageFits`): `mkfs` takes block after block without looking at `FSSIZE`.
`NoPanicThm` of `FileData` assumes `RoomForAll` instead, that the disk holds every
file at its largest, because `balloc` panics on a full disk; that `mkfs`'s image
fits is then proved (`ImageHasRoom`). The bounds of the models (pids,
requests, crashes, kills) are constants too, so the theorems hold whatever they
are.

Only model-checked:

* Liveness (`RunnableRuns`, `WaitReturns`, `KilledExits`): temporal reasoning
  under fairness is outside what the proof system does.
* `FilesAreFlat`, the refinement of `FlatFile`: its mapping assembles the contents
  of a file from its blocks, cell by cell, at every step of a chunk.

No run spends itself on `TypeOK` of `Proc`, `Log`, `Pipe`, `BufferCache`, `Console`,
`FileTable` and `VirtualMemory`; it is part of their `IInv` and proved with it, as
`DataTyped` is with `DataInv`.

## Findings

**Deadlock of create and unlink** (run `inode_deadlock`). `iput()` takes the
inode's sleep lock whatever the reference count is (`fs.c:335`). `create`
(`sysfile.c:281`) and `sys_unlink` (`sysfile.c:225`) call `iunlockput(dp)` with
`ip` still locked. If another process that unlinks the same name takes `dp`'s
lock between the `iunlock` and the `iput`, it finds the entry and waits for `ip`
(`sysfile.c:209`), and the first process waits for `dp`.

## Observations

Met while modelling; the models behave the same way, and no property claims the
contrary.

* `kill()` compares `p->pid` without `p->state` (`proc.c:513`): `kill(0)` marks
  the first free slot, and so does the pid that a failed fork left behind.
  `allocproc` does not clear `p->killed`, so that the next process in the slot is
  born killed, although `proc.c:503` says "Kill the process with the given pid."
* The priority search starts over at the first slot (`proc.c:353`): with a
  worse process between two of the best priority, the earlier one is chosen
  again after every `yield()`, and the later one never runs. `RunnableRuns` is
  therefore checked with equal priorities.
* `procdump` follows `p->parent` of every slot that is not UNUSED
  (`proc.c:568`), without the lock; an EMBRYO that never had a parent has none.
* A failed read of the disk sets `B_VALID` without data (`ide.c:118-122`), where
  `bio.c:17` says that the data "has been read from the disk"; what
  `ReaderSeesLatest` says, it says of the blocks that can be read.
* `log_write` allows one block less than `begin_op` reserves: `mkfs` gives the
  log `LOGSIZE` blocks including the header (`mkfs.c:25`), and `log_write`
  panics at `log.size - 1` (`log.c:218`). It takes operations that use all of
  their `MAXOPBLOCKS` to get there.
* A writer that finds itself killed in a full pipe returns without waking the
  readers (`pipe.c:85-88`).
* The test of `killed` and the sleep are not under one lock (`pipe.c:85`,
  `console.c:246`, `sysproc.c:70`): a `kill()` in between finds the process
  RUNNING and wakes nobody, and the process sleeps on until the event it waits
  for.
* `copyuvm` drops the page it has copied when `mappages` finds no memory for a
  table (`vm.c:335-336`): the page is on no list any more. It is the one page
  `PagesConserved` allows to be `lost`.
* Shrinking a process to size 0 makes `deallocuvm` return 0, which `growproc`
  takes for a failure (`proc.c:180`): the pages are gone and `sz` stays.
* `mkfs` rounds the root directory up to the next block even if its entries fill
  the last one (`mkfs.c:161`): the size then covers a block that was never
  allocated, which `LayoutAssumption` excludes.
* `create` locks the parent after the walk (`sysfile.c:248`): if the directory
  was removed meanwhile, the new file is in a directory nobody can reach, and
  its inode is never freed.
* A removed directory keeps its `..`. If the parent is removed too and somebody
  still has the directory as current directory, `..` leads to a free inode, and
  `ilock` panics with "no type".
* `link(f, "d/.")` puts the inode of `d` with `d` locked (`fs.c:561`) and waits
  for itself.

## Not modelled

* The identities: `getuid`, `setuid`, `suid` and the calls for groups store and
  load a field that nothing else reads; that the parent `suid` follows is there
  is `ParentAlive`. `chmod`, `chown` and `chgrp` are stubs.
* The tables of `kbd.c` and the device programming of `ide.c`, `uart.c`,
  `lapic.c`, `ioapic.c` and `mp.c`: straight-line accesses to registers. The
  interrupts they raise are actions.
* Boot (`bootmain.c`, `main.c`, `entry.S` and the like): set-up before anything
  runs concurrently. `Init` of each module is what it leaves.
* The shell, the user programs and the library, `umalloc.c` included:
  sequential programs above the system calls, without shared state. The tests
  were read as documentation.
* `nps` and the printing of `cps` and `procdump`; only the pointers they follow
  and what they do to the console are in the models.

`PROJECT.json` lists every component with its status, and every hazard with the
properties that would catch it. Four hazards have none: there the code does not
prevent what can go wrong, the models have the behaviour, and Observations
describes it.

## Plan

The components of the kernel that the plan named are modelled, and every
invariant and action property that a run checks is proved. What is left is the
refinement `FilesAreFlat`, one step per action: `Owned` already says that a write
to one file changes no cell of another, and `Chunk` where the cells of a round
lie.
