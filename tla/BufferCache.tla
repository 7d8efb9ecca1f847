---------------------------- MODULE BufferCache -----------------------------
(***************************************************************************)
(* The buffer cache (bio.c), the sleep locks of its buffers (sleeplock.c)  *)
(* and the disk driver with its request queue and interrupt (ide.c).       *)
(* In the kernelmemfs image memide.c takes the place of ide.c.             *)
(* Processes call bread(), then modify, log or bwrite() the buffer, then   *)
(* brelse().  Each stretch of code under bcache.lock, idelock or a sleep   *)
(* lock's own spin lock is one step; processes interleave between them.    *)
(***************************************************************************)
EXTENDS Naturals, FiniteSets, Sequences, SequencesExt

CONSTANTS
  Proc, Buf, Block,
  Val,         \* contents of a block
  NoBlock,     \* the block number of a buffer that was never used
  NoBuf,       \* no buffer
  MaxPinned,   \* bound: blocks the log keeps dirty at a time
  BadBlocks    \* blocks whose reads may fail

ASSUME BufferCacheAssumption ==
  /\ IsFiniteSet(Proc) /\ IsFiniteSet(Buf) /\ Val # {}
  /\ NoBlock \notin Block
  /\ NoBuf \notin Buf \cup Proc
  /\ MaxPinned \in Nat
  /\ BadBlocks \subseteq Block

VARIABLES
  mru,        \* bcache.head: the buffers, most recently used first
  blockno, valid, dirty, refcnt, data,   \* struct buf
  locked,     \* b->lock.locked
  idequeue,   \* requests; the disk works on the first
  disk,       \* contents of the disk
  memdisk,    \* the driver is memide.c
  pc, b,      \* of each process: place, and its buffer
  latest,     \* history: what was last written to each block
  panicked

cacheVars == <<mru, blockno, valid, dirty, refcnt, data>>
diskVars == <<idequeue, disk, memdisk>>
vars == <<cacheVars, diskVars, locked, pc, b, latest, panicked>>

PC == {"idle", "acquiresleep", "sleeping", "bread", "iderw", "io", "io_sleep",
       "has", "brelse"}

At(p, here) == pc[p] = here /\ ~panicked

Goto(p, there) == pc' = [pc EXCEPT ![p] = there]

\* wakeup() of the processes that sleep on buffer x at "from"; who goes on.
WakeupOn(x, from, to, who, there) ==
  pc' = [p \in Proc |-> IF p = who THEN there
                        ELSE IF pc[p] = from /\ b[p] = x THEN to ELSE pc[p]]

-----------------------------------------------------------------------------
Init ==
  /\ mru \in SetToSeqs(Buf)
  /\ blockno = [x \in Buf |-> NoBlock]
  /\ valid = [x \in Buf |-> FALSE]
  /\ dirty = [x \in Buf |-> FALSE]
  /\ refcnt = [x \in Buf |-> 0]
  /\ disk \in [Block -> Val]
  /\ data = [x \in Buf |-> CHOOSE v \in Val : TRUE]
  /\ locked = [x \in Buf |-> FALSE]
  /\ idequeue = <<>> /\ memdisk \in BOOLEAN
  /\ pc = [p \in Proc |-> "idle"]
  /\ b = [p \in Proc |-> NoBuf]
  /\ latest = disk
  /\ panicked = FALSE

(***************************************************************************)
(* bget(): the cached buffer, else the least recently used one that is     *)
(* neither referenced nor dirty.                                           *)
(***************************************************************************)
Cached(blk) == {x \in Buf : blockno[x] = blk}

\* Mutant: a dirty buffer is recycled.
RecyclableDirty(x) == refcnt[x] = 0

Recyclable(x) == refcnt[x] = 0 /\ ~dirty[x]

BgetHit(p, blk) ==
  /\ At(p, "idle")
  /\ \E x \in Cached(blk) :
       /\ refcnt' = [refcnt EXCEPT ![x] = @ + 1]
       /\ b' = [b EXCEPT ![p] = x]
  /\ Goto(p, "acquiresleep")
  /\ UNCHANGED <<mru, blockno, valid, dirty, data, diskVars, locked, latest,
                 panicked>>

BgetRecycle(p, blk) ==
  LET free == {i \in 1..Len(mru) : Recyclable(mru[i])} IN
  /\ At(p, "idle")
  /\ Cached(blk) = {}
  /\ IF free = {}
     THEN panicked' = TRUE /\ UNCHANGED <<blockno, valid, dirty, refcnt, b, pc>>
     ELSE LET x == mru[CHOOSE i \in free : \A j \in free : j <= i] IN
          /\ blockno' = [blockno EXCEPT ![x] = blk]
          /\ valid' = [valid EXCEPT ![x] = FALSE]
          /\ dirty' = [dirty EXCEPT ![x] = FALSE]
          /\ refcnt' = [refcnt EXCEPT ![x] = 1]
          /\ b' = [b EXCEPT ![p] = x]
          /\ Goto(p, "acquiresleep")
          /\ UNCHANGED panicked
  /\ UNCHANGED <<mru, data, diskVars, locked, latest>>

(***************************************************************************)
(* acquiresleep() and releasesleep()                                       *)
(***************************************************************************)
\* Mutant: the lock is taken without another look after sleep().
AcquireSleepOnce(p) ==
  /\ At(p, "acquiresleep")
  /\ locked' = [locked EXCEPT ![b[p]] = TRUE]
  /\ Goto(p, "bread")
  /\ UNCHANGED <<cacheVars, diskVars, b, latest, panicked>>

AcquireSleep(p) ==
  /\ At(p, "acquiresleep")
  /\ IF locked[b[p]]
     THEN Goto(p, "sleeping") /\ UNCHANGED locked
     ELSE Goto(p, "bread") /\ locked' = [locked EXCEPT ![b[p]] = TRUE]
  /\ UNCHANGED <<cacheVars, diskVars, b, latest, panicked>>

\* Mutant: nobody is woken.
ReleaseSleepSilently(p) ==
  /\ At(p, "has")
  /\ locked' = [locked EXCEPT ![b[p]] = FALSE]
  /\ Goto(p, "brelse")
  /\ UNCHANGED <<cacheVars, diskVars, b, latest, panicked>>

\* brelse() begins with releasesleep().
ReleaseSleep(p) ==
  /\ At(p, "has")
  /\ panicked' = ~locked[b[p]]
  /\ locked' = [locked EXCEPT ![b[p]] = FALSE]
  /\ WakeupOn(b[p], "sleeping", "acquiresleep", p, "brelse")
  /\ UNCHANGED <<cacheVars, diskVars, b, latest>>

\* kill() ends any sleep; every loop around sleep() looks again.
KillWakes(p) ==
  /\ At(p, "sleeping") \/ At(p, "io_sleep")
  /\ Goto(p, IF pc[p] = "sleeping" THEN "acquiresleep" ELSE "io")
  /\ UNCHANGED <<cacheVars, diskVars, locked, b, latest, panicked>>

(***************************************************************************)
(* bread() and bwrite() with the buffer locked; log_write() marks it dirty *)
(* and writes nothing.                                                     *)
(***************************************************************************)
Bread(p) ==
  /\ At(p, "bread")
  /\ Goto(p, IF valid[b[p]] THEN "has" ELSE "iderw")
  /\ UNCHANGED <<cacheVars, diskVars, locked, b, latest, panicked>>

Bwrite(p, v) ==
  /\ At(p, "has")
  /\ data' = [data EXCEPT ![b[p]] = v]
  /\ latest' = [latest EXCEPT ![blockno[b[p]]] = v]
  /\ dirty' = [dirty EXCEPT ![b[p]] = TRUE]
  /\ panicked' = ~locked[b[p]]
  /\ Goto(p, "iderw")
  /\ UNCHANGED <<mru, blockno, valid, refcnt, diskVars, locked, b>>

LogWrite(p, v) ==
  /\ At(p, "has")
  /\ dirty[b[p]] \/ Cardinality({x \in Buf : dirty[x]}) < MaxPinned
  /\ data' = [data EXCEPT ![b[p]] = v]
  /\ latest' = [latest EXCEPT ![blockno[b[p]]] = v]
  /\ dirty' = [dirty EXCEPT ![b[p]] = TRUE]
  /\ UNCHANGED <<mru, blockno, valid, refcnt, diskVars, locked, pc, b, panicked>>

(***************************************************************************)
(* The second half of brelse().                                            *)
(***************************************************************************)
MoveToFront(x) ==
  LET k == CHOOSE i \in DOMAIN mru : mru[i] = x IN
  [i \in DOMAIN mru |-> IF i = 1 THEN x ELSE IF i <= k THEN mru[i - 1] ELSE mru[i]]

Brelse(p) ==
  LET x == b[p] IN
  /\ At(p, "brelse")
  /\ refcnt' = [refcnt EXCEPT ![x] = @ - 1]
  /\ mru' = IF refcnt[x] = 1 THEN MoveToFront(x) ELSE mru
  /\ b' = [b EXCEPT ![p] = NoBuf]
  /\ Goto(p, "idle")
  /\ UNCHANGED <<blockno, valid, dirty, data, diskVars, locked, latest, panicked>>

(***************************************************************************)
(* The disk.  idestart() sends the data of a write; ideintr() ends the     *)
(* request, fetches the data of a read, and starts the next one.           *)
(***************************************************************************)
Idestart(d, q) ==
  IF q # <<>> /\ dirty[Head(q)]
  THEN [d EXCEPT ![blockno[Head(q)]] = data[Head(q)]]
  ELSE d

\* "iderw: buf not locked", "iderw: nothing to do"
IderwPanics(x) == ~locked[x] \/ (valid[x] /\ ~dirty[x])

Iderw(p) ==
  LET x == b[p] IN
  /\ At(p, "iderw") /\ ~memdisk
  /\ panicked' = IderwPanics(x)
  /\ idequeue' = Append(idequeue, x)
  /\ disk' = IF idequeue = <<>> THEN Idestart(disk, <<x>>) ELSE disk
  /\ Goto(p, "io_sleep")
  /\ UNCHANGED <<cacheVars, memdisk, locked, b, latest>>

\* iderw() of memide.c: the contents are copied at once.
MemIderw(p) ==
  LET x == b[p] IN
  /\ At(p, "iderw") /\ memdisk
  /\ panicked' = IderwPanics(x)
  /\ disk' = Idestart(disk, <<x>>)
  /\ data' = [data EXCEPT ![x] = IF dirty[x] THEN @ ELSE disk[blockno[x]]]
  /\ dirty' = [dirty EXCEPT ![x] = FALSE]
  /\ valid' = [valid EXCEPT ![x] = TRUE]
  /\ Goto(p, "has")
  /\ UNCHANGED <<mru, blockno, refcnt, idequeue, memdisk, locked, b, latest>>

\* The loop of iderw(), after a wakeup.
IderwWakes(p) ==
  /\ At(p, "io")
  /\ Goto(p, IF valid[b[p]] /\ ~dirty[b[p]] THEN "has" ELSE "io_sleep")
  /\ UNCHANGED <<cacheVars, diskVars, locked, b, latest, panicked>>

\* idewait(1): the disk may report an error for a read.
Idewait(x, ok) == ok \/ (blockno[x] \in BadBlocks /\ ~dirty[x])

Ideintr(ok) ==
  LET x == Head(idequeue) IN
  /\ ~panicked
  /\ idequeue # <<>>
  /\ Idewait(x, ok)
  /\ idequeue' = Tail(idequeue)
  /\ data' = IF ~dirty[x] /\ ok THEN [data EXCEPT ![x] = disk[blockno[x]]] ELSE data
  /\ valid' = [valid EXCEPT ![x] = TRUE]
  /\ dirty' = [dirty EXCEPT ![x] = FALSE]
  /\ WakeupOn(x, "io_sleep", "io", NoBuf, "io")
  /\ disk' = Idestart(disk, Tail(idequeue))
  /\ UNCHANGED <<mru, blockno, refcnt, memdisk, locked, b, latest, panicked>>

-----------------------------------------------------------------------------
\* What a process in bread(), bwrite() or brelse() does next.
Continue(p) ==
  \/ AcquireSleep(p) \/ Bread(p) \/ Iderw(p) \/ MemIderw(p) \/ IderwWakes(p) \/ Brelse(p)

Next ==
  \/ \E p \in Proc :
       \/ \E blk \in Block : BgetHit(p, blk) \/ BgetRecycle(p, blk)
       \/ Continue(p)
       \/ \E v \in Val : Bwrite(p, v) \/ LogWrite(p, v)
       \/ ReleaseSleep(p)
       \/ KillWakes(p)
  \/ \E ok \in BOOLEAN : Ideintr(ok)

Spec == Init /\ [][Next]_vars

-----------------------------------------------------------------------------
Users(x) == {p \in Proc : b[p] = x}

\* Between acquiresleep() and releasesleep().
Holders(x) ==
  {p \in Users(x) : pc[p] \notin {"acquiresleep", "sleeping", "brelse"}}

TypeOK ==
  /\ mru \in [1..Cardinality(Buf) -> Buf]
  /\ blockno \in [Buf -> Block \cup {NoBlock}]
  /\ valid \in [Buf -> BOOLEAN] /\ dirty \in [Buf -> BOOLEAN]
  /\ refcnt \in [Buf -> Nat]
  /\ data \in [Buf -> Val]
  /\ locked \in [Buf -> BOOLEAN]
  /\ idequeue \in Seq(Buf) /\ memdisk \in BOOLEAN
  /\ disk \in [Block -> Val] /\ latest \in [Block -> Val]
  /\ pc \in [Proc -> PC]
  /\ b \in [Proc -> Buf \cup {NoBuf}]
  /\ panicked \in BOOLEAN

(***************************************************************************)
(* "Only one process at a time can use a buffer" (bio.c:13), and a block   *)
(* is never in two buffers, though bget() lets go of bcache.lock before it *)
(* has the buffer's lock.  Nobody waits for a buffer in vain, as long as   *)
(* the processes and the log together need no more than all of them, so    *)
(* that bget(), bwrite(), brelse() and iderw() do not panic (bget,         *)
(* acquiresleep).                                                          *)
(***************************************************************************)
ExclusiveBuffers ==
  /\ ~panicked
  /\ \A x \in Buf : Cardinality(Holders(x)) = IF locked[x] THEN 1 ELSE 0
  /\ \A x, y \in Buf : blockno[x] = blockno[y] /\ x # y => blockno[x] = NoBlock

(***************************************************************************)
(* A process that bread() a block, or has waited for bwrite(), sees the    *)
(* last contents that anyone wrote to it, whether they are on the disk, in *)
(* the cache or were pinned by the log and recycled around, and a valid    *)
(* buffer that is not dirty is on the disk; an error on one block does not *)
(* reach another (bread, bget, idestart, ideintr).                         *)
(***************************************************************************)
ReaderSeesLatest ==
  /\ \A p \in Proc : pc[p] = "has" /\ blockno[b[p]] \notin BadBlocks =>
       valid[b[p]] /\ data[b[p]] = latest[blockno[b[p]]]
  /\ \A x \in Buf : valid[x] /\ ~dirty[x] /\ blockno[x] \notin BadBlocks =>
       data[x] = disk[blockno[x]]

(***************************************************************************)
(* A process asleep in acquiresleep() has someone who holds the lock, and  *)
(* one asleep in iderw() has its request in the queue, once: no wakeup of  *)
(* releasesleep() or ideintr() was missed.                                 *)
(***************************************************************************)
SleepersHaveWakers ==
  \A p \in Proc :
    /\ pc[p] = "sleeping" => locked[b[p]]
    /\ pc[p] = "io_sleep" =>
         Cardinality({i \in 1..Len(idequeue) : idequeue[i] = b[p]}) = 1
=============================================================================
