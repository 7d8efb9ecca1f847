-------------------------------- MODULE Log ---------------------------------
(***************************************************************************)
(* The write-ahead log of log.c over the buffer cache and the disk:        *)
(* begin_op/log_write/end_op of concurrent file system operations, the     *)
(* group commit by the last of them, crashes at any point, and recovery at *)
(* boot.  Each bwrite() is one atomic disk step (a block is one sector).   *)
(***************************************************************************)
EXTENDS Naturals, FiniteSets, Sequences

CONSTANTS
  Thread,       \* processes in file system calls
  Block,        \* blocks of the file system, outside the log
  Val,          \* contents of a block
  LogSizes,     \* values of param.h's LOGSIZE
  MAXOPBLOCKS,  \* param.h: blocks begin_op() reserves for an operation
  OpBlocks,     \* distinct blocks an operation really writes, at most
  NoBlock,      \* no buffer is held
  NotCached,    \* no buffer caches the block
  MaxCrashes    \* bound: crashes of the machine

ASSUME LogAssumption ==
  /\ LogSizes \subseteq Nat /\ MAXOPBLOCKS \in Nat /\ OpBlocks \in Nat
  /\ OpBlocks < MAXOPBLOCKS                  \* as the callers of begin_op() do
  /\ \A n \in LogSizes : MAXOPBLOCKS < n     \* LOGSIZE is MAXOPBLOCKS*3
  /\ Val # {}
  /\ NoBlock \notin Block
  /\ NotCached \notin Val
  /\ MaxCrashes \in Nat

VARIABLES
  home, logblk, head, nlog,      \* the disk: blocks, log data and header, sb.nlog
  cache, dirty,                  \* the buffers of the blocks, B_DIRTY
  lh, outstanding, committing,   \* struct log; lh.block[0..lh.n-1]
  tail,                          \* loop variable of write_log, install_trans
  pc, buf, wrote,                \* of each thread: place, buffer, blocks written
  boot,                          \* recovery, or "up"
  crashes, panicked

disk == <<home, logblk, head, nlog>>
bufs == <<cache, dirty>>
log == <<lh, outstanding, committing>>
vars == <<disk, bufs, log, tail, pc, buf, wrote, boot, crashes, panicked>>

PC == {"idle", "begin", "sleeping", "inop", "modified", "checked",
       "write_log", "write_head", "install", "erase", "committed"}

\* mkfs.c is compiled with the same param.h, and nlog counts the header block,
\* as log.size does.
LOGSIZE == nlog
LogIndex == 1..LOGSIZE

\* bread(): the buffer, or the disk if no buffer holds the block.
Contents(b) == IF cache[b] = NotCached THEN home[b] ELSE cache[b]

Logged == {lh[i] : i \in 1..Len(lh)}

At(t, here) == pc[t] = here /\ boot = "up" /\ ~panicked

Goto(t, there) == pc' = [pc EXCEPT ![t] = there]

\* Mutant: the wakeup is forgotten.
WakeupNobody(t, there) == Goto(t, there)

\* wakeup(&log), and t goes on at "there".
WakeupLog(t, there) ==
  pc' = [u \in Thread |-> IF u = t THEN there
                          ELSE IF pc[u] = "sleeping" THEN "begin" ELSE pc[u]]

-----------------------------------------------------------------------------
Init ==
  /\ nlog \in LogSizes
  /\ home \in [Block -> Val]
  /\ logblk = [i \in LogIndex |-> CHOOSE v \in Val : TRUE]
  /\ head = <<>>
  /\ cache = [b \in Block |-> NotCached]
  /\ dirty = [b \in Block |-> FALSE]
  /\ lh = <<>>
  /\ outstanding = 0
  /\ committing = FALSE
  /\ tail = 1
  /\ pc = [t \in Thread |-> "idle"]
  /\ buf = [t \in Thread |-> NoBlock]
  /\ wrote = [t \in Thread |-> {}]
  /\ boot = "read_head"
  /\ crashes = 0
  /\ panicked = FALSE

(***************************************************************************)
(* begin_op(): one pass of its loop.                                       *)
(***************************************************************************)
\* Mutant: the reservation leaves out the operation that is about to start.
LogSpaceTooLate == Len(lh) + outstanding * MAXOPBLOCKS <= LOGSIZE

LogSpace == Len(lh) + (outstanding + 1) * MAXOPBLOCKS <= LOGSIZE

BeginOp(t) ==
  /\ At(t, "idle") \/ At(t, "begin")
  /\ IF ~committing /\ LogSpace
     THEN outstanding' = outstanding + 1 /\ Goto(t, "inop")
     ELSE UNCHANGED outstanding /\ Goto(t, "sleeping")
  /\ UNCHANGED <<disk, bufs, lh, committing, tail, buf, wrote, boot, crashes,
                 panicked>>

\* kill() wakes a sleeper; begin_op() looks again.
KillWakes(t) ==
  /\ At(t, "sleeping")
  /\ Goto(t, "begin")
  /\ UNCHANGED <<disk, bufs, log, tail, buf, wrote, boot, crashes, panicked>>

(***************************************************************************)
(* bread(b); modify b->data; log_write(b); brelse(b).  log_write() tests   *)
(* lh.n before it takes log.lock.                                          *)
(***************************************************************************)
Modify(t, b, v) ==
  /\ At(t, "inop")
  /\ \A u \in Thread : buf[u] # b
  /\ b \in wrote[t] \/ Cardinality(wrote[t]) < OpBlocks
  /\ cache' = [cache EXCEPT ![b] = v]
  /\ buf' = [buf EXCEPT ![t] = b]
  /\ wrote' = [wrote EXCEPT ![t] = @ \cup {b}]
  /\ Goto(t, "modified")
  /\ UNCHANGED <<disk, dirty, log, tail, boot, crashes, panicked>>

LogWriteCheck(t) ==
  /\ At(t, "modified")
  /\ panicked' = (Len(lh) >= LOGSIZE \/ Len(lh) >= nlog - 1 \/ outstanding < 1)
  /\ Goto(t, "checked")
  /\ UNCHANGED <<disk, bufs, log, tail, buf, wrote, boot, crashes>>

LogWrite(t) ==
  /\ At(t, "checked")
  /\ lh' = IF buf[t] \in Logged THEN lh ELSE Append(lh, buf[t])
  /\ dirty' = [dirty EXCEPT ![buf[t]] = TRUE]
  /\ buf' = [buf EXCEPT ![t] = NoBlock]
  /\ Goto(t, "inop")
  /\ UNCHANGED <<disk, cache, outstanding, committing, tail, wrote, boot,
                 crashes, panicked>>

(***************************************************************************)
(* end_op(): the last operation commits, without a lock.                   *)
(***************************************************************************)
EndOp(t) ==
  /\ At(t, "inop")
  /\ outstanding' = outstanding - 1
  /\ panicked' = committing
  /\ IF outstanding = 1
     THEN committing' = TRUE /\ Goto(t, IF lh = <<>> THEN "committed" ELSE "write_log")
     ELSE UNCHANGED committing /\ WakeupLog(t, "idle")
  /\ tail' = 1
  /\ wrote' = [wrote EXCEPT ![t] = {}]
  /\ UNCHANGED <<disk, bufs, lh, buf, boot, crashes>>

\* One pass of the loop of write_log().
WriteLog(t) ==
  /\ At(t, "write_log")
  /\ logblk' = [logblk EXCEPT ![tail] = Contents(lh[tail])]
  /\ cache' = [cache EXCEPT ![lh[tail]] = Contents(lh[tail])]
  /\ IF tail = Len(lh) THEN tail' = 1 /\ Goto(t, "write_head")
                       ELSE tail' = tail + 1 /\ UNCHANGED pc
  /\ UNCHANGED <<nlog, home, head, dirty, log, buf, wrote, boot, crashes, panicked>>

\* "the real commit"
WriteHead(t) ==
  /\ At(t, "write_head")
  /\ head' = lh
  /\ Goto(t, "install")
  /\ UNCHANGED <<nlog, home, logblk, bufs, log, tail, buf, wrote, boot, crashes,
                 panicked>>

\* Mutant: the first block of the log is not written to its home location.
InstallTransSkips ==
  /\ home' = IF tail = 1 THEN home ELSE [home EXCEPT ![lh[tail]] = logblk[tail]]
  /\ cache' = [cache EXCEPT ![lh[tail]] = logblk[tail]]
  /\ dirty' = [dirty EXCEPT ![lh[tail]] = FALSE]
  /\ tail' = IF tail = Len(lh) THEN 1 ELSE tail + 1

\* One pass of the loop of install_trans().
InstallTrans ==
  /\ home' = [home EXCEPT ![lh[tail]] = logblk[tail]]
  /\ cache' = [cache EXCEPT ![lh[tail]] = logblk[tail]]
  /\ dirty' = [dirty EXCEPT ![lh[tail]] = FALSE]
  /\ tail' = IF tail = Len(lh) THEN 1 ELSE tail + 1

Install(t) ==
  /\ At(t, "install")
  /\ InstallTrans
  /\ IF tail = Len(lh) THEN Goto(t, "erase") ELSE UNCHANGED pc
  /\ UNCHANGED <<nlog, logblk, head, log, buf, wrote, boot, crashes, panicked>>

Erase(t) ==
  /\ At(t, "erase")
  /\ lh' = <<>>
  /\ head' = <<>>
  /\ Goto(t, "committed")
  /\ UNCHANGED <<nlog, home, logblk, bufs, outstanding, committing, tail, buf, wrote,
                 boot, crashes, panicked>>

EndCommit(t) ==
  /\ At(t, "committed")
  /\ committing' = FALSE
  /\ WakeupLog(t, "idle")
  /\ UNCHANGED <<disk, bufs, lh, outstanding, tail, buf, wrote, boot, crashes,
                 panicked>>

(***************************************************************************)
(* bget() recycles a buffer that nobody holds and that is not dirty.       *)
(***************************************************************************)
\* Mutant: B_DIRTY does not pin the buffer.
RecyclableUnpinned(b) == \A t \in Thread : buf[t] # b

Recyclable(b) == ~dirty[b] /\ \A t \in Thread : buf[t] # b

Recycle(b) ==
  /\ boot = "up" /\ ~panicked
  /\ cache[b] # NotCached
  /\ Recyclable(b)
  /\ cache' = [cache EXCEPT ![b] = NotCached]
  /\ UNCHANGED <<disk, dirty, log, tail, pc, buf, wrote, boot, crashes,
                 panicked>>

(***************************************************************************)
(* The machine stops and everything but the disk is lost; initlog() then   *)
(* recovers, and may be interrupted by the next crash.                     *)
(***************************************************************************)
Crash ==
  /\ crashes < MaxCrashes
  /\ ~panicked
  /\ crashes' = crashes + 1
  /\ cache' = [b \in Block |-> NotCached]
  /\ dirty' = [b \in Block |-> FALSE]
  /\ lh' = <<>>
  /\ outstanding' = 0
  /\ committing' = FALSE
  /\ tail' = 1
  /\ pc' = [t \in Thread |-> "idle"]
  /\ buf' = [t \in Thread |-> NoBlock]
  /\ wrote' = [t \in Thread |-> {}]
  /\ boot' = "read_head"
  /\ UNCHANGED <<disk, panicked>>

ReadHead ==
  /\ boot = "read_head"
  /\ lh' = head
  /\ boot' = IF head = <<>> THEN "clear" ELSE "install"
  /\ UNCHANGED <<disk, bufs, outstanding, committing, tail, pc, buf, wrote,
                 crashes, panicked>>

RecoverInstall ==
  /\ boot = "install"
  /\ InstallTrans
  /\ boot' = IF tail = Len(lh) THEN "clear" ELSE boot
  /\ UNCHANGED <<nlog, logblk, head, log, pc, buf, wrote, crashes, panicked>>

RecoverClear ==
  /\ boot = "clear"
  /\ lh' = <<>>
  /\ head' = <<>>
  /\ boot' = "up"
  /\ UNCHANGED <<nlog, home, logblk, bufs, outstanding, committing, tail, pc, buf,
                 wrote, crashes, panicked>>

-----------------------------------------------------------------------------
Recover == ReadHead \/ RecoverInstall \/ RecoverClear

Operate(t) ==
  \/ LogWriteCheck(t) \/ LogWrite(t)
  \/ WriteLog(t) \/ WriteHead(t) \/ Install(t) \/ Erase(t) \/ EndCommit(t)

Next ==
  \/ \E t \in Thread :
       \/ BeginOp(t) \/ KillWakes(t)
       \/ \E b \in Block, v \in Val : Modify(t, b, v)
       \/ EndOp(t)
       \/ Operate(t)
  \/ \E b \in Block : Recycle(b)
  \/ Recover
  \/ Crash

Spec == Init /\ [][Next]_vars

-----------------------------------------------------------------------------
TypeOK ==
  /\ nlog \in LogSizes /\ home \in [Block -> Val]
  /\ logblk \in [LogIndex -> Val]
  /\ head \in Seq(Block) /\ lh \in Seq(Block)
  /\ cache \in [Block -> Val \cup {NotCached}]
  /\ dirty \in [Block -> BOOLEAN]
  /\ outstanding \in Nat
  /\ committing \in BOOLEAN
  /\ tail \in LogIndex
  /\ pc \in [Thread -> PC]
  /\ buf \in [Thread -> Block \cup {NoBlock}]
  /\ wrote \in [Thread -> SUBSET Block]
  /\ boot \in {"read_head", "install", "clear", "up"}
  /\ crashes \in Nat
  /\ panicked \in BOOLEAN

(***************************************************************************)
(* The log implements AtomicDisk.  After a crash the disk is read through  *)
(* the log: a block named in the header is in its log block, whatever its  *)
(* home block holds.                                                       *)
(***************************************************************************)
Durable ==
  [b \in Block |-> IF \E i \in 1..Len(head) : head[i] = b
                   THEN logblk[CHOOSE i \in 1..Len(head) : head[i] = b]
                   ELSE home[b]]

Mem == IF boot = "up" THEN [b \in Block |-> Contents(b)] ELSE Durable

Atomic == INSTANCE AtomicDisk WITH mem <- Mem, durable <- Durable,
                                   open <- outstanding

\* Refinement: group commit with crashes at any point, of recovery too, is
\* atomic for every operation (commit, install_trans, recover_from_log).
AtomicTransactions == Atomic!Spec

(***************************************************************************)
(* No panic of log_write() or end_op() is reachable, although log_write()  *)
(* tests lh.n without the lock, and the header never names more blocks     *)
(* than the log has: what begin_op() reserves is enough (begin_op,         *)
(* log_write, write_log).                                                  *)
(***************************************************************************)
NoPanic == ~panicked /\ Len(lh) <= nlog - 1

(***************************************************************************)
(* Nobody sleeps in begin_op() unless an operation or a commit that will   *)
(* call wakeup(&log) is in progress (begin_op, end_op).                    *)
(***************************************************************************)
SleeperHasWaker ==
  (\E t \in Thread : pc[t] = "sleeping") => outstanding > 0 \/ committing

(***************************************************************************)
(* When the last end_op() returns, its operations are on the disk: a crash *)
(* would lose nothing that a reader can see (end_op, commit).              *)
(***************************************************************************)
CommitIsDurable ==
  (\E t \in Thread : pc[t] = "committed") => Durable = Mem /\ head = <<>>
=============================================================================
