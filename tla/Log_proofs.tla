----------------------------- MODULE Log_proofs -----------------------------
(***************************************************************************)
(* Proofs about Log: its safety invariants, and that it implements         *)
(* AtomicDisk, for any number of processes, blocks and crashes and every   *)
(* log of more than MAXOPBLOCKS blocks.                                    *)
(***************************************************************************)
EXTENDS Log, TLAPS, FiniteSetTheorems, SequenceTheorems

\* Threads between begin_op() and end_op(), and threads in commit().
Ops == {t \in Thread : pc[t] \in {"inop", "modified", "checked"}}
CommitPC == {"write_log", "write_head", "install", "erase", "committed"}

NoDups(s) == \A i, j \in 1..Len(s) : s[i] = s[j] => i = j

\* The threads and struct log.outstanding, struct log.committing.
ThreadInv ==
  /\ IsFiniteSet(Ops) /\ outstanding = Cardinality(Ops)
  /\ committing => outstanding = 0
  /\ \A t \in Thread : pc[t] \in CommitPC => committing
  /\ \A t, u \in Thread : pc[t] \in CommitPC /\ pc[u] \in CommitPC => t = u
  /\ boot # "up" => ~committing /\ \A t \in Thread : pc[t] = "idle"
  /\ ~panicked

\* What an operation has written, and the buffer it holds.
WroteInv ==
  \A t \in Thread :
    /\ IsFiniteSet(wrote[t]) /\ Cardinality(wrote[t]) <= OpBlocks
    /\ t \notin Ops => wrote[t] = {}
    /\ (buf[t] = NoBlock) <=> (pc[t] \notin {"modified", "checked"})
    /\ buf[t] # NoBlock => buf[t] \in wrote[t]

\* The blocks that the running operations may still add to the log.
Reserve ==
  {r \in Ops \X (1..OpBlocks) :
     r[2] <= OpBlocks - Cardinality(wrote[r[1]] \cap Logged)}

\* What begin_op() reserved is still there.
SpaceInv ==
  /\ boot = "up" => Len(lh) + Cardinality(Reserve) <= nlog - 2
  /\ Len(lh) <= nlog - 1 /\ Len(head) <= nlog - 1

\* The header in memory names no block twice, and none between commits.
HeaderInv ==
  /\ NoDups(lh) /\ NoDups(head)
  /\ (boot = "up" /\ outstanding = 0 /\ ~committing) => lh = <<>>

Held(b) == \E t \in Thread : buf[t] = b

\* A buffer differs from its disk block only while it is dirty or held.
CacheInv ==
  /\ \A b \in Block : dirty[b] => b \in Logged /\ boot = "up"
  /\ \A b \in Block : (cache[b] # NotCached /\ ~dirty[b] /\ ~Held(b))
                         => cache[b] = home[b]

CopiedTo(n) == \A i \in 1..Len(lh) : i < n => logblk[i] = Contents(lh[i])
InstalledTo(n) == \A i \in 1..Len(lh) : i < n => home[lh[i]] = logblk[i]
CleanTo(n) == \A i \in 1..Len(lh) : i < n => ~dirty[lh[i]]
All == Len(lh) + 1

\* The steps of commit().
CommitInv ==
  \A t \in Thread :
    /\ pc[t] = "write_log" => tail \in 1..Len(lh) /\ CopiedTo(tail)
    /\ pc[t] = "write_head" => lh # <<>> /\ tail = 1 /\ CopiedTo(All)
    /\ pc[t] = "install" => /\ tail \in 1..Len(lh) /\ head = lh /\ CopiedTo(All)
                            /\ InstalledTo(tail) /\ CleanTo(tail)
    /\ pc[t] = "erase" => head = lh /\ InstalledTo(All) /\ CleanTo(All)
    /\ pc[t] = "committed" => lh = <<>>

\* The header on disk is empty but between the commit point and the erasure;
\* the steps of recover_from_log().
BootInv ==
  /\ boot = "read_head" => lh = <<>> /\ tail = 1
  /\ boot = "install" => head = lh /\ tail \in 1..Len(lh) /\ InstalledTo(tail)
  /\ boot = "clear" => head = lh /\ InstalledTo(All)
  /\ boot = "up" => \/ head = <<>>
                    \/ \E t \in Thread : pc[t] \in {"install", "erase"}

IInv ==
  /\ TypeOK
  /\ ThreadInv
  /\ WroteInv
  /\ SpaceInv
  /\ HeaderInv
  /\ SleeperHasWaker
  /\ CacheInv
  /\ CommitInv
  /\ BootInv

-----------------------------------------------------------------------------
\* The initial state of a machine that was never started.
LEMMA InitIInv == Init => IInv
<1> SUFFICES ASSUME Init PROVE IInv
  OBVIOUS
<1> USE DEF Init
<1>n. /\ nlog \in LogSizes /\ nlog \in Nat /\ MAXOPBLOCKS \in Nat
      /\ OpBlocks \in Nat /\ OpBlocks < MAXOPBLOCKS /\ nlog > MAXOPBLOCKS
  BY LogAssumption
<1>o. Ops = {} /\ Logged = {} /\ Reserve = {}
  BY DEF Ops, Logged, Reserve
<1>f. IsFiniteSet({}) /\ Cardinality({}) = 0
  BY FS_EmptySet
<1>1. TypeOK
  <2>1. (CHOOSE v \in Val : TRUE) \in Val
    BY LogAssumption
  <2>2. logblk \in [LogIndex -> Val]
    BY <2>1
  <2>3. tail \in LogIndex
    BY <1>n DEF LogIndex, LOGSIZE
  <2>4. dirty \in [Block -> BOOLEAN] /\ pc \in [Thread -> PC]
    BY DEF PC
  <2>5. head \in Seq(Block) /\ lh \in Seq(Block)
    OBVIOUS
  <2>6. cache \in [Block -> Val \cup {NotCached}]
    OBVIOUS
  <2>7. buf \in [Thread -> Block \cup {NoBlock}]
    OBVIOUS
  <2>8. wrote \in [Thread -> SUBSET Block]
    OBVIOUS
  <2>9. outstanding \in Nat /\ crashes \in Nat
    OBVIOUS
  <2> HIDE DEF Init
  <2> QED
    BY <1>n, <2>2, <2>3, <2>4, <2>5, <2>6, <2>7, <2>8, <2>9 DEF TypeOK, Init
<1>2. ThreadInv
  BY <1>o, <1>f DEF ThreadInv, CommitPC
<1>3. WroteInv
  BY <1>o, <1>f, <1>n DEF WroteInv
<1>4. SpaceInv
  BY <1>o, <1>f, <1>n DEF SpaceInv
<1>5. HeaderInv
  BY DEF HeaderInv, NoDups
<1>6. SleeperHasWaker
  BY DEF SleeperHasWaker
<1>7. CacheInv
  BY DEF CacheInv
<1>8. CommitInv
  BY DEF CommitInv
<1>9. BootInv
  BY DEF BootInv
<1> QED
  BY <1>1, <1>2, <1>3, <1>4, <1>5, <1>6, <1>7, <1>8, <1>9 DEF IInv

\* What the actions' proofs use of the constants.
LEMMA Sizes ==
  ASSUME TypeOK
  PROVE  /\ nlog \in Nat /\ MAXOPBLOCKS \in Nat /\ OpBlocks \in Nat
         /\ OpBlocks < MAXOPBLOCKS /\ MAXOPBLOCKS < nlog
         /\ LogIndex = 1..nlog /\ Len(lh) \in Nat /\ Len(head) \in Nat
         /\ NoBlock \notin Block /\ NotCached \notin Val
BY LogAssumption DEF TypeOK, LogIndex, LOGSIZE

\* A reservation R of n blocks for each operation of O is finite.
LEMMA ReserveFinite ==
  ASSUME NEW O, NEW n \in Nat, NEW R, IsFiniteSet(O), R \subseteq O \X (1..n)
  PROVE  /\ IsFiniteSet(R) /\ Cardinality(R) \in Nat
         /\ Cardinality(R) <= Cardinality(O) * n
<1>2. IsFiniteSet(1..n) /\ Cardinality(1..n) = n
  BY FS_Interval
<1>3. /\ IsFiniteSet(O \X (1..n))
      /\ Cardinality(O \X (1..n)) = Cardinality(O) * n
  BY <1>2, FS_Product
<1> QED
  BY <1>3, FS_Subset, FS_CardinalityType

\* Nothing that the reservation depends on changes.
LEMMA SameSpace ==
  ASSUME Ops' = Ops, UNCHANGED <<wrote, lh, head, nlog, boot>>, SpaceInv
  PROVE  SpaceInv'
BY DEF SpaceInv, Reserve, Logged

\* Nothing that CacheInv depends on changes.
LEMMA SameCache ==
  ASSUME UNCHANGED <<cache, dirty, home, lh, buf, boot>>, CacheInv
  PROVE  CacheInv'
BY DEF CacheInv, Logged, Held

-----------------------------------------------------------------------------
(***************************************************************************)
(* begin_op()                                                              *)
(***************************************************************************)
\* begin_op() reserves OpBlocks blocks at least, or sleeps while an operation
\* or a commit is in progress.
LEMMA BeginOpIInv ==
  ASSUME NEW t \in Thread, IInv, BeginOp(t)
  PROVE  IInv'
<1> USE DEF IInv, At, Goto
<1>s. /\ nlog \in Nat /\ MAXOPBLOCKS \in Nat /\ OpBlocks \in Nat
      /\ OpBlocks < MAXOPBLOCKS /\ MAXOPBLOCKS < nlog
      /\ Len(lh) \in Nat /\ outstanding \in Nat
  BY Sizes DEF TypeOK
<1>u. UNCHANGED <<disk, bufs, lh, committing, tail, buf, wrote, boot, crashes,
                 panicked, home, logblk, head, nlog, cache, dirty>>
  BY DEF BeginOp, disk, bufs
<1>p. pc \in [Thread -> PC] /\ t \notin Ops /\ pc[t] \in {"idle", "begin"} /\ boot = "up"
  BY DEF BeginOp, TypeOK, Ops
<1>c. CacheInv'
  BY <1>u, SameCache
<1>h. (NoDups(lh) /\ NoDups(head))'
  BY <1>u DEF HeaderInv, NoDups
<1>m. /\ \A n : CopiedTo(n)' = CopiedTo(n)
      /\ \A n : InstalledTo(n)' = InstalledTo(n)
      /\ \A n : CleanTo(n)' = CleanTo(n)
      /\ All' = All
  BY <1>u DEF CopiedTo, InstalledTo, CleanTo, All, Contents
<1>1. CASE ~committing /\ LogSpace
  <2>1. pc' = [pc EXCEPT ![t] = "inop"] /\ outstanding' = outstanding + 1
    BY <1>1 DEF BeginOp
  <2>2. Ops' = Ops \cup {t}
    BY <2>1, <1>p DEF Ops
  <2>3. IsFiniteSet(Ops') /\ Cardinality(Ops') = outstanding + 1
    BY <2>2, <1>p, FS_AddElement DEF ThreadInv
  <2>4. TypeOK'
    BY <1>u, <2>1 DEF TypeOK, PC, LogIndex, LOGSIZE
  <2>5. ThreadInv'
    BY <1>1, <1>u, <1>p, <2>1, <2>3 DEF ThreadInv, CommitPC
  <2>6. WroteInv'
    BY <1>u, <1>p, <2>1, <2>2 DEF WroteInv
  <2>7. SpaceInv'
    <3>1. Reserve' \subseteq Ops' \X (1..OpBlocks)
      BY DEF Reserve
    <3>2. /\ Cardinality(Reserve') \in Nat
          /\ Cardinality(Reserve') <= (outstanding + 1) * OpBlocks
      BY <1>s, <2>3, <3>1, ReserveFinite
    <3>3. Len(lh) + (outstanding + 1) * MAXOPBLOCKS <= nlog
      BY <1>1 DEF LogSpace, LOGSIZE
    <3>4. Len(lh) + Cardinality(Reserve') <= nlog - 2
      <4>1. CASE outstanding = 0
        <5>1. Len(lh) = 0
          BY <4>1, <1>1, <1>p DEF HeaderInv
        <5> QED
          BY <5>1, <4>1, <3>2, <1>s
      <4>2. CASE outstanding > 0
        <5>1. (outstanding + 1) * MAXOPBLOCKS >= (outstanding + 1) * (OpBlocks + 1)
          BY <1>s
        <5>2. (outstanding + 1) * (OpBlocks + 1)
                 = (outstanding + 1) * OpBlocks + outstanding + 1
          BY <1>s
        <5>3. (outstanding + 1) * OpBlocks \in Nat /\ (outstanding + 1) * MAXOPBLOCKS \in Nat
          BY <1>s
        <5> QED
          BY <5>1, <5>2, <5>3, <4>2, <3>2, <3>3, <1>s
      <4> QED
        BY <4>1, <4>2, <1>s
    <3> QED
      BY <3>4, <1>u DEF SpaceInv
  <2>8. HeaderInv'
    BY <1>h, <2>1, <1>s DEF HeaderInv
  <2>9. SleeperHasWaker'
    BY <2>1, <1>s DEF SleeperHasWaker
  <2>10. CommitInv'
    BY <1>u, <1>p, <1>m, <2>1 DEF CommitInv
  <2>11. BootInv'
    BY <1>u, <1>p, <1>m, <2>1 DEF BootInv
  <2> QED
    BY <1>c, <2>4, <2>5, <2>6, <2>7, <2>8, <2>9, <2>10, <2>11
<1>2. CASE ~(~committing /\ LogSpace)
  <2>1. pc' = [pc EXCEPT ![t] = "sleeping"] /\ outstanding' = outstanding
    BY <1>2 DEF BeginOp
  <2>2. Ops' = Ops
    BY <2>1, <1>p DEF Ops
  <2>4. TypeOK'
    BY <1>u, <2>1 DEF TypeOK, PC, LogIndex, LOGSIZE
  <2>5. ThreadInv'
    BY <1>u, <1>p, <2>1, <2>2 DEF ThreadInv, CommitPC
  <2>6. WroteInv'
    BY <1>u, <1>p, <2>1, <2>2 DEF WroteInv
  <2>7. SpaceInv'
    BY <1>u, <2>2, SameSpace
  <2>8. HeaderInv'
    BY <1>h, <1>u, <2>1 DEF HeaderInv
  <2>9. SleeperHasWaker'
    <3>1. CASE committing
      BY <3>1, <1>u DEF SleeperHasWaker
    <3>2. CASE ~committing /\ outstanding = 0
      <4>1. Len(lh) = 0
        BY <3>2, <1>p DEF HeaderInv
      <4>2. ~(0 + (0 + 1) * MAXOPBLOCKS <= nlog)
        BY <4>1, <3>2, <1>2 DEF LogSpace, LOGSIZE
      <4> QED
        BY <4>2, <1>s
    <3> QED
      BY <3>1, <3>2, <2>1, <1>s DEF SleeperHasWaker
  <2>10. CommitInv'
    BY <1>u, <1>p, <1>m, <2>1 DEF CommitInv
  <2>11. BootInv'
    BY <1>u, <1>p, <1>m, <2>1 DEF BootInv
  <2> QED
    BY <1>c, <2>4, <2>5, <2>6, <2>7, <2>8, <2>9, <2>10, <2>11
<1> QED
  BY <1>1, <1>2

\* kill() only sends a sleeper back to its loop.
LEMMA KillWakesIInv ==
  ASSUME NEW t \in Thread, IInv, KillWakes(t)
  PROVE  IInv'
<1> USE DEF IInv, At, Goto
<1>u. UNCHANGED <<disk, bufs, log, tail, buf, wrote, boot, crashes, panicked,
                  home, logblk, head, nlog, cache, dirty, lh, outstanding, committing>>
  BY DEF KillWakes, disk, bufs, log
<1>1. /\ pc \in [Thread -> PC] /\ pc[t] = "sleeping"
      /\ pc' = [pc EXCEPT ![t] = "begin"]
  BY DEF KillWakes, TypeOK
<1>2. Ops' = Ops
  BY <1>1 DEF Ops
<1>m. /\ \A n : CopiedTo(n)' = CopiedTo(n)
      /\ \A n : InstalledTo(n)' = InstalledTo(n)
      /\ \A n : CleanTo(n)' = CleanTo(n)
      /\ All' = All
  BY <1>u DEF CopiedTo, InstalledTo, CleanTo, All, Contents
<1>3. TypeOK'
  BY <1>u, <1>1 DEF TypeOK, PC, LogIndex, LOGSIZE
<1>4. ThreadInv'
  BY <1>u, <1>1, <1>2 DEF ThreadInv, CommitPC, KillWakes
<1>5. WroteInv'
  BY <1>u, <1>1, <1>2 DEF WroteInv
<1>6. SpaceInv'
  BY <1>u, <1>2, SameSpace
<1>7. HeaderInv'
  BY <1>u DEF HeaderInv, NoDups
<1>8. SleeperHasWaker'
  BY <1>u, <1>1 DEF SleeperHasWaker
<1>9. CacheInv'
  BY <1>u, SameCache
<1>10. CommitInv'
  BY <1>u, <1>1, <1>m DEF CommitInv
<1>11. BootInv'
  BY <1>u, <1>1, <1>m DEF BootInv, KillWakes
<1> QED
  BY <1>3, <1>4, <1>5, <1>6, <1>7, <1>8, <1>9, <1>10, <1>11

-----------------------------------------------------------------------------
(***************************************************************************)
(* The steps of an operation.                                              *)
(***************************************************************************)
\* No commit is in progress while an operation runs, and the header on disk
\* is empty.
LEMMA InOperation ==
  ASSUME IInv, NEW t \in Ops, boot = "up"
  PROVE  /\ outstanding \in Nat /\ outstanding > 0 /\ ~committing
         /\ \A u \in Thread : pc[u] \notin CommitPC
         /\ head = <<>>
<1>1. IsFiniteSet(Ops) /\ outstanding = Cardinality(Ops) /\ outstanding \in Nat
  BY DEF IInv, ThreadInv, TypeOK
<1>2. outstanding # 0
  BY <1>1, FS_EmptySet
<1>3. ~committing /\ \A u \in Thread : pc[u] \notin CommitPC
  BY <1>2 DEF IInv, ThreadInv
<1>4. head = <<>>
  BY <1>3 DEF IInv, BootInv, CommitPC
<1> QED
  BY <1>1, <1>2, <1>3, <1>4

\* The blocks an operation has in the log are among those it wrote.
LEMMA LoggedShare ==
  ASSUME NEW W, NEW V, NEW A, NEW B, IsFiniteSet(W), V \subseteq W, A \subseteq B
  PROVE  /\ IsFiniteSet(W \cap B) /\ IsFiniteSet(V \cap A)
         /\ Cardinality(W \cap B) \in Nat /\ Cardinality(V \cap A) \in Nat
         /\ Cardinality(V \cap A) <= Cardinality(W \cap B)
         /\ Cardinality(W \cap B) <= Cardinality(W)
<1>1. IsFiniteSet(W \cap B) /\ Cardinality(W \cap B) <= Cardinality(W)
  BY FS_Subset
<1>2. IsFiniteSet(V \cap A) /\ Cardinality(V \cap A) <= Cardinality(W \cap B)
  BY <1>1, FS_Subset
<1> QED
  BY <1>1, <1>2, FS_CardinalityType

\* The holder of a buffer modifies it: only the writer's share of the log
\* may grow, and the buffer is held while it differs from the disk.
LEMMA ModifyIInv ==
  ASSUME NEW t \in Thread, NEW b \in Block, NEW v \in Val, IInv, Modify(t, b, v)
  PROVE  IInv'
<1> USE DEF IInv, At, Goto
<1>u. UNCHANGED <<disk, dirty, log, tail, boot, crashes, panicked,
                  home, logblk, head, nlog, lh, outstanding, committing>>
  BY DEF Modify, disk, log
<1>1. /\ pc \in [Thread -> PC] /\ pc[t] = "inop" /\ boot = "up"
      /\ pc' = [pc EXCEPT ![t] = "modified"]
      /\ cache' = [cache EXCEPT ![b] = v]
      /\ buf' = [buf EXCEPT ![t] = b]
      /\ wrote' = [wrote EXCEPT ![t] = @ \cup {b}]
      /\ wrote \in [Thread -> SUBSET Block]
      /\ cache \in [Block -> Val \cup {NotCached}]
      /\ buf \in [Thread -> Block \cup {NoBlock}]
      /\ b \in wrote[t] \/ Cardinality(wrote[t]) < OpBlocks
  BY DEF Modify, TypeOK
<1>s. /\ nlog \in Nat /\ OpBlocks \in Nat /\ Len(lh) \in Nat /\ Len(head) \in Nat
      /\ NoBlock \notin Block
  BY Sizes
<1>2. Ops' = Ops /\ t \in Ops
  BY <1>1 DEF Ops
<1>3. /\ outstanding > 0 /\ ~committing /\ head = <<>>
      /\ \A u \in Thread : pc[u] \notin CommitPC
  BY <1>1, <1>2, InOperation
<1>4. TypeOK'
  BY <1>u, <1>1 DEF TypeOK, PC, LogIndex, LOGSIZE
<1>5. ThreadInv'
  BY <1>u, <1>1, <1>2 DEF ThreadInv, CommitPC
<1>w. IsFiniteSet(wrote'[t]) /\ Cardinality(wrote'[t]) <= OpBlocks
  <2>1. IsFiniteSet(wrote[t]) /\ Cardinality(wrote[t]) <= OpBlocks
    BY DEF WroteInv
  <2>2. CASE b \in wrote[t]
    <3>1. wrote'[t] = wrote[t]
      BY <1>1, <2>2
    <3> QED
      BY <2>1, <3>1
  <2>3. CASE b \notin wrote[t]
    <3>1. wrote'[t] = wrote[t] \cup {b}
      BY <1>1
    <3>2. IsFiniteSet(wrote'[t]) /\ Cardinality(wrote'[t]) = Cardinality(wrote[t]) + 1
      BY <3>1, <2>1, <2>3, FS_AddElement
    <3> QED
      BY <3>2, <2>1, <2>3, <1>1, <1>s, FS_CardinalityType
  <2> QED
    BY <2>2, <2>3
<1>6. WroteInv'
  <2> SUFFICES ASSUME NEW u \in Thread
               PROVE  /\ IsFiniteSet(wrote'[u]) /\ Cardinality(wrote'[u]) <= OpBlocks
                      /\ u \notin Ops' => wrote'[u] = {}
                      /\ (buf'[u] = NoBlock) <=> (pc'[u] \notin {"modified", "checked"})
                      /\ buf'[u] # NoBlock => buf'[u] \in wrote'[u]
    BY DEF WroteInv
  <2>1. CASE u = t
    BY <2>1, <1>w, <1>1, <1>2, <1>s
  <2>2. CASE u # t
    BY <2>2, <1>1, <1>2 DEF WroteInv
  <2> QED
    BY <2>1, <2>2
<1>7. SpaceInv'
  <2>1. Reserve' \subseteq Reserve
    <3> SUFFICES ASSUME NEW r \in Reserve' PROVE r \in Reserve
      OBVIOUS
    <3>1. /\ r \in Ops \X (1..OpBlocks) /\ r[1] \in Thread /\ r[2] \in Nat
          /\ r[2] <= OpBlocks - Cardinality(wrote'[r[1]] \cap Logged)
      BY <1>2, <1>u, <1>s DEF Reserve, Logged, Ops
    <3>2. wrote[r[1]] \subseteq wrote'[r[1]] /\ IsFiniteSet(wrote'[r[1]])
      BY <1>1, <1>6, <3>1 DEF WroteInv
    <3>3. /\ Cardinality(wrote[r[1]] \cap Logged) <= Cardinality(wrote'[r[1]] \cap Logged)
          /\ Cardinality(wrote[r[1]] \cap Logged) \in Nat
          /\ Cardinality(wrote'[r[1]] \cap Logged) \in Nat
      BY <3>2, LoggedShare
    <3> QED
      BY <3>1, <3>3, <1>s DEF Reserve
  <2>2. IsFiniteSet(Reserve)
    <3>1. Reserve \subseteq Ops \X (1..OpBlocks)
      BY DEF Reserve
    <3> QED
      BY <3>1, <1>s, ReserveFinite DEF ThreadInv
  <2>3. /\ Cardinality(Reserve') <= Cardinality(Reserve)
        /\ Cardinality(Reserve') \in Nat /\ Cardinality(Reserve) \in Nat
    BY <2>1, <2>2, FS_Subset, FS_CardinalityType
  <2> QED
    BY <1>u, <1>1, <1>s, <2>3 DEF SpaceInv
<1>8. HeaderInv'
  BY <1>u, <1>3 DEF HeaderInv, NoDups
<1>9. SleeperHasWaker'
  BY <1>u, <1>3 DEF SleeperHasWaker
<1>10. CacheInv'
  <2>1. \A c \in Block : dirty'[c] => (c \in Logged' /\ boot' = "up")
    BY <1>u DEF CacheInv, Logged
  <2>2. \A c \in Block : (cache'[c] # NotCached /\ ~dirty'[c] /\ ~Held(c)')
                            => cache'[c] = home'[c]
    <3> SUFFICES ASSUME NEW c \in Block, cache'[c] # NotCached, ~dirty'[c], ~Held(c)'
                 PROVE  cache'[c] = home'[c]
      OBVIOUS
    <3>1. c # b
      BY <1>1 DEF Held
    <3>2. ~Held(c)
      BY <1>1, <1>s DEF Held, WroteInv
    <3> QED
      BY <3>1, <3>2, <1>1, <1>u DEF CacheInv
  <2> QED
    BY <2>1, <2>2 DEF CacheInv
<1>11. CommitInv'
  BY <1>1, <1>3 DEF CommitInv, CommitPC
<1>12. BootInv'
  BY <1>u, <1>1, <1>3 DEF BootInv
<1> QED
  BY <1>4, <1>5, <1>6, <1>7, <1>8, <1>9, <1>10, <1>11, <1>12

\* log_write()'s tests of the length of the log pass, with or without the lock.
LEMMA LogWriteCheckIInv ==
  ASSUME NEW t \in Thread, IInv, LogWriteCheck(t)
  PROVE  IInv'
<1> USE DEF IInv, At, Goto
<1>u. UNCHANGED <<disk, bufs, log, tail, buf, wrote, boot, crashes,
                  home, logblk, head, nlog, cache, dirty, lh, outstanding, committing>>
  BY DEF LogWriteCheck, disk, bufs, log
<1>1. /\ pc \in [Thread -> PC] /\ pc[t] = "modified" /\ boot = "up"
      /\ pc' = [pc EXCEPT ![t] = "checked"]
  BY DEF LogWriteCheck, TypeOK
<1>s. /\ nlog \in Nat /\ OpBlocks \in Nat /\ Len(lh) \in Nat /\ Len(head) \in Nat
  BY Sizes
<1>2. Ops' = Ops /\ t \in Ops
  BY <1>1 DEF Ops
<1>3. /\ outstanding \in Nat /\ outstanding > 0 /\ ~committing /\ head = <<>>
      /\ \A u \in Thread : pc[u] \notin CommitPC
  BY <1>1, <1>2, InOperation
<1>4. panicked' = FALSE
  <2>1. Reserve \subseteq Ops \X (1..OpBlocks)
    BY DEF Reserve
  <2>2. Cardinality(Reserve) \in Nat
    BY <2>1, <1>s, ReserveFinite DEF ThreadInv
  <2>3. Len(lh) <= nlog - 2
    BY <2>2, <1>s, <1>1 DEF SpaceInv
  <2>4. ~(Len(lh) >= nlog) /\ ~(Len(lh) >= nlog - 1) /\ ~(outstanding < 1)
    BY <2>3, <1>s, <1>3
  <2> QED
    BY <2>4 DEF LogWriteCheck, LOGSIZE
<1>5. TypeOK'
  BY <1>u, <1>1, <1>4 DEF TypeOK, PC, LogIndex, LOGSIZE
<1>6. ThreadInv'
  BY <1>u, <1>1, <1>2, <1>4 DEF ThreadInv, CommitPC
<1>7. WroteInv'
  BY <1>u, <1>1, <1>2 DEF WroteInv
<1>8. SpaceInv'
  BY <1>u, <1>2, SameSpace
<1>9. HeaderInv'
  BY <1>u DEF HeaderInv, NoDups
<1>10. SleeperHasWaker'
  BY <1>u, <1>3 DEF SleeperHasWaker
<1>11. CacheInv'
  BY <1>u, SameCache
<1>12. CommitInv'
  BY <1>1, <1>3 DEF CommitInv, CommitPC
<1>13. BootInv'
  BY <1>u, <1>1, <1>3 DEF BootInv
<1> QED
  BY <1>5, <1>6, <1>7, <1>8, <1>9, <1>10, <1>11, <1>12, <1>13

\* A block that log_write() adds to the log is taken from the reservation of
\* its operation: one block of the reserve is used up.
LEMMA ReserveShrinks ==
  ASSUME NEW t \in Thread, IInv, LogWrite(t), buf[t] \notin Logged,
         Logged' = Logged \cup {buf[t]}
  PROVE  /\ Cardinality(Reserve') \in Nat /\ Cardinality(Reserve) \in Nat
         /\ Cardinality(Reserve') + 1 <= Cardinality(Reserve)
<1> USE DEF IInv
<1> DEFINE m == Cardinality(wrote[t] \cap Logged)
           r0 == <<t, OpBlocks - m>>
<1>s. OpBlocks \in Nat /\ NoBlock \notin Block
  BY Sizes
<1>1. /\ pc[t] = "checked" /\ wrote' = wrote /\ pc' = [pc EXCEPT ![t] = "inop"]
      /\ pc \in [Thread -> PC]
  BY DEF LogWrite, At, Goto, TypeOK
<1>2. Ops' = Ops /\ t \in Ops
  BY <1>1 DEF Ops
<1>3. buf[t] \in wrote[t] /\ IsFiniteSet(wrote[t]) /\ Cardinality(wrote[t]) <= OpBlocks
  BY <1>1 DEF WroteInv
<1>4. /\ m \in Nat /\ Cardinality(wrote[t] \cap Logged') = m + 1
      /\ m + 1 <= Cardinality(wrote[t]) /\ Cardinality(wrote[t]) \in Nat
  <2>1. wrote[t] \cap Logged' = (wrote[t] \cap Logged) \cup {buf[t]}
    BY <1>3
  <2>2. IsFiniteSet(wrote[t] \cap Logged) /\ m \in Nat
    BY <1>3, LoggedShare
  <2>3. buf[t] \notin wrote[t] \cap Logged
    OBVIOUS
  <2>4. Cardinality((wrote[t] \cap Logged) \cup {buf[t]}) = m + 1
    BY <2>2, <2>3, FS_AddElement
  <2>5. Cardinality(wrote[t] \cap Logged') <= Cardinality(wrote[t])
    BY <1>3, LoggedShare
  <2> QED
    BY <2>1, <2>2, <2>4, <2>5, <1>3, FS_CardinalityType
<1> HIDE DEF m
<1>5. r0 \in Reserve
  <2>1. OpBlocks - m \in 1..OpBlocks /\ OpBlocks - m <= OpBlocks - m
    BY <1>3, <1>4, <1>s
  <2> QED
    BY <2>1, <1>2 DEF Reserve, m
<1>6. Reserve' \subseteq Reserve \ {r0}
  <2> SUFFICES ASSUME NEW r \in Reserve' PROVE r \in Reserve /\ r # r0
    OBVIOUS
  <2>1. /\ r \in Ops \X (1..OpBlocks) /\ r[1] \in Thread /\ r[2] \in Nat
        /\ r[2] <= OpBlocks - Cardinality(wrote[r[1]] \cap Logged')
    BY <1>1, <1>2, <1>s DEF Reserve, Ops
  <2>2. /\ Cardinality(wrote[r[1]] \cap Logged) <= Cardinality(wrote[r[1]] \cap Logged')
        /\ Cardinality(wrote[r[1]] \cap Logged) \in Nat
        /\ Cardinality(wrote[r[1]] \cap Logged') \in Nat
    <3>1. IsFiniteSet(wrote[r[1]])
      BY <2>1 DEF WroteInv
    <3> QED
      BY <3>1, LoggedShare
  <2>3. r \in Reserve
    BY <2>1, <2>2, <1>s DEF Reserve
  <2>4. r # r0
    <3> SUFFICES ASSUME r = r0 PROVE FALSE
      OBVIOUS
    <3>1. r[1] = t /\ r[2] = OpBlocks - m
      OBVIOUS
    <3>2. OpBlocks - m <= OpBlocks - (m + 1)
      BY <2>1, <3>1, <1>4
    <3> QED
      BY <3>2, <1>4, <1>s
  <2> QED
    BY <2>3, <2>4
<1>7. IsFiniteSet(Reserve)
  <2>1. Reserve \subseteq Ops \X (1..OpBlocks)
    BY DEF Reserve
  <2> QED
    BY <2>1, <1>s, ReserveFinite DEF ThreadInv
<1>8. /\ IsFiniteSet(Reserve \ {r0})
      /\ Cardinality(Reserve \ {r0}) = Cardinality(Reserve) - 1
  BY <1>5, <1>7, FS_RemoveElement
<1>9. IsFiniteSet(Reserve') /\ Cardinality(Reserve') <= Cardinality(Reserve \ {r0})
  BY <1>6, <1>8, FS_Subset
<1> QED
  BY <1>7, <1>8, <1>9, FS_CardinalityType

\* log_write() adds the block, or absorbs it, and pins the buffer.
LEMMA LogWriteIInv ==
  ASSUME NEW t \in Thread, IInv, LogWrite(t)
  PROVE  IInv'
<1> USE DEF IInv, At, Goto
<1>u. UNCHANGED <<disk, cache, outstanding, committing, tail, wrote, boot,
                  crashes, panicked, home, logblk, head, nlog>>
  BY DEF LogWrite, disk
<1>1. /\ pc \in [Thread -> PC] /\ pc[t] = "checked" /\ boot = "up"
      /\ pc' = [pc EXCEPT ![t] = "inop"]
      /\ lh' = IF buf[t] \in Logged THEN lh ELSE Append(lh, buf[t])
      /\ dirty' = [dirty EXCEPT ![buf[t]] = TRUE]
      /\ buf' = [buf EXCEPT ![t] = NoBlock]
      /\ dirty \in [Block -> BOOLEAN]
      /\ buf \in [Thread -> Block \cup {NoBlock}]
      /\ lh \in Seq(Block)
  BY DEF LogWrite, TypeOK
<1>s. /\ nlog \in Nat /\ OpBlocks \in Nat /\ Len(lh) \in Nat /\ Len(head) \in Nat
      /\ NoBlock \notin Block
  BY Sizes
<1>b. buf[t] \in Block
  BY <1>1 DEF WroteInv
<1>2. Ops' = Ops /\ t \in Ops
  BY <1>1 DEF Ops
<1>3. /\ outstanding > 0 /\ ~committing /\ head = <<>>
      /\ \A u \in Thread : pc[u] \notin CommitPC
  BY <1>1, <1>2, InOperation
<1>4. /\ lh' \in Seq(Block) /\ NoDups(lh') /\ Logged' = Logged \cup {buf[t]}
      /\ buf[t] \in Logged => lh' = lh
      /\ buf[t] \notin Logged => Len(lh') = Len(lh) + 1
  <2>1. CASE buf[t] \in Logged
    <3>1. lh' = lh
      BY <2>1, <1>1
    <3> QED
      BY <2>1, <3>1, <1>1 DEF HeaderInv, NoDups, Logged
  <2>2. CASE buf[t] \notin Logged
    <3>1. /\ lh' = Append(lh, buf[t]) /\ Len(lh') = Len(lh) + 1
          /\ lh' \in Seq(Block)
          /\ \A i \in 1..Len(lh) : lh'[i] = lh[i]
          /\ lh'[Len(lh) + 1] = buf[t]
      BY <2>2, <1>1, <1>b
    <3>2. \A i \in 1..Len(lh') : i \in 1..Len(lh) \/ i = Len(lh) + 1
      BY <3>1, <1>s
    <3>3. \A i \in 1..Len(lh) : lh[i] # buf[t]
      BY <2>2 DEF Logged
    <3>4. NoDups(lh')
      BY <3>1, <3>2, <3>3 DEF HeaderInv, NoDups
    <3>5. Logged' = Logged \cup {buf[t]}
      <4>1. \A i \in 1..Len(lh) : i \in 1..Len(lh')
        BY <3>1, <1>s
      <4>2. Len(lh) + 1 \in 1..Len(lh')
        BY <3>1, <1>s
      <4>3. Logged' \subseteq Logged \cup {buf[t]}
        BY <3>1, <3>2 DEF Logged
      <4>4. Logged \subseteq Logged'
        BY <3>1, <4>1 DEF Logged
      <4>5. buf[t] \in Logged'
        BY <3>1, <4>2 DEF Logged
      <4> QED
        BY <4>3, <4>4, <4>5
    <3> QED
      BY <2>2, <3>1, <3>4, <3>5
  <2> QED
    BY <2>1, <2>2
<1>5. TypeOK'
  BY <1>u, <1>1, <1>4 DEF TypeOK, PC, LogIndex, LOGSIZE
<1>6. ThreadInv'
  BY <1>u, <1>1, <1>2 DEF ThreadInv, CommitPC
<1>7. WroteInv'
  BY <1>u, <1>1, <1>2 DEF WroteInv
<1>8. SpaceInv'
  <2>1. CASE buf[t] \in Logged
    BY <2>1, <1>4, <1>u, <1>2, SameSpace
  <2>2. CASE buf[t] \notin Logged
    <3>1. /\ Cardinality(Reserve') \in Nat /\ Cardinality(Reserve) \in Nat
          /\ Cardinality(Reserve') + 1 <= Cardinality(Reserve)
      BY <2>2, <1>4, ReserveShrinks
    <3> QED
      BY <3>1, <2>2, <1>4, <1>u, <1>1, <1>s DEF SpaceInv
  <2> QED
    BY <2>1, <2>2
<1>9. HeaderInv'
  <2>1. NoDups(head)'
    BY <1>u DEF HeaderInv, NoDups
  <2>2. NoDups(lh)'
    BY <1>4 DEF NoDups
  <2> QED
    BY <2>1, <2>2, <1>u, <1>3 DEF HeaderInv
<1>10. SleeperHasWaker'
  BY <1>u, <1>3 DEF SleeperHasWaker
<1>11. CacheInv'
  <2>1. \A c \in Block : dirty'[c] => (c \in Logged' /\ boot' = "up")
    BY <1>u, <1>1, <1>4 DEF CacheInv
  <2>2. \A c \in Block : (cache'[c] # NotCached /\ ~dirty'[c] /\ ~Held(c)')
                            => cache'[c] = home'[c]
    <3> SUFFICES ASSUME NEW c \in Block, cache'[c] # NotCached, ~dirty'[c], ~Held(c)'
                 PROVE  cache'[c] = home'[c]
      OBVIOUS
    <3>1. c # buf[t] /\ ~dirty[c]
      BY <1>1, <1>b
    <3>2. ~Held(c)
      BY <3>1, <1>1 DEF Held
    <3> QED
      BY <3>1, <3>2, <1>u DEF CacheInv
  <2> QED
    BY <2>1, <2>2 DEF CacheInv
<1>12. CommitInv'
  BY <1>1, <1>3 DEF CommitInv, CommitPC
<1>13. BootInv'
  BY <1>u, <1>1, <1>3 DEF BootInv
<1> QED
  BY <1>5, <1>6, <1>7, <1>8, <1>9, <1>10, <1>11, <1>12, <1>13

\* end_op() gives its reservation back, and the last one starts the commit.
LEMMA EndOpIInv ==
  ASSUME NEW t \in Thread, IInv, EndOp(t)
  PROVE  IInv'
<1> USE DEF IInv, At, Goto
<1>u. UNCHANGED <<disk, bufs, lh, buf, boot, crashes,
                  home, logblk, head, nlog, cache, dirty>>
  BY DEF EndOp, disk, bufs
<1>s. /\ nlog \in Nat /\ OpBlocks \in Nat /\ Len(lh) \in Nat /\ Len(head) \in Nat
      /\ MAXOPBLOCKS \in Nat /\ MAXOPBLOCKS < nlog
  BY Sizes
<1>1. /\ pc \in [Thread -> PC] /\ pc[t] = "inop" /\ boot = "up"
      /\ wrote \in [Thread -> SUBSET Block]
      /\ outstanding' = outstanding - 1 /\ tail' = 1 /\ panicked' = committing
      /\ wrote' = [wrote EXCEPT ![t] = {}]
  BY DEF EndOp, TypeOK
<1>2. t \in Ops
  BY <1>1 DEF Ops
<1>3. /\ outstanding \in Nat /\ outstanding > 0 /\ ~committing /\ head = <<>>
      /\ \A u \in Thread : pc[u] \notin CommitPC
  BY <1>1, <1>2, InOperation
<1> DEFINE next == IF lh = <<>> THEN "committed" ELSE "write_log"
<1>4. \/ /\ outstanding = 1 /\ committing' = TRUE
         /\ pc' = [pc EXCEPT ![t] = next]
      \/ /\ outstanding # 1 /\ committing' = FALSE
         /\ pc' = [u \in Thread |-> IF u = t THEN "idle"
                                    ELSE IF pc[u] = "sleeping" THEN "begin" ELSE pc[u]]
  BY <1>3 DEF EndOp, WakeupLog
<1>5. Ops' = Ops \ {t}
  BY <1>1, <1>4 DEF Ops
<1>6. IsFiniteSet(Ops') /\ Cardinality(Ops') = outstanding'
  BY <1>1, <1>2, <1>5, FS_RemoveElement DEF ThreadInv
<1>7. TypeOK'
  <2>1. pc' \in [Thread -> PC] /\ committing' \in BOOLEAN
    BY <1>1, <1>4 DEF PC
  <2>2. outstanding' \in Nat /\ tail' \in LogIndex' /\ panicked' = FALSE
    BY <1>1, <1>3, <1>s, <1>u DEF LogIndex, LOGSIZE
  <2> QED
    BY <2>1, <2>2, <1>u, <1>1 DEF TypeOK, LogIndex, LOGSIZE
<1>8. ThreadInv'
  <2>1. committing' => outstanding' = 0
    BY <1>4, <1>1
  <2>2. \A u \in Thread : pc'[u] \in CommitPC => committing' /\ u = t
    BY <1>4, <1>3, <1>1 DEF CommitPC
  <2> QED
    BY <2>1, <2>2, <1>6, <1>u, <1>1, <1>3 DEF ThreadInv
<1>9. WroteInv'
  <2> SUFFICES ASSUME NEW u \in Thread
               PROVE  /\ IsFiniteSet(wrote'[u]) /\ Cardinality(wrote'[u]) <= OpBlocks
                      /\ u \notin Ops' => wrote'[u] = {}
                      /\ (buf'[u] = NoBlock) <=> (pc'[u] \notin {"modified", "checked"})
                      /\ buf'[u] # NoBlock => buf'[u] \in wrote'[u]
    BY DEF WroteInv
  <2>1. CASE u = t
    <3>1. wrote'[u] = {} /\ buf'[u] = NoBlock /\ pc'[u] \notin {"modified", "checked"}
      BY <2>1, <1>1, <1>4, <1>u DEF WroteInv
    <3> QED
      BY <3>1, <1>s, FS_EmptySet
  <2>2. CASE u # t
    <3>1. (pc'[u] \in {"modified", "checked"}) <=> (pc[u] \in {"modified", "checked"})
      BY <2>2, <1>1, <1>4
    <3> QED
      BY <2>2, <3>1, <1>1, <1>5, <1>u DEF WroteInv
  <2> QED
    BY <2>1, <2>2
<1>10. SpaceInv'
  <2>1. Reserve' \subseteq Reserve
    <3>1. Logged' = Logged /\ Ops \subseteq Thread
      BY <1>u DEF Logged, Ops
    <3>2. \A u \in Ops' : u \in Ops /\ wrote'[u] = wrote[u]
      BY <3>1, <1>1, <1>5
    <3>3. \A r \in Reserve' : r \in Reserve
      BY <3>1, <3>2 DEF Reserve
    <3> QED
      BY <3>3
  <2>2. IsFiniteSet(Reserve)
    <3>1. Reserve \subseteq Ops \X (1..OpBlocks)
      BY DEF Reserve
    <3> QED
      BY <3>1, <1>s, ReserveFinite DEF ThreadInv
  <2>3. /\ Cardinality(Reserve') <= Cardinality(Reserve)
        /\ Cardinality(Reserve') \in Nat /\ Cardinality(Reserve) \in Nat
    BY <2>1, <2>2, FS_Subset, FS_CardinalityType
  <2> QED
    BY <1>u, <1>1, <1>s, <2>3 DEF SpaceInv
<1>11. HeaderInv'
  <2>1. ~(outstanding' = 0 /\ ~committing')
    BY <1>1, <1>3, <1>4
  <2> QED
    BY <2>1, <1>u DEF HeaderInv, NoDups
<1>12. SleeperHasWaker'
  <2>1. outstanding' > 0 \/ committing'
    BY <1>1, <1>3, <1>4
  <2> QED
    BY <2>1 DEF SleeperHasWaker
<1>13. CacheInv'
  BY <1>u, SameCache
<1>14. CommitInv'
  <2>1. \A u \in Thread : pc'[u] \in CommitPC => u = t /\ pc'[t] = next
    BY <1>4, <1>3, <1>1 DEF CommitPC
  <2>2. next = "write_log" => tail' \in 1..Len(lh') /\ CopiedTo(tail)'
    <3>1. lh # <<>> => Len(lh) # 0
      BY DEF TypeOK
    <3> QED
      BY <3>1, <1>1, <1>u, <1>s DEF CopiedTo
  <2>3. next = "committed" => lh' = <<>>
    BY <1>u
  <2>4. next \in {"write_log", "committed"}
    OBVIOUS
  <2> HIDE DEF next
  <2> QED
    BY <2>1, <2>2, <2>3, <2>4 DEF CommitInv, CommitPC
<1>15. BootInv'
  BY <1>u, <1>1, <1>3 DEF BootInv
<1> QED
  BY <1>7, <1>8, <1>9, <1>10, <1>11, <1>12, <1>13, <1>14, <1>15

-----------------------------------------------------------------------------
(***************************************************************************)
(* commit()                                                                *)
(***************************************************************************)
\* While a thread commits no operation runs, nobody else commits, and nobody
\* holds a buffer.
LEMMA InCommit ==
  ASSUME IInv, NEW t \in Thread, pc[t] \in CommitPC
  PROVE  /\ committing /\ outstanding = 0 /\ Ops = {} /\ Reserve = {} /\ boot = "up"
         /\ \A u \in Thread : pc[u] \in CommitPC => u = t
         /\ \A b \in Block : ~Held(b)
<1>1. committing /\ outstanding = 0 /\ boot = "up"
  BY DEF IInv, ThreadInv
<1>2. \A u \in Thread : pc[u] \in CommitPC => u = t
  BY DEF IInv, ThreadInv
<1>3. Ops = {}
  BY <1>1, FS_EmptySet DEF IInv, ThreadInv
<1>4. \A b \in Block : ~Held(b)
  BY <1>3, LogAssumption DEF IInv, WroteInv, Held, Ops
<1> QED
  BY <1>1, <1>2, <1>3, <1>4 DEF Reserve

\* A step of commit() changes neither struct log's counters nor the
\* operations: what it has to preserve is about the header and the blocks.
LEMMA CommitStep ==
  ASSUME IInv, NEW t \in Thread, pc[t] \in CommitPC, NEW there \in CommitPC,
         pc' = [pc EXCEPT ![t] = there],
         UNCHANGED <<nlog, outstanding, committing, buf, wrote, boot, crashes, panicked>>,
         lh' = lh \/ lh' = <<>>, head' \in {head, lh, <<>>}
  PROVE  /\ ThreadInv' /\ WroteInv' /\ SpaceInv' /\ HeaderInv' /\ SleeperHasWaker'
         /\ pc' \in [Thread -> PC]
         /\ \A u \in Thread : pc'[u] \in CommitPC => u = t /\ pc'[u] = there
         /\ \A b \in Block : ~Held(b)'
<1> USE DEF IInv
<1>s. /\ nlog \in Nat /\ Len(lh) \in Nat /\ Len(head) \in Nat
      /\ MAXOPBLOCKS \in Nat /\ MAXOPBLOCKS < nlog /\ OpBlocks \in Nat /\ OpBlocks < MAXOPBLOCKS
  BY Sizes
<1>p. pc \in [Thread -> PC]
  BY DEF TypeOK
<1>1. /\ committing /\ outstanding = 0 /\ Ops = {} /\ Reserve = {} /\ boot = "up"
      /\ \A u \in Thread : pc[u] \in CommitPC => u = t
      /\ \A b \in Block : ~Held(b)
  BY InCommit
<1>2. Ops' = {} /\ Reserve' = {}
  <2>1. Ops' = {}
    BY <1>1, <1>p DEF Ops, CommitPC
  <2> QED
    BY <2>1 DEF Reserve
<1>3. ThreadInv'
  BY <1>1, <1>2, <1>p, FS_EmptySet DEF ThreadInv, CommitPC
<1>4. WroteInv'
  BY <1>1, <1>2, <1>p DEF WroteInv, CommitPC
<1>5. SpaceInv'
  <2>1. Len(lh') \in Nat /\ Len(lh') <= nlog - 2
    <3>1. Len(lh) <= nlog - 2
      BY <1>1, <1>s, FS_EmptySet DEF SpaceInv
    <3>2. Len(<<>>) = 0
      OBVIOUS
    <3> QED
      BY <3>1, <3>2, <1>s
  <2>2. Len(head') <= nlog - 1
    <3>1. Len(<<>>) = 0
      OBVIOUS
    <3> QED
      BY <3>1, <1>s DEF SpaceInv
  <2> QED
    BY <2>1, <2>2, <1>2, <1>s, FS_EmptySet DEF SpaceInv
<1>6. HeaderInv'
  <2>1. NoDups(<<>>)
    BY DEF NoDups
  <2>2. NoDups(lh') /\ NoDups(head')
    BY <2>1 DEF HeaderInv
  <2>3. NoDups(lh)' /\ NoDups(head)'
    BY <2>2 DEF NoDups
  <2> QED
    BY <2>3, <1>1 DEF HeaderInv
<1>7. SleeperHasWaker'
  BY <1>1 DEF SleeperHasWaker
<1>8. pc' \in [Thread -> PC]
  BY <1>p DEF PC, CommitPC
<1>9. \A u \in Thread : pc'[u] \in CommitPC => u = t /\ pc'[u] = there
  BY <1>p, <1>1
<1>10. \A b \in Block : ~Held(b)'
  BY <1>1 DEF Held
<1> QED
  BY <1>3, <1>4, <1>5, <1>6, <1>7, <1>8, <1>9, <1>10

\* write_log() copies one more block, without a change of what a reader sees.
LEMMA WriteLogIInv ==
  ASSUME NEW t \in Thread, IInv, WriteLog(t)
  PROVE  IInv' /\ \A b \in Block : Contents(b)' = Contents(b)
<1> USE DEF IInv, At, Goto
<1> DEFINE there == IF tail = Len(lh) THEN "write_head" ELSE "write_log"
<1>u. UNCHANGED <<nlog, home, head, dirty, lh, outstanding, committing, buf, wrote,
                  boot, crashes, panicked>>
  BY DEF WriteLog, log
<1>s. /\ nlog \in Nat /\ Len(lh) \in Nat /\ LogIndex = 1..nlog
      /\ Len(lh) <= nlog - 1 /\ NotCached \notin Val
  BY Sizes DEF SpaceInv
<1>1. /\ pc[t] = "write_log" /\ pc[t] \in CommitPC /\ pc \in [Thread -> PC]
      /\ logblk' = [logblk EXCEPT ![tail] = Contents(lh[tail])]
      /\ cache' = [cache EXCEPT ![lh[tail]] = Contents(lh[tail])]
      /\ tail' = IF tail = Len(lh) THEN 1 ELSE tail + 1
      /\ lh \in Seq(Block) /\ home \in [Block -> Val] /\ logblk \in [LogIndex -> Val]
      /\ cache \in [Block -> Val \cup {NotCached}]
  BY DEF WriteLog, TypeOK, CommitPC
<1>2. pc' = [pc EXCEPT ![t] = there]
  <2>1. CASE tail = Len(lh)
    BY <2>1 DEF WriteLog
  <2>2. CASE tail # Len(lh)
    <3>1. pc' = pc
      BY <2>2 DEF WriteLog
    <3> QED
      BY <3>1, <2>2, <1>1
  <2> QED
    BY <2>1, <2>2
<1>3. there \in {"write_log", "write_head"} /\ there \in CommitPC
  BY DEF CommitPC
<1>4. tail \in 1..Len(lh) /\ CopiedTo(tail) /\ lh[tail] \in Block
  BY <1>1 DEF CommitInv
<1>5. /\ ThreadInv' /\ WroteInv' /\ SpaceInv' /\ HeaderInv' /\ SleeperHasWaker'
      /\ pc' \in [Thread -> PC]
      /\ \A u \in Thread : pc'[u] \in CommitPC => u = t /\ pc'[u] = there
      /\ \A b \in Block : ~Held(b)'
  <2> HIDE DEF there, IInv
  <2>1. head' \in {head, lh, <<>>} /\ (lh' = lh \/ lh' = <<>>)
    BY <1>u
  <2> QED
    BY <1>u, <1>1, <1>2, <1>3, <2>1, CommitStep
<1>6. \A b \in Block : Contents(b)' = Contents(b) /\ Contents(b) \in Val
  BY <1>1, <1>4, <1>u, <1>s DEF Contents
<1>7. \A i \in 1..Len(lh) : lh[i] \in Block
  BY <1>1
<1>8. TypeOK'
  <2>1. logblk' \in [LogIndex' -> Val] /\ cache' \in [Block -> Val \cup {NotCached}]
    BY <1>1, <1>4, <1>6, <1>u, <1>s DEF LogIndex, LOGSIZE
  <2>2. tail' \in LogIndex'
    BY <1>1, <1>4, <1>u, <1>s DEF LogIndex, LOGSIZE
  <2> QED
    BY <2>1, <2>2, <1>5, <1>u DEF TypeOK
<1>9. CacheInv'
  <2>1. \A b \in Block : dirty'[b] => (b \in Logged' /\ boot' = "up")
    BY <1>u DEF CacheInv, Logged
  <2>2. \A b \in Block : (cache'[b] # NotCached /\ ~dirty'[b] /\ ~Held(b)')
                            => cache'[b] = home'[b]
    <3> SUFFICES ASSUME NEW b \in Block, ~dirty[b] PROVE cache'[b] \in {home[b], NotCached}
      BY <1>u
    <3>1. ~Held(b)
      BY <1>u, <1>5 DEF Held
    <3>2. Contents(b) = home[b]
      BY <3>1 DEF CacheInv, Contents
    <3>3. cache'[b] \in {cache[b], Contents(b)}
      BY <1>1, <1>4
    <3> QED
      BY <3>1, <3>2, <3>3 DEF CacheInv
  <2> QED
    BY <2>1, <2>2 DEF CacheInv
<1>10. \A i \in 1..Len(lh) : i <= tail => logblk'[i] = Contents(lh[i])'
  <2> SUFFICES ASSUME NEW i \in 1..Len(lh), i <= tail
               PROVE  logblk'[i] = Contents(lh[i])
    BY <1>6, <1>7, <1>u DEF Contents
  <2>1. tail \in LogIndex /\ i \in LogIndex
    BY <1>4, <1>s
  <2>2. CASE i = tail
    BY <2>1, <2>2, <1>1
  <2>3. CASE i # tail
    BY <2>1, <2>3, <1>1, <1>4 DEF CopiedTo
  <2> QED
    BY <2>2, <2>3
<1>11. CommitInv'
  <2>1. CASE tail = Len(lh)
    <3>1. there = "write_head" /\ tail' = 1 /\ lh' # <<>>
      BY <2>1, <1>1, <1>4, <1>u
    <3>2. CopiedTo(All)'
      BY <2>1, <1>10, <1>u DEF CopiedTo
    <3> QED
      BY <3>1, <3>2, <1>5 DEF CommitInv, CommitPC
  <2>2. CASE tail # Len(lh)
    <3>1. there = "write_log" /\ tail' = tail + 1 /\ tail' \in 1..Len(lh')
      BY <2>2, <1>1, <1>4, <1>u, <1>s
    <3>2. CopiedTo(tail)'
      BY <3>1, <1>10, <1>u, <1>4, <1>s DEF CopiedTo
    <3> QED
      BY <3>1, <3>2, <1>5 DEF CommitInv, CommitPC
  <2> QED
    BY <2>1, <2>2
<1>12. BootInv'
  <2>1. boot' = "up"
    BY <1>u DEF WriteLog
  <2>2. \A u \in Thread : pc[u] \notin {"install", "erase"}
    BY <1>1, InCommit DEF CommitPC
  <2> QED
    BY <2>1, <2>2, <1>u DEF BootInv
<1> QED
  BY <1>5, <1>6, <1>8, <1>9, <1>11, <1>12

\* The commit point: the header names the blocks that write_log() copied.
LEMMA WriteHeadIInv ==
  ASSUME NEW t \in Thread, IInv, WriteHead(t)
  PROVE  IInv'
<1> USE DEF IInv, At, Goto
<1>u. UNCHANGED <<nlog, home, logblk, cache, dirty, lh, outstanding, committing, tail,
                  buf, wrote, boot, crashes, panicked>>
  BY DEF WriteHead, log, bufs
<1>1. /\ pc[t] = "write_head" /\ pc[t] \in CommitPC /\ pc \in [Thread -> PC]
      /\ head' = lh /\ pc' = [pc EXCEPT ![t] = "install"]
      /\ lh \in Seq(Block) /\ boot = "up"
  BY DEF WriteHead, TypeOK, CommitPC
<1>4. tail = 1 /\ CopiedTo(All) /\ lh # <<>> /\ Len(lh) \in Nat
  BY <1>1 DEF CommitInv
<1>5. /\ ThreadInv' /\ WroteInv' /\ SpaceInv' /\ HeaderInv' /\ SleeperHasWaker'
      /\ pc' \in [Thread -> PC]
      /\ \A u \in Thread : pc'[u] \in CommitPC => u = t /\ pc'[u] = "install"
      /\ \A b \in Block : ~Held(b)'
  <2> HIDE DEF IInv
  <2>1. head' \in {head, lh, <<>>} /\ (lh' = lh \/ lh' = <<>>) /\ "install" \in CommitPC
    BY <1>u, <1>1 DEF CommitPC
  <2> QED
    BY <1>u, <1>1, <2>1, CommitStep
<1>8. TypeOK'
  BY <1>1, <1>5, <1>u DEF TypeOK, LogIndex, LOGSIZE
<1>9. CacheInv'
  BY <1>u, SameCache
<1>10. CommitInv'
  <2>1. CopiedTo(All)'
    BY <1>4, <1>u DEF CopiedTo, All, Contents
  <2>2. InstalledTo(tail)' /\ CleanTo(tail)'
    BY <1>4, <1>u DEF InstalledTo, CleanTo
  <2>3. tail' \in 1..Len(lh') /\ head' = lh'
    BY <1>1, <1>4, <1>u
  <2> QED
    BY <2>1, <2>2, <2>3, <1>5 DEF CommitInv, CommitPC
<1>11. BootInv'
  BY <1>1, <1>u DEF BootInv
<1> QED
  BY <1>5, <1>8, <1>9, <1>10, <1>11

\* One pass of the loop of install_trans(), in commit() or in recovery.
LEMMA InstallFacts ==
  ASSUME TypeOK, NoDups(lh), Len(lh) <= nlog - 1, InstallTrans, tail \in 1..Len(lh),
         InstalledTo(tail), UNCHANGED <<nlog, logblk, lh>>
  PROVE  /\ lh[tail] \in Block /\ tail \in LogIndex /\ tail' \in LogIndex'
         /\ home' \in [Block -> Val] /\ dirty' \in [Block -> BOOLEAN]
         /\ cache' \in [Block -> Val \cup {NotCached}]
         /\ home'[lh[tail]] = logblk[tail] /\ cache'[lh[tail]] = logblk[tail]
         /\ ~dirty'[lh[tail]]
         /\ \A b \in Block : b # lh[tail] => /\ home'[b] = home[b]
                                             /\ cache'[b] = cache[b]
                                             /\ dirty'[b] = dirty[b]
         /\ tail' = IF tail = Len(lh) THEN 1 ELSE tail + 1
         /\ \A i \in 1..Len(lh) : i <= tail => home'[lh[i]] = logblk[i]
<1>s. nlog \in Nat /\ Len(lh) \in Nat /\ LogIndex = 1..nlog
  BY Sizes
<1>1. lh[tail] \in Block /\ tail \in LogIndex /\ logblk[tail] \in Val
  BY <1>s DEF TypeOK
<1>2. /\ home' = [home EXCEPT ![lh[tail]] = logblk[tail]]
      /\ cache' = [cache EXCEPT ![lh[tail]] = logblk[tail]]
      /\ dirty' = [dirty EXCEPT ![lh[tail]] = FALSE]
      /\ tail' = IF tail = Len(lh) THEN 1 ELSE tail + 1
      /\ home \in [Block -> Val] /\ dirty \in [Block -> BOOLEAN]
      /\ cache \in [Block -> Val \cup {NotCached}]
  BY DEF InstallTrans, TypeOK
<1>3. tail' \in LogIndex'
  BY <1>2, <1>s DEF LogIndex, LOGSIZE
<1>4. \A i \in 1..Len(lh) : i <= tail => home'[lh[i]] = logblk[i]
  <2> SUFFICES ASSUME NEW i \in 1..Len(lh), i <= tail PROVE home'[lh[i]] = logblk[i]
    OBVIOUS
  <2>1. CASE i = tail
    BY <2>1, <1>1, <1>2
  <2>2. CASE i < tail
    <3>1. lh[i] # lh[tail] /\ lh[i] \in Block
      BY <2>2, <1>s DEF NoDups, TypeOK
    <3> QED
      BY <3>1, <2>2, <1>1, <1>2 DEF InstalledTo
  <2> QED
    BY <2>1, <2>2, <1>s
<1>5. home' \in [Block -> Val] /\ cache' \in [Block -> Val \cup {NotCached}]
  BY <1>1, <1>2
<1>6. dirty' \in [Block -> BOOLEAN] /\ ~dirty'[lh[tail]]
  BY <1>1, <1>2
<1> QED
  BY <1>1, <1>2, <1>3, <1>4, <1>5, <1>6

\* install_trans() in commit(): a block goes home and its buffer is unpinned;
\* a reader sees no difference.
LEMMA InstallIInv ==
  ASSUME NEW t \in Thread, IInv, Install(t)
  PROVE  IInv' /\ \A b \in Block : Contents(b)' = Contents(b)
<1> USE DEF IInv, At, Goto
<1> DEFINE there == IF tail = Len(lh) THEN "erase" ELSE "install"
<1>u. UNCHANGED <<nlog, logblk, head, lh, outstanding, committing, buf, wrote, boot,
                  crashes, panicked>>
  BY DEF Install, log
<1>s. /\ nlog \in Nat /\ Len(lh) \in Nat /\ LogIndex = 1..nlog
      /\ Len(lh) <= nlog - 1 /\ NotCached \notin Val /\ NoDups(lh)
  BY Sizes DEF SpaceInv, HeaderInv
<1>1. /\ pc[t] = "install" /\ pc[t] \in CommitPC /\ pc \in [Thread -> PC]
      /\ InstallTrans /\ lh \in Seq(Block) /\ boot = "up" /\ logblk \in [LogIndex -> Val]
  BY DEF Install, TypeOK, CommitPC
<1>2. pc' = [pc EXCEPT ![t] = there]
  <2>1. CASE tail = Len(lh)
    BY <2>1 DEF Install
  <2>2. CASE tail # Len(lh)
    <3>1. pc' = pc
      BY <2>2 DEF Install
    <3> QED
      BY <3>1, <2>2, <1>1
  <2> QED
    BY <2>1, <2>2
<1>3. there \in {"install", "erase"} /\ there \in CommitPC
  BY DEF CommitPC
<1>4. /\ tail \in 1..Len(lh) /\ head = lh /\ CopiedTo(All)
      /\ InstalledTo(tail) /\ CleanTo(tail)
  BY <1>1 DEF CommitInv
<1>5. /\ ThreadInv' /\ WroteInv' /\ SpaceInv' /\ HeaderInv' /\ SleeperHasWaker'
      /\ pc' \in [Thread -> PC]
      /\ \A u \in Thread : pc'[u] \in CommitPC => u = t /\ pc'[u] = there
      /\ \A b \in Block : ~Held(b)'
  <2> HIDE DEF there, IInv
  <2>1. head' \in {head, lh, <<>>} /\ (lh' = lh \/ lh' = <<>>)
    BY <1>u
  <2> QED
    BY <1>u, <1>1, <1>2, <1>3, <2>1, CommitStep
<1>6. /\ lh[tail] \in Block /\ tail \in LogIndex /\ tail' \in LogIndex'
      /\ home' \in [Block -> Val] /\ dirty' \in [Block -> BOOLEAN]
      /\ cache' \in [Block -> Val \cup {NotCached}]
      /\ home'[lh[tail]] = logblk[tail] /\ cache'[lh[tail]] = logblk[tail]
      /\ ~dirty'[lh[tail]]
      /\ \A b \in Block : b # lh[tail] => /\ home'[b] = home[b]
                                          /\ cache'[b] = cache[b]
                                          /\ dirty'[b] = dirty[b]
      /\ tail' = IF tail = Len(lh) THEN 1 ELSE tail + 1
      /\ \A i \in 1..Len(lh) : i <= tail => home'[lh[i]] = logblk[i]
  BY <1>u, <1>s, <1>1, <1>4, InstallFacts
<1>7. \A b \in Block : Contents(b)' = Contents(b)
  <2> SUFFICES ASSUME NEW b \in Block PROVE Contents(b)' = Contents(b)
    OBVIOUS
  <2>1. CASE b = lh[tail]
    <3>1. logblk[tail] = Contents(b) /\ logblk[tail] # NotCached
      BY <2>1, <1>1, <1>4, <1>6, <1>s DEF CopiedTo, All
    <3> QED
      BY <3>1, <2>1, <1>6 DEF Contents
  <2>2. CASE b # lh[tail]
    BY <2>2, <1>6 DEF Contents
  <2> QED
    BY <2>1, <2>2
<1>8. TypeOK'
  BY <1>5, <1>6, <1>u DEF TypeOK, LogIndex, LOGSIZE
<1>9. CacheInv'
  <2>1. \A b \in Block : dirty'[b] => (b \in Logged' /\ boot' = "up")
    BY <1>u, <1>1, <1>6 DEF CacheInv, Logged
  <2>2. \A b \in Block : (cache'[b] # NotCached /\ ~dirty'[b] /\ ~Held(b)')
                            => cache'[b] = home'[b]
    <3> SUFFICES ASSUME NEW b \in Block, cache'[b] # NotCached, ~dirty'[b]
                 PROVE  cache'[b] = home'[b]
      OBVIOUS
    <3>1. CASE b = lh[tail]
      BY <3>1, <1>6
    <3>2. CASE b # lh[tail]
      <4>1. ~Held(b)
        BY <1>1, InCommit
      <4> QED
        BY <4>1, <3>2, <1>6 DEF CacheInv
    <3> QED
      BY <3>1, <3>2
  <2> QED
    BY <2>1, <2>2 DEF CacheInv
<1>10. \A i \in 1..Len(lh) : i <= tail => ~dirty'[lh[i]]
  <2> SUFFICES ASSUME NEW i \in 1..Len(lh), i <= tail PROVE ~dirty'[lh[i]]
    OBVIOUS
  <2>1. CASE lh[i] = lh[tail]
    BY <2>1, <1>6
  <2>2. CASE lh[i] # lh[tail]
    <3>1. i < tail /\ lh[i] \in Block
      BY <2>2, <1>1, <1>4, <1>s
    <3> QED
      BY <3>1, <2>2, <1>4, <1>6 DEF CleanTo
  <2> QED
    BY <2>1, <2>2
<1>11. CommitInv'
  <2>1. CopiedTo(All)'
    <3>1. \A i \in 1..Len(lh) : Contents(lh[i])' = Contents(lh[i])
      BY <1>1, <1>7, <1>u DEF Contents
    <3> QED
      BY <3>1, <1>4, <1>u DEF CopiedTo, All
  <2>2. CASE tail = Len(lh)
    <3>1. there = "erase" /\ head' = lh'
      BY <2>2, <1>4, <1>u
    <3>2. InstalledTo(All)' /\ CleanTo(All)'
      BY <2>2, <1>6, <1>10, <1>u DEF InstalledTo, CleanTo
    <3> QED
      BY <3>1, <3>2, <1>5 DEF CommitInv, CommitPC
  <2>3. CASE tail # Len(lh)
    <3>1. there = "install" /\ head' = lh' /\ tail' = tail + 1 /\ tail' \in 1..Len(lh')
      BY <2>3, <1>4, <1>6, <1>u, <1>s
    <3>2. \A i \in 1..Len(lh) : i < tail + 1 => i <= tail
      BY <1>4, <1>s
    <3>3. InstalledTo(tail)' /\ CleanTo(tail)'
      BY <3>1, <3>2, <1>6, <1>10, <1>u DEF InstalledTo, CleanTo
    <3> QED
      BY <2>1, <3>1, <3>3, <1>5 DEF CommitInv, CommitPC
  <2> QED
    BY <2>2, <2>3
<1>12. BootInv'
  <2>1. pc'[t] \in {"install", "erase"}
    BY <1>1, <1>2, <1>3
  <2> QED
    BY <2>1, <1>1, <1>u DEF BootInv
<1> QED
  BY <1>5, <1>7, <1>8, <1>9, <1>11, <1>12

\* The second write_head() of commit() forgets a transaction that is home.
LEMMA EraseIInv ==
  ASSUME NEW t \in Thread, IInv, Erase(t)
  PROVE  IInv'
<1> USE DEF IInv, At, Goto
<1>u. UNCHANGED <<nlog, home, logblk, cache, dirty, outstanding, committing, tail,
                  buf, wrote, boot, crashes, panicked>>
  BY DEF Erase, bufs
<1>1. /\ pc[t] = "erase" /\ pc[t] \in CommitPC /\ pc \in [Thread -> PC]
      /\ head' = <<>> /\ lh' = <<>> /\ pc' = [pc EXCEPT ![t] = "committed"]
      /\ lh \in Seq(Block) /\ boot = "up"
  BY DEF Erase, TypeOK, CommitPC
<1>4. CleanTo(All) /\ Len(lh) \in Nat
  BY <1>1 DEF CommitInv
<1>5. /\ ThreadInv' /\ WroteInv' /\ SpaceInv' /\ HeaderInv' /\ SleeperHasWaker'
      /\ pc' \in [Thread -> PC]
      /\ \A u \in Thread : pc'[u] \in CommitPC => u = t /\ pc'[u] = "committed"
      /\ \A b \in Block : ~Held(b)'
  <2> HIDE DEF IInv
  <2>1. head' \in {head, lh, <<>>} /\ (lh' = lh \/ lh' = <<>>) /\ "committed" \in CommitPC
    BY <1>1 DEF CommitPC
  <2> QED
    BY <1>u, <1>1, <2>1, CommitStep
<1>8. TypeOK'
  BY <1>1, <1>5, <1>u DEF TypeOK, LogIndex, LOGSIZE
<1>9. CacheInv'
  <2>1. \A b \in Block : ~dirty[b] /\ ~Held(b)
    <3>1. \A i \in 1..Len(lh) : ~dirty[lh[i]]
      BY <1>4 DEF CleanTo, All
    <3>2. \A b \in Block : ~dirty[b]
      BY <3>1 DEF CacheInv, Logged
    <3> QED
      BY <3>2, <1>1, InCommit
  <2> QED
    BY <2>1, <1>u DEF CacheInv
<1>10. CommitInv'
  BY <1>1, <1>5 DEF CommitInv, CommitPC
<1>11. BootInv'
  BY <1>1, <1>u DEF BootInv
<1> QED
  BY <1>5, <1>8, <1>9, <1>10, <1>11

\* end_op() ends the commit and wakes the sleepers.
LEMMA EndCommitIInv ==
  ASSUME NEW t \in Thread, IInv, EndCommit(t)
  PROVE  IInv'
<1> USE DEF IInv, At
<1>u. UNCHANGED <<disk, bufs, lh, outstanding, tail, buf, wrote, boot, crashes,
                  panicked, home, logblk, head, nlog, cache, dirty>>
  BY DEF EndCommit, disk, bufs
<1>1. /\ pc[t] = "committed" /\ pc[t] \in CommitPC /\ pc \in [Thread -> PC]
      /\ committing' = FALSE /\ boot = "up" /\ lh = <<>>
      /\ pc' = [u \in Thread |-> IF u = t THEN "idle"
                                 ELSE IF pc[u] = "sleeping" THEN "begin" ELSE pc[u]]
  BY DEF EndCommit, WakeupLog, TypeOK, CommitPC, CommitInv
<1>2. /\ outstanding = 0 /\ Ops = {} /\ \A u \in Thread : pc[u] \in CommitPC => u = t
  BY <1>1, InCommit
<1>3. Ops' = Ops
  BY <1>1 DEF Ops
<1>4. \A u \in Thread : pc'[u] \notin CommitPC /\ pc'[u] # "sleeping"
  BY <1>1, <1>2 DEF CommitPC
<1>5. TypeOK'
  BY <1>1, <1>u DEF TypeOK, PC, LogIndex, LOGSIZE
<1>6. ThreadInv'
  BY <1>u, <1>1, <1>3, <1>4 DEF ThreadInv
<1>7. WroteInv'
  <2>1. \A u \in Thread : pc[u] \notin {"modified", "checked"} /\ pc'[u] \notin {"modified", "checked"}
    BY <1>2, <1>3 DEF Ops
  <2> QED
    BY <2>1, <1>u, <1>3 DEF WroteInv
<1>8. SpaceInv'
  BY <1>u, <1>3, SameSpace
<1>9. HeaderInv'
  BY <1>u, <1>1 DEF HeaderInv, NoDups
<1>10. SleeperHasWaker'
  BY <1>4 DEF SleeperHasWaker
<1>11. CacheInv'
  BY <1>u, SameCache
<1>12. CommitInv'
  BY <1>4 DEF CommitInv, CommitPC
<1>13. BootInv'
  <2>1. \A u \in Thread : pc[u] \notin {"install", "erase"}
    BY <1>1, <1>2 DEF CommitPC
  <2> QED
    BY <2>1, <1>u, <1>1 DEF BootInv
<1> QED
  BY <1>5, <1>6, <1>7, <1>8, <1>9, <1>10, <1>11, <1>12, <1>13

-----------------------------------------------------------------------------
(***************************************************************************)
(* bget(), the crash and recover_from_log()                                *)
(***************************************************************************)
\* bget() recycles a buffer that equals its disk block.
LEMMA RecycleIInv ==
  ASSUME NEW b \in Block, IInv, Recycle(b)
  PROVE  IInv' /\ \A c \in Block : Contents(c)' = Contents(c)
<1> USE DEF IInv
<1>u. UNCHANGED <<dirty, log, tail, pc, buf, wrote, boot, crashes, panicked,
                  home, logblk, head, nlog, lh, outstanding, committing>>
  BY DEF Recycle, disk, log
<1>1. /\ cache' = [cache EXCEPT ![b] = NotCached] /\ cache[b] = home[b]
      /\ cache \in [Block -> Val \cup {NotCached}] /\ lh \in Seq(Block)
  BY DEF Recycle, Recyclable, CacheInv, Held, TypeOK
<1>2. Ops' = Ops
  BY <1>u DEF Ops
<1>3. \A c \in Block : Contents(c)' = Contents(c)
  BY <1>1, <1>u DEF Contents
<1>4. \A i \in 1..Len(lh) : Contents(lh[i])' = Contents(lh[i])
  BY <1>1, <1>3, <1>u DEF Contents
<1>5. TypeOK'
  BY <1>u, <1>1 DEF TypeOK, LogIndex, LOGSIZE
<1>6. ThreadInv'
  BY <1>u, <1>2 DEF ThreadInv
<1>7. WroteInv'
  BY <1>u, <1>2 DEF WroteInv
<1>8. SpaceInv'
  BY <1>u, <1>2, SameSpace
<1>9. HeaderInv' /\ SleeperHasWaker'
  BY <1>u DEF HeaderInv, NoDups, SleeperHasWaker
<1>10. CacheInv'
  BY <1>u, <1>1 DEF CacheInv, Logged, Held
<1>m. /\ \A n : CopiedTo(n)' = CopiedTo(n)
      /\ \A n : InstalledTo(n)' = InstalledTo(n)
      /\ \A n : CleanTo(n)' = CleanTo(n)
      /\ All' = All
  BY <1>u, <1>4 DEF CopiedTo, InstalledTo, CleanTo, All
<1>11. CommitInv'
  BY <1>u, <1>m DEF CommitInv
<1>12. BootInv'
  BY <1>u, <1>m DEF BootInv
<1> QED
  BY <1>3, <1>5, <1>6, <1>7, <1>8, <1>9, <1>10, <1>11, <1>12

\* A crash loses everything but the disk.
LEMMA CrashIInv ==
  ASSUME IInv, Crash
  PROVE  IInv'
<1> USE DEF IInv
<1>s. /\ nlog \in Nat /\ MAXOPBLOCKS \in Nat /\ MAXOPBLOCKS < nlog /\ Len(head) \in Nat
      /\ OpBlocks \in Nat
  BY Sizes
<1>u. UNCHANGED <<panicked, home, logblk, head, nlog>>
  BY DEF Crash, disk
<1>1. /\ cache' = [b \in Block |-> NotCached] /\ dirty' = [b \in Block |-> FALSE]
      /\ lh' = <<>> /\ outstanding' = 0 /\ committing' = FALSE /\ tail' = 1
      /\ pc' = [t \in Thread |-> "idle"] /\ buf' = [t \in Thread |-> NoBlock]
      /\ wrote' = [t \in Thread |-> {}] /\ boot' = "read_head" /\ crashes' = crashes + 1
  BY DEF Crash
<1>2. Ops' = {} /\ IsFiniteSet({}) /\ Cardinality({}) = 0
  BY <1>1, FS_EmptySet DEF Ops
<1>3. TypeOK'
  <2>1. dirty' \in [Block -> BOOLEAN] /\ pc' \in [Thread -> PC]
    BY <1>1 DEF PC
  <2>2. cache' \in [Block -> Val \cup {NotCached}] /\ buf' \in [Thread -> Block \cup {NoBlock}]
    BY <1>1
  <2>3. wrote' \in [Thread -> SUBSET Block] /\ lh' \in Seq(Block)
    BY <1>1
  <2>4. tail' \in LogIndex' /\ crashes' \in Nat /\ outstanding' \in Nat
    BY <1>1, <1>s, <1>u DEF TypeOK, LogIndex, LOGSIZE
  <2> QED
    BY <2>1, <2>2, <2>3, <2>4, <1>1, <1>u DEF TypeOK, LogIndex, LOGSIZE
<1>4. ThreadInv'
  BY <1>u, <1>1, <1>2 DEF ThreadInv, CommitPC
<1>5. WroteInv'
  BY <1>1, <1>2, <1>s DEF WroteInv
<1>6. SpaceInv'
  BY <1>u, <1>1, <1>s DEF SpaceInv
<1>7. HeaderInv' /\ SleeperHasWaker'
  BY <1>u, <1>1 DEF HeaderInv, NoDups, SleeperHasWaker
<1>8. CacheInv'
  BY <1>1 DEF CacheInv
<1>9. CommitInv' /\ BootInv'
  BY <1>1 DEF CommitInv, BootInv
<1> QED
  BY <1>3, <1>4, <1>5, <1>6, <1>7, <1>8, <1>9

\* During recovery no thread runs and nothing is dirty or held.
LEMMA InRecovery ==
  ASSUME IInv, boot # "up"
  PROVE  /\ Ops = {} /\ outstanding = 0 /\ ~committing /\ Reserve = {}
         /\ \A t \in Thread : pc[t] = "idle"
         /\ \A b \in Block : ~dirty[b] /\ ~Held(b)
<1>1. Ops = {} /\ ~committing /\ \A t \in Thread : pc[t] = "idle"
  BY DEF IInv, ThreadInv, Ops
<1>2. outstanding = 0
  BY <1>1, FS_EmptySet DEF IInv, ThreadInv
<1>3. \A b \in Block : ~dirty[b] /\ ~Held(b)
  BY <1>1, LogAssumption DEF IInv, CacheInv, WroteInv, Held
<1> QED
  BY <1>1, <1>2, <1>3 DEF Reserve

\* A step of recovery leaves the threads and the counters alone.
LEMMA RecoverStep ==
  ASSUME IInv, boot # "up", head' \in {head, <<>>}, lh' \in {lh, head, <<>>},
         boot' = "up" => lh' = <<>>,
         UNCHANGED <<nlog, outstanding, committing, pc, buf, wrote, crashes, panicked>>
  PROVE  ThreadInv' /\ WroteInv' /\ SpaceInv' /\ HeaderInv' /\ SleeperHasWaker' /\ CommitInv'
<1> USE DEF IInv
<1>s. /\ nlog \in Nat /\ Len(lh) \in Nat /\ Len(head) \in Nat
      /\ MAXOPBLOCKS \in Nat /\ MAXOPBLOCKS < nlog /\ OpBlocks \in Nat /\ OpBlocks < MAXOPBLOCKS
  BY Sizes
<1>1. /\ Ops = {} /\ outstanding = 0 /\ ~committing /\ Reserve = {}
      /\ \A t \in Thread : pc[t] = "idle"
  BY InRecovery
<1>2. Ops' = {} /\ Reserve' = {}
  BY <1>1 DEF Ops, Reserve
<1>3. ThreadInv'
  BY <1>1, <1>2 DEF ThreadInv, CommitPC
<1>4. WroteInv'
  BY <1>1, <1>2 DEF WroteInv
<1>5. SpaceInv'
  <2>1. Len(<<>>) = 0 /\ 0 <= nlog - 1
    BY <1>s
  <2>2. Len(lh') <= nlog - 1 /\ Len(head') <= nlog - 1
    BY <2>1 DEF SpaceInv
  <2>3. boot' = "up" => Len(lh') + 0 <= nlog - 2
    <3>1. OpBlocks >= 0 /\ nlog - 2 >= 0
      BY <1>s
    <3> QED
      BY <2>1, <3>1
  <2> QED
    BY <2>2, <2>3, <1>2, FS_EmptySet DEF SpaceInv
<1>6. HeaderInv'
  <2>1. NoDups(<<>>)
    BY DEF NoDups
  <2>2. NoDups(lh') /\ NoDups(head')
    BY <2>1 DEF HeaderInv
  <2>3. NoDups(lh)' /\ NoDups(head)'
    BY <2>2 DEF NoDups
  <2> QED
    BY <2>3 DEF HeaderInv
<1>7. SleeperHasWaker' /\ CommitInv'
  BY <1>1 DEF SleeperHasWaker, CommitInv
<1> QED
  BY <1>3, <1>4, <1>5, <1>6, <1>7

\* recover_from_log() reads the header,
LEMMA ReadHeadIInv ==
  ASSUME IInv, ReadHead
  PROVE  IInv'
<1> USE DEF IInv
<1>u. UNCHANGED <<disk, bufs, outstanding, committing, tail, pc, buf, wrote, crashes,
                  panicked, home, logblk, head, nlog, cache, dirty>>
  BY DEF ReadHead, disk, bufs
<1>1. /\ boot = "read_head" /\ lh' = head /\ boot' = IF head = <<>> THEN "clear" ELSE "install"
      /\ tail = 1 /\ head \in Seq(Block)
  BY DEF ReadHead, BootInv, TypeOK
<1>2. ThreadInv' /\ WroteInv' /\ SpaceInv' /\ HeaderInv' /\ SleeperHasWaker' /\ CommitInv'
  <2>1. /\ boot # "up" /\ head' \in {head, <<>>} /\ lh' \in {lh, head, <<>>}
        /\ boot' = "up" => lh' = <<>>
    BY <1>1, <1>u
  <2> HIDE DEF IInv
  <2> QED
    BY <2>1, <1>u, RecoverStep
<1>3. TypeOK'
  BY <1>u, <1>1 DEF TypeOK, LogIndex, LOGSIZE
<1>4. CacheInv'
  <2>1. \A b \in Block : ~dirty[b] /\ ~Held(b)
    BY <1>1, InRecovery
  <2> QED
    BY <2>1, <1>u DEF CacheInv, Held
<1>5. BootInv'
  <2>1. head # <<>> => 1 \in 1..Len(head)
    BY <1>1
  <2> QED
    BY <2>1, <1>1, <1>u DEF BootInv, InstalledTo, All
<1> QED
  BY <1>2, <1>3, <1>4, <1>5

\* installs the blocks it names,
LEMMA RecoverInstallIInv ==
  ASSUME IInv, RecoverInstall
  PROVE  IInv'
<1> USE DEF IInv
<1>u. UNCHANGED <<nlog, logblk, head, lh, outstanding, committing, pc, buf, wrote,
                  crashes, panicked>>
  BY DEF RecoverInstall, log
<1>s. /\ nlog \in Nat /\ Len(lh) \in Nat /\ LogIndex = 1..nlog
      /\ Len(lh) <= nlog - 1 /\ NoDups(lh)
  BY Sizes DEF SpaceInv, HeaderInv
<1>1. /\ boot = "install" /\ boot' = IF tail = Len(lh) THEN "clear" ELSE "install"
      /\ InstallTrans /\ head = lh /\ tail \in 1..Len(lh) /\ InstalledTo(tail)
      /\ lh \in Seq(Block)
  BY DEF RecoverInstall, BootInv, TypeOK
<1>2. ThreadInv' /\ WroteInv' /\ SpaceInv' /\ HeaderInv' /\ SleeperHasWaker' /\ CommitInv'
  <2>1. /\ boot # "up" /\ head' \in {head, <<>>} /\ lh' \in {lh, head, <<>>}
        /\ boot' = "up" => lh' = <<>>
    BY <1>1, <1>u
  <2> HIDE DEF IInv
  <2> QED
    BY <2>1, <1>u, RecoverStep
<1>6. /\ lh[tail] \in Block /\ tail \in LogIndex /\ tail' \in LogIndex'
      /\ home' \in [Block -> Val] /\ dirty' \in [Block -> BOOLEAN]
      /\ cache' \in [Block -> Val \cup {NotCached}]
      /\ home'[lh[tail]] = logblk[tail] /\ cache'[lh[tail]] = logblk[tail]
      /\ ~dirty'[lh[tail]]
      /\ \A b \in Block : b # lh[tail] => /\ home'[b] = home[b]
                                          /\ cache'[b] = cache[b]
                                          /\ dirty'[b] = dirty[b]
      /\ tail' = IF tail = Len(lh) THEN 1 ELSE tail + 1
      /\ \A i \in 1..Len(lh) : i <= tail => home'[lh[i]] = logblk[i]
  BY <1>u, <1>s, <1>1, InstallFacts
<1>3. TypeOK'
  BY <1>1, <1>6, <1>u DEF TypeOK, LogIndex, LOGSIZE
<1>4. CacheInv'
  <2>1. \A b \in Block : ~dirty[b] /\ ~Held(b)
    BY <1>1, InRecovery
  <2>2. \A b \in Block : ~dirty'[b]
    BY <2>1, <1>6
  <2>3. \A b \in Block : cache'[b] # NotCached => cache'[b] = home'[b]
    BY <2>1, <1>6 DEF CacheInv
  <2> QED
    BY <2>2, <2>3 DEF CacheInv
<1>5. BootInv'
  <2>1. CASE tail = Len(lh)
    BY <2>1, <1>1, <1>6, <1>u DEF BootInv, InstalledTo
  <2>2. CASE tail # Len(lh)
    <3>1. boot' = "install" /\ head' = lh' /\ tail' = tail + 1 /\ tail' \in 1..Len(lh')
      BY <2>2, <1>1, <1>6, <1>u, <1>s
    <3>2. \A i \in 1..Len(lh) : i < tail + 1 => i <= tail
      BY <1>1, <1>s
    <3>3. InstalledTo(tail)'
      BY <3>1, <3>2, <1>6, <1>u DEF InstalledTo
    <3> QED
      BY <3>1, <3>3 DEF BootInv
  <2> QED
    BY <2>1, <2>2
<1> QED
  BY <1>2, <1>3, <1>4, <1>5

\* and clears the header: the file system is up.
LEMMA RecoverClearIInv ==
  ASSUME IInv, RecoverClear
  PROVE  IInv'
<1> USE DEF IInv
<1>u. UNCHANGED <<nlog, home, logblk, bufs, outstanding, committing, tail, pc, buf,
                  wrote, crashes, panicked, cache, dirty>>
  BY DEF RecoverClear, bufs
<1>1. boot = "clear" /\ boot' = "up" /\ lh' = <<>> /\ head' = <<>>
  BY DEF RecoverClear
<1>2. ThreadInv' /\ WroteInv' /\ SpaceInv' /\ HeaderInv' /\ SleeperHasWaker' /\ CommitInv'
  <2>1. /\ boot # "up" /\ head' \in {head, <<>>} /\ lh' \in {lh, head, <<>>}
        /\ boot' = "up" => lh' = <<>>
    BY <1>1, <1>u
  <2> HIDE DEF IInv
  <2> QED
    BY <2>1, <1>u, RecoverStep
<1>3. TypeOK'
  BY <1>u, <1>1 DEF TypeOK, LogIndex, LOGSIZE
<1>4. CacheInv'
  <2>1. \A b \in Block : ~dirty[b] /\ ~Held(b)
    BY <1>1, InRecovery
  <2> QED
    BY <2>1, <1>u DEF CacheInv, Held
<1>5. BootInv'
  BY <1>1 DEF BootInv
<1> QED
  BY <1>2, <1>3, <1>4, <1>5

\* Every step of the log, of a crash and of recovery preserves IInv.
LEMMA NextIInv == IInv /\ [Next]_vars => IInv'
<1> SUFFICES ASSUME IInv, [Next]_vars PROVE IInv'
  OBVIOUS
<1>1. CASE UNCHANGED vars
  <2>1. UNCHANGED <<home, logblk, head, nlog, cache, dirty, lh, outstanding, committing,
                    tail, pc, buf, wrote, boot, crashes, panicked>>
    BY <1>1 DEF vars, disk, bufs, log
  <2>2. TypeOK' /\ ThreadInv' /\ WroteInv'
    BY <2>1 DEF IInv, TypeOK, ThreadInv, WroteInv, Ops, LogIndex, LOGSIZE
  <2>3. SpaceInv' /\ HeaderInv' /\ SleeperHasWaker'
    BY <2>1 DEF IInv, SpaceInv, HeaderInv, SleeperHasWaker, NoDups, Reserve, Ops, Logged
  <2>4. CacheInv'
    BY <2>1 DEF IInv, CacheInv, Logged, Held
  <2>5. /\ \A n : CopiedTo(n)' = CopiedTo(n)
        /\ \A n : InstalledTo(n)' = InstalledTo(n)
        /\ \A n : CleanTo(n)' = CleanTo(n)
        /\ All' = All
    BY <2>1 DEF CopiedTo, InstalledTo, CleanTo, All, Contents
  <2>6. CommitInv' /\ BootInv'
    BY <2>1, <2>5 DEF IInv, CommitInv, BootInv
  <2> QED
    BY <2>2, <2>3, <2>4, <2>6 DEF IInv
<1>2. CASE Next
  BY <1>2, BeginOpIInv, KillWakesIInv, ModifyIInv, EndOpIInv, LogWriteCheckIInv,
     LogWriteIInv, WriteLogIInv, WriteHeadIInv, InstallIInv, EraseIInv, EndCommitIInv,
     RecycleIInv, CrashIInv, ReadHeadIInv, RecoverInstallIInv, RecoverClearIInv
     DEF Next, Operate, Recover
<1> QED
  BY <1>1, <1>2

\* The inductive invariant of the log.
THEOREM LogInvariant == Spec => []IInv
BY InitIInv, NextIInv, PTL DEF Spec

-----------------------------------------------------------------------------
(***************************************************************************)
(* No panic of log_write() or end_op() is reachable and the log never      *)
(* overflows, for any number of concurrent operations, although            *)
(* log_write() tests lh.n without the lock (begin_op, log_write).          *)
(***************************************************************************)
THEOREM NoPanicThm == Spec => []NoPanic
<1>1. IInv => NoPanic
  BY DEF IInv, ThreadInv, SpaceInv, NoPanic
<1> QED
  BY <1>1, LogInvariant, PTL

(***************************************************************************)
(* Whoever sleeps in begin_op() sleeps while an operation or a commit is   *)
(* in progress, whose end_op() wakes it (begin_op, end_op).                *)
(***************************************************************************)
THEOREM SleeperHasWakerThm == Spec => []SleeperHasWaker
<1>1. IInv => SleeperHasWaker
  BY DEF IInv
<1> QED
  BY <1>1, LogInvariant, PTL

\* What recovery makes of a disk with header hd, log blocks lb and home blocks hm.
Through(hd, lb, hm) ==
  [b \in Block |-> IF \E i \in 1..Len(hd) : hd[i] = b
                   THEN lb[CHOOSE i \in 1..Len(hd) : hd[i] = b]
                   ELSE hm[b]]

\* A header that names no block twice says for each block where it is.
LEMMA ThroughFacts ==
  ASSUME NEW hd, NEW lb, NEW hm, NoDups(hd)
  PROVE  /\ \A b \in Block : \A i \in 1..Len(hd) : hd[i] = b => Through(hd, lb, hm)[b] = lb[i]
         /\ \A b \in Block : (\A i \in 1..Len(hd) : hd[i] # b) => Through(hd, lb, hm)[b] = hm[b]
<1>1. ASSUME NEW b \in Block, NEW i \in 1..Len(hd), hd[i] = b
      PROVE  Through(hd, lb, hm)[b] = lb[i]
  <2> DEFINE j == CHOOSE k \in 1..Len(hd) : hd[k] = b
  <2>1. j \in 1..Len(hd) /\ hd[j] = b
    BY <1>1
  <2>2. j = i
    BY <2>1, <1>1 DEF NoDups
  <2>3. Through(hd, lb, hm)[b] = lb[j]
    BY <1>1 DEF Through
  <2> QED
    BY <2>2, <2>3
<1>2. ASSUME NEW b \in Block, \A i \in 1..Len(hd) : hd[i] # b
      PROVE  Through(hd, lb, hm)[b] = hm[b]
  BY <1>2 DEF Through
<1> QED
  BY <1>1, <1>2

\* It is a function on the blocks.
LEMMA ThroughIsFunction ==
  ASSUME NEW hd, NEW lb, NEW hm
  PROVE  Through(hd, lb, hm) = [b \in Block |-> Through(hd, lb, hm)[b]]
BY DEF Through

\* With an empty header the disk is read at home.
LEMMA ThroughEmpty ==
  ASSUME NEW lb, NEW hm
  PROVE  Through(<<>>, lb, hm) = [b \in Block |-> hm[b]]
BY DEF Through

\* While a thread commits, a block that is not in the log is the same in
\* memory and on disk.
LEMMA UnloggedIsHome ==
  ASSUME IInv, NEW t \in Thread, pc[t] \in CommitPC, NEW b \in Block, b \notin Logged
  PROVE  Contents(b) = home[b]
<1>1. ~Held(b)
  BY InCommit
<1> QED
  BY <1>1 DEF IInv, CacheInv, Contents

(***************************************************************************)
(* When the last end_op() of a group has committed, what is on the disk is *)
(* what a reader sees, and the log is empty (end_op, commit).              *)
(***************************************************************************)
THEOREM CommitIsDurableThm == Spec => []CommitIsDurable
<1>1. IInv => CommitIsDurable
  <2> SUFFICES ASSUME IInv, NEW t \in Thread, pc[t] = "committed"
               PROVE  Durable = Mem /\ head = <<>>
    BY DEF CommitIsDurable
  <2>0. pc[t] \in CommitPC
    BY DEF CommitPC
  <2>1. boot = "up" /\ \A u \in Thread : pc[u] \in CommitPC => u = t
    BY <2>0, InCommit
  <2>2. head = <<>>
    BY <2>1 DEF IInv, BootInv, CommitPC
  <2>3. \A b \in Block : Contents(b) = home[b]
    <3>1. Logged = {}
      BY DEF IInv, CommitInv, Logged
    <3> QED
      BY <3>1, <2>0, UnloggedIsHome
  <2>4. Durable = [b \in Block |-> home[b]]
    <3>1. Durable = Through(head, logblk, home)
      BY DEF Durable, Through
    <3> QED
      BY <3>1, <2>2, ThroughEmpty
  <2> QED
    BY <2>1, <2>2, <2>3, <2>4 DEF Mem
<1> QED
  BY <1>1, LogInvariant, PTL

-----------------------------------------------------------------------------
(***************************************************************************)
(* The refinement of AtomicDisk, action by action.                         *)
(***************************************************************************)
\* The two functions of the refinement mapping, block by block.
LEMMA Mapping ==
  /\ Durable = Through(head, logblk, home)
  /\ Durable' = Through(head', logblk', home')
  /\ boot = "up" => Mem = [b \in Block |-> Contents(b)]
  /\ boot' = "up" => Mem' = [b \in Block |-> Contents(b)']
  /\ boot # "up" => Mem = Durable
  /\ boot' # "up" => Mem' = Durable'
BY DEF Durable, Through, Mem

\* A step that leaves the disk and every reader's view alone.
LEMMA SameView ==
  ASSUME boot = "up", boot' = "up", UNCHANGED <<head, logblk, home>>,
         \A b \in Block : Contents(b)' = Contents(b)
  PROVE  UNCHANGED <<Mem, Durable>>
BY Mapping

\* write_log() writes log blocks that no header names yet.
LEMMA WriteLogView ==
  ASSUME NEW t \in Thread, IInv, WriteLog(t)
  PROVE  UNCHANGED <<Mem, Durable, outstanding>>
<1>1. /\ boot = "up" /\ boot' = "up" /\ UNCHANGED <<head, home, outstanding>>
      /\ pc[t] = "write_log" /\ pc[t] \in CommitPC
  BY DEF WriteLog, At, log, CommitPC
<1>2. head = <<>>
  BY <1>1, InCommit DEF IInv, BootInv, CommitPC
<1>3. Durable' = Durable
  BY <1>1, <1>2, Mapping, ThroughEmpty
<1>4. \A b \in Block : Contents(b)' = Contents(b)
  BY WriteLogIInv
<1> QED
  BY <1>1, <1>3, <1>4, Mapping

\* The write of the header makes the whole group durable, at once.
LEMMA WriteHeadCommits ==
  ASSUME NEW t \in Thread, IInv, WriteHead(t)
  PROVE  Durable' = Mem /\ UNCHANGED <<Mem, outstanding>> /\ outstanding = 0
<1>1. /\ boot = "up" /\ boot' = "up" /\ head' = lh /\ pc[t] = "write_head"
      /\ UNCHANGED <<logblk, home, cache, lh, outstanding>> /\ pc[t] \in CommitPC
  BY DEF WriteHead, At, bufs, log, CommitPC
<1>2. outstanding = 0
  BY <1>1, InCommit
<1>3. Mem' = Mem
  BY <1>1, Mapping DEF Contents
<1>4. NoDups(lh) /\ CopiedTo(All) /\ Len(lh) \in Nat
  BY <1>1 DEF IInv, HeaderInv, CommitInv, TypeOK
<1>5. \A b \in Block : Through(lh, logblk, home)[b] = Contents(b)
  <2> SUFFICES ASSUME NEW b \in Block PROVE Through(lh, logblk, home)[b] = Contents(b)
    OBVIOUS
  <2>1. CASE b \in Logged
    <3>1. PICK i \in 1..Len(lh) : lh[i] = b
      BY <2>1 DEF Logged
    <3>2. logblk[i] = Contents(b)
      BY <3>1, <1>4 DEF CopiedTo, All
    <3> QED
      BY <3>1, <3>2, <1>4, ThroughFacts
  <2>2. CASE b \notin Logged
    <3>1. \A i \in 1..Len(lh) : lh[i] # b
      BY <2>2 DEF Logged
    <3> QED
      BY <3>1, <2>2, <1>1, <1>4, ThroughFacts, UnloggedIsHome
  <2> QED
    BY <2>1, <2>2
<1>6. Through(lh, logblk, home) = [b \in Block |-> Contents(b)]
  BY <1>5 DEF Through
<1> QED
  BY <1>1, <1>2, <1>3, <1>6, Mapping

\* Installing a block that the header names changes nothing for recovery.
LEMMA InstallView ==
  ASSUME IInv, InstallTrans, head = lh, tail \in 1..Len(lh), InstalledTo(tail),
         UNCHANGED <<nlog, logblk, head, lh>>
  PROVE  Durable' = Durable
<1>1. NoDups(head) /\ NoDups(lh) /\ TypeOK /\ Len(lh) <= nlog - 1
  BY DEF IInv, HeaderInv, SpaceInv
<1>2. \A b \in Block : b # lh[tail] => home'[b] = home[b]
  BY <1>1, InstallFacts
<1>3. \A b \in Block : Through(head, logblk, home')[b] = Through(head, logblk, home)[b]
  <2> SUFFICES ASSUME NEW b \in Block
               PROVE  Through(head, logblk, home')[b] = Through(head, logblk, home)[b]
    OBVIOUS
  <2>1. CASE \E i \in 1..Len(head) : head[i] = b
    BY <2>1, <1>1, ThroughFacts
  <2>2. CASE \A i \in 1..Len(head) : head[i] # b
    <3>1. home'[b] = home[b]
      BY <2>2, <1>2
    <3>2. /\ Through(head, logblk, home')[b] = home'[b]
          /\ Through(head, logblk, home)[b] = home[b]
      BY <2>2, <1>1, ThroughFacts
    <3> QED
      BY <3>1, <3>2
  <2> QED
    BY <2>1, <2>2
<1>4. Through(head, logblk, home') = Through(head, logblk, home)
  <2>1. Through(head, logblk, home') = [b \in Block |-> Through(head, logblk, home')[b]]
    BY ThroughIsFunction
  <2>2. Through(head, logblk, home) = [b \in Block |-> Through(head, logblk, home)[b]]
    BY ThroughIsFunction
  <2> QED
    BY <2>1, <2>2, <1>3
<1> QED
  BY <1>4, Mapping

\* Erasing the header of a transaction that is home changes nothing.
LEMMA EraseView ==
  ASSUME IInv, head = lh, InstalledTo(All)
  PROVE  Through(<<>>, logblk, home) = Durable
<1>1. NoDups(head) /\ Len(lh) \in Nat
  BY DEF IInv, HeaderInv, TypeOK
<1>2. \A b \in Block : Through(head, logblk, home)[b] = home[b]
  <2> SUFFICES ASSUME NEW b \in Block PROVE Through(head, logblk, home)[b] = home[b]
    OBVIOUS
  <2>1. CASE \E i \in 1..Len(head) : head[i] = b
    <3>1. PICK i \in 1..Len(head) : head[i] = b
      BY <2>1
    <3>2. home[b] = logblk[i]
      BY <3>1, <1>1 DEF InstalledTo, All
    <3> QED
      BY <3>1, <3>2, <1>1, ThroughFacts
  <2>2. CASE \A i \in 1..Len(head) : head[i] # b
    BY <2>2, <1>1, ThroughFacts
  <2> QED
    BY <2>1, <2>2
<1>3. Through(head, logblk, home) = [b \in Block |-> home[b]]
  BY <1>2 DEF Through
<1> QED
  BY <1>3, Mapping, ThroughEmpty

\* Every step of the log is a step of AtomicDisk, or none: begin_op() opens an
\* operation, a modification of a buffer writes, end_op() closes, the write of
\* the header commits, and a crash goes back to what was committed.
LEMMA StepIsAtomic == IInv /\ [Next]_vars => [Atomic!Next]_(Atomic!advars)
<1> SUFFICES ASSUME IInv, [Next]_vars
             PROVE  Atomic!Next \/ UNCHANGED <<Mem, Durable, outstanding>>
  BY DEF Atomic!advars
<1> USE DEF At
<1>1. CASE UNCHANGED vars
  <2>1. UNCHANGED <<home, logblk, head, cache, boot, outstanding>>
    BY <1>1 DEF vars, disk, bufs, log
  <2>2. UNCHANGED <<Mem, Durable>>
    BY <2>1 DEF Mem, Durable, Contents
  <2> QED
    BY <2>1, <2>2
<1>2. ASSUME NEW t \in Thread, BeginOp(t)
      PROVE  Atomic!Next \/ UNCHANGED <<Mem, Durable, outstanding>>
  <2>1. /\ boot = "up" /\ boot' = "up" /\ UNCHANGED <<head, logblk, home, cache>>
        /\ outstanding' = outstanding + 1 \/ outstanding' = outstanding
    BY <1>2 DEF BeginOp, disk, bufs
  <2>2. UNCHANGED <<Mem, Durable>>
    BY <2>1, SameView DEF Contents
  <2>3. CASE outstanding' = outstanding + 1
    BY <2>2, <2>3 DEF Atomic!Next, Atomic!Begin
  <2> QED
    BY <2>1, <2>2, <2>3
<1>3. ASSUME NEW t \in Thread, KillWakes(t) \/ LogWriteCheck(t) \/ LogWrite(t) \/ EndCommit(t)
      PROVE  UNCHANGED <<Mem, Durable, outstanding>>
  <2>1. /\ boot = "up" /\ boot' = "up" /\ UNCHANGED <<head, logblk, home, cache>>
        /\ outstanding' = outstanding
    BY <1>3 DEF KillWakes, LogWriteCheck, LogWrite, EndCommit, disk, bufs, log
  <2> QED
    BY <2>1, SameView DEF Contents
<1>4. ASSUME NEW t \in Thread, NEW b \in Block, NEW v \in Val, Modify(t, b, v)
      PROVE  Atomic!Next
  <2>1. /\ boot = "up" /\ boot' = "up" /\ UNCHANGED <<head, logblk, home, outstanding>>
        /\ cache' = [cache EXCEPT ![b] = v] /\ cache \in [Block -> Val \cup {NotCached}]
        /\ v # NotCached /\ t \in Ops
    BY <1>4, LogAssumption DEF Modify, disk, log, IInv, TypeOK, Ops
  <2>2. outstanding > 0
    BY <2>1, InOperation
  <2>3. Durable' = Durable
    BY <2>1, Mapping
  <2>4. Mem' = [Mem EXCEPT ![b] = v]
    <3>1. \A c \in Block : Contents(c)' = IF c = b THEN v ELSE Contents(c)
      BY <2>1 DEF Contents
    <3>2. Mem' = [c \in Block |-> IF c = b THEN v ELSE Contents(c)]
      BY <2>1, <3>1, Mapping
    <3>3. Mem = [c \in Block |-> Contents(c)]
      BY <2>1, Mapping
    <3> QED
      BY <3>2, <3>3
  <2>5. Atomic!Write(b, v)
    BY <2>1, <2>2, <2>3, <2>4 DEF Atomic!Write
  <2> QED
    BY <2>5 DEF Atomic!Next
<1>5. ASSUME NEW t \in Thread, EndOp(t)
      PROVE  Atomic!Next
  <2>1. /\ boot = "up" /\ boot' = "up" /\ UNCHANGED <<head, logblk, home, cache>>
        /\ outstanding' = outstanding - 1 /\ t \in Ops
    BY <1>5 DEF EndOp, disk, bufs, Ops
  <2>2. UNCHANGED <<Mem, Durable>>
    BY <2>1, SameView DEF Contents
  <2>3. outstanding > 0
    BY <2>1, InOperation
  <2> QED
    BY <2>1, <2>2, <2>3 DEF Atomic!Next, Atomic!End
<1>6. ASSUME NEW t \in Thread, WriteLog(t)
      PROVE  UNCHANGED <<Mem, Durable, outstanding>>
  BY <1>6, WriteLogView
<1>7. ASSUME NEW t \in Thread, WriteHead(t)
      PROVE  Atomic!Next
  BY <1>7, WriteHeadCommits DEF Atomic!Next, Atomic!Commit
<1>8. ASSUME NEW t \in Thread, Install(t)
      PROVE  UNCHANGED <<Mem, Durable, outstanding>>
  <2>1. /\ boot = "up" /\ boot' = "up" /\ UNCHANGED <<nlog, logblk, head, lh, outstanding>>
        /\ InstallTrans
    BY <1>8 DEF Install, log
  <2>2. head = lh /\ tail \in 1..Len(lh) /\ InstalledTo(tail)
    BY <1>8 DEF Install, IInv, CommitInv
  <2>3. Durable' = Durable
    BY <2>1, <2>2, InstallView
  <2>4. \A b \in Block : Contents(b)' = Contents(b)
    BY <1>8, InstallIInv
  <2> QED
    BY <2>1, <2>3, <2>4, Mapping
<1>9. ASSUME NEW t \in Thread, Erase(t)
      PROVE  UNCHANGED <<Mem, Durable, outstanding>>
  <2>1. /\ boot = "up" /\ boot' = "up" /\ UNCHANGED <<logblk, home, cache, outstanding>>
        /\ head' = <<>>
    BY <1>9 DEF Erase, bufs
  <2>2. head = lh /\ InstalledTo(All)
    BY <1>9 DEF Erase, IInv, CommitInv
  <2>3. Durable' = Durable
    BY <2>1, <2>2, EraseView, Mapping
  <2> QED
    BY <2>1, <2>3, Mapping DEF Contents
<1>10. ASSUME NEW b \in Block, Recycle(b)
       PROVE  UNCHANGED <<Mem, Durable, outstanding>>
  <2>1. boot = "up" /\ boot' = "up" /\ UNCHANGED <<logblk, home, head, outstanding>>
    BY <1>10 DEF Recycle, disk, log
  <2>2. \A c \in Block : Contents(c)' = Contents(c)
    BY <1>10, RecycleIInv
  <2> QED
    BY <2>1, <2>2, SameView
<1>11. CASE ReadHead
  <2>1. boot # "up" /\ boot' # "up" /\ UNCHANGED <<logblk, home, head, outstanding>>
    BY <1>11 DEF ReadHead, disk
  <2> QED
    BY <2>1, Mapping
<1>12. CASE RecoverInstall
  <2>1. /\ boot # "up" /\ boot' # "up" /\ UNCHANGED <<nlog, logblk, head, lh, outstanding>>
        /\ InstallTrans
    BY <1>12 DEF RecoverInstall, log
  <2>2. head = lh /\ tail \in 1..Len(lh) /\ InstalledTo(tail)
    BY <1>12 DEF RecoverInstall, IInv, BootInv
  <2>3. Durable' = Durable
    BY <2>1, <2>2, InstallView
  <2> QED
    BY <2>1, <2>3, Mapping
<1>13. CASE RecoverClear
  <2>1. /\ boot = "clear" /\ boot' = "up" /\ UNCHANGED <<logblk, home, cache, outstanding>>
        /\ head' = <<>>
    BY <1>13 DEF RecoverClear, bufs
  <2>2. head = lh /\ InstalledTo(All)
    BY <2>1 DEF IInv, BootInv
  <2>3. Durable' = Durable /\ Durable = [b \in Block |-> home[b]]
    BY <2>1, <2>2, EraseView, ThroughEmpty, Mapping
  <2>4. \A b \in Block : Contents(b)' = home[b]
    <3>1. \A b \in Block : ~dirty[b] /\ ~Held(b)
      BY <2>1, InRecovery
    <3> QED
      BY <3>1, <2>1 DEF IInv, CacheInv, Contents
  <2>5. Mem' = [b \in Block |-> home[b]] /\ Mem = Durable
    BY <2>1, <2>4, Mapping
  <2> QED
    BY <2>1, <2>3, <2>5
<1>14. CASE Crash
  <2>1. boot' # "up" /\ UNCHANGED <<logblk, home, head>> /\ outstanding' = 0
    BY <1>14 DEF Crash, disk
  <2>2. Durable' = Durable /\ Mem' = Durable
    BY <2>1, Mapping
  <2> QED
    BY <2>1, <2>2 DEF Atomic!Next, Atomic!Crash
<1> QED
  BY <1>1, <1>2, <1>3, <1>4, <1>5, <1>6, <1>7, <1>8, <1>9, <1>10, <1>11, <1>12, <1>13,
     <1>14 DEF Next, Operate, Recover

(***************************************************************************)
(* Group commit is atomic: with operations that interleave, buffers that   *)
(* are recycled, and crashes at any point of commit() and of recovery, the *)
(* log implements AtomicDisk (begin_op, log_write, end_op, commit,         *)
(* install_trans, recover_from_log).                                       *)
(***************************************************************************)
THEOREM AtomicTransactionsThm == Spec => AtomicTransactions
<1>1. Init => Atomic!Init
  <2> SUFFICES ASSUME Init PROVE Atomic!Init
    OBVIOUS
  <2>1. boot # "up" /\ head = <<>> /\ home \in [Block -> Val] /\ outstanding = 0
    BY DEF Init
  <2>2. Mem = Durable /\ Durable = [b \in Block |-> home[b]]
    BY <2>1, Mapping, ThroughEmpty
  <2> QED
    BY <2>1, <2>2 DEF Atomic!Init
<1> QED
  BY <1>1, LogInvariant, StepIsAtomic, PTL DEF Spec, AtomicTransactions, Atomic!Spec
=============================================================================
