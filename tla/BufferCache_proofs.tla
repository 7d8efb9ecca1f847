------------------------- MODULE BufferCache_proofs -------------------------
(***************************************************************************)
(* Proofs about BufferCache: its safety invariants, for any number of      *)
(* processes, buffers and blocks.                                          *)
(***************************************************************************)
EXTENDS BufferCache, TLAPS, FiniteSetTheorems, SequenceTheorems, WellFoundedInduction

IoPC == {"io", "io_sleep"}
HoldPC == {"bread", "iderw", "io", "io_sleep", "has"}

\* The buffer of a request that has yet to reach the disk.
Busy(x) == dirty[x] \/ ~valid[x]

\* refcnt counts the processes that use the buffer; no block is in two buffers.
UseInv ==
  /\ \A x \in Buf : refcnt[x] = Cardinality(Users(x))
  /\ \A p \in Proc : (b[p] = NoBuf) <=> (pc[p] = "idle")
  /\ \A p \in Proc : b[p] # NoBuf => blockno[b[p]] # NoBlock
  /\ \A x, y \in Buf : (blockno[x] = blockno[y] /\ x # y) => blockno[x] = NoBlock

\* A sleep lock is held by one process, and by one at most.
LockInv ==
  /\ \A p \in Proc : pc[p] \in HoldPC => locked[b[p]]
  /\ \A p, q \in Proc : (pc[p] \in HoldPC /\ pc[q] \in HoldPC /\ b[p] = b[q]) => p = q
  /\ \A x \in Buf : locked[x] => \E p \in Proc : b[p] = x /\ pc[p] \in HoldPC
  /\ \A p \in Proc : pc[p] = "sleeping" => locked[b[p]]

InQueue(x) == \E i \in 1..Len(idequeue) : idequeue[i] = x

\* The requests: one for each process that waits for the disk.
QueueInv ==
  /\ \A i, j \in 1..Len(idequeue) : idequeue[i] = idequeue[j] => i = j
  /\ \A x \in Buf : InQueue(x) =>
       Busy(x) /\ \E p \in Proc : b[p] = x /\ pc[p] \in IoPC
  /\ \A p \in Proc : pc[p] = "io_sleep" => InQueue(b[p])
  /\ \A p \in Proc : pc[p] = "io" => InQueue(b[p]) \/ ~Busy(b[p])
  /\ \A p \in Proc : pc[p] = "iderw" => Busy(b[p])

\* Where the latest contents of a block are.
DataInv ==
  /\ \A p \in Proc : pc[p] = "has" => valid[b[p]]
  /\ \A x \in Buf : dirty[x] => valid[x]
  /\ \A x \in Buf : valid[x] => blockno[x] # NoBlock
  /\ \A x \in Buf : (valid[x] /\ blockno[x] \notin BadBlocks)
                       => data[x] = latest[blockno[x]]
  /\ \A x \in Buf : (valid[x] /\ ~dirty[x] /\ blockno[x] \notin BadBlocks)
                       => data[x] = disk[blockno[x]]
  /\ \A k \in Block : (k \notin BadBlocks /\ \A x \in Buf : blockno[x] = k => ~valid[x])
                         => disk[k] = latest[k]
  /\ (idequeue # <<>> /\ dirty[Head(idequeue)])
        => disk[blockno[Head(idequeue)]] = data[Head(idequeue)]

\* The buffers that only the log keeps dirty.
Pinned ==
  {x \in Buf : dirty[x] /\ \A p \in Proc : pc[p] \in {"iderw", "io", "io_sleep"} => b[p] # x}

EnoughBuffers == Cardinality(Proc) + MaxPinned <= Cardinality(Buf)

\* bget() finds a buffer when the processes and the log leave it one.
SpareInv ==
  /\ Cardinality(Pinned) <= MaxPinned
  /\ \A x \in Buf : \E i \in DOMAIN mru : mru[i] = x
  /\ EnoughBuffers => ~panicked

IInv ==
  /\ TypeOK
  /\ UseInv
  /\ LockInv
  /\ QueueInv
  /\ DataInv
  /\ SpareInv

-----------------------------------------------------------------------------
\* All buffers are in the list once, free, and hold no block.
LEMMA InitIInv == Init => IInv
<1> SUFFICES ASSUME Init PROVE IInv
  OBVIOUS
<1>a. /\ IsFiniteSet(Proc) /\ IsFiniteSet(Buf) /\ Val # {} /\ NoBlock \notin Block
      /\ NoBuf \notin Buf /\ MaxPinned \in Nat
  BY BufferCacheAssumption
<1>1. mru \in Injection(1..Cardinality(Buf), Buf)
  BY DEF Init, SetToSeqs, Injection, IsInjective
<1>2. Cardinality(Buf) \in Nat
  BY <1>a, FS_CardinalityType
<1>3. mru \in Surjection(1..Cardinality(Buf), Buf)
  <2>1. Cardinality(1..Cardinality(Buf)) = Cardinality(Buf)
    BY <1>2, FS_Interval
  <2> QED
    BY <2>1, <1>1, <1>a, FS_Injection
<1>4. mru \in [1..Cardinality(Buf) -> Buf] /\ \A x \in Buf : \E i \in DOMAIN mru : mru[i] = x
  BY <1>3 DEF Surjection
<1>5. TypeOK
  <2>1. (CHOOSE v \in Val : TRUE) \in Val
    BY <1>a
  <2>2. data \in [Buf -> Val]
    BY <2>1 DEF Init
  <2>3. valid \in [Buf -> BOOLEAN] /\ dirty \in [Buf -> BOOLEAN] /\ locked \in [Buf -> BOOLEAN]
    BY DEF Init
  <2>4. blockno \in [Buf -> Block \cup {NoBlock}] /\ refcnt \in [Buf -> Nat]
    BY DEF Init
  <2>5. pc \in [Proc -> PC] /\ b \in [Proc -> Buf \cup {NoBuf}]
    BY DEF Init, PC
  <2>6. idequeue \in Seq(Buf)
    BY DEF Init
  <2> QED
    BY <1>4, <2>2, <2>3, <2>4, <2>5, <2>6 DEF TypeOK, Init
<1>6. UseInv
  <2>1. \A x \in Buf : Users(x) = {}
    BY <1>a DEF Init, Users
  <2> QED
    BY <2>1, FS_EmptySet DEF UseInv, Init
<1>7. LockInv /\ QueueInv
  BY DEF Init, LockInv, QueueInv, HoldPC, IoPC, InQueue
<1>8. DataInv
  BY DEF Init, DataInv
<1>9. SpareInv
  <2>1. Pinned = {}
    BY DEF Init, Pinned
  <2> QED
    BY <2>1, <1>4, <1>a, FS_EmptySet DEF Init, SpareInv
<1> QED
  BY <1>5, <1>6, <1>7, <1>8, <1>9 DEF IInv

\* A process that is not idle has a buffer, which caches a block.
LEMMA HasBuffer ==
  ASSUME IInv, NEW p \in Proc, pc[p] # "idle"
  PROVE  /\ b[p] \in Buf /\ b[p] # NoBuf /\ blockno[b[p]] \in Block
         /\ IsFiniteSet(Proc) /\ NoBuf \notin Buf
BY BufferCacheAssumption DEF IInv, TypeOK, UseInv

\* The processes move, and none takes or gives up a buffer.
LEMMA UseStep ==
  ASSUME IInv, UNCHANGED <<b, refcnt, blockno>>,
         \A q \in Proc : (pc'[q] = "idle") <=> (pc[q] = "idle")
  PROVE  UseInv'
BY DEF IInv, UseInv, Users

\* No buffer becomes pinned.
LEMMA SpareStep ==
  ASSUME IInv, Pinned' \subseteq Pinned, mru' = mru, EnoughBuffers => ~panicked'
  PROVE  SpareInv'
<1>1. IsFiniteSet(Pinned)
  BY FS_Subset, BufferCacheAssumption DEF Pinned
<1>2. /\ Cardinality(Pinned') <= Cardinality(Pinned)
      /\ Cardinality(Pinned') \in Nat /\ Cardinality(Pinned) \in Nat
  BY <1>1, FS_Subset, FS_CardinalityType
<1>3. Cardinality(Pinned) <= MaxPinned /\ MaxPinned \in Nat
  BY BufferCacheAssumption DEF IInv, SpareInv
<1>4. Cardinality(Pinned') <= MaxPinned
  BY <1>2, <1>3
<1> QED
  BY <1>4 DEF IInv, SpareInv

\* acquiresleep() takes the lock, or sleeps while another process has it.
LEMMA AcquireSleepIInv ==
  ASSUME NEW p \in Proc, IInv, AcquireSleep(p)
  PROVE  IInv'
<1> USE DEF IInv, At, Goto
<1>1. /\ pc[p] = "acquiresleep" /\ ~panicked
      /\ UNCHANGED <<mru, blockno, valid, dirty, refcnt, data, idequeue, disk, memdisk,
                     b, latest, panicked>>
      /\ pc \in [Proc -> PC] /\ locked \in [Buf -> BOOLEAN]
  BY DEF AcquireSleep, cacheVars, diskVars, TypeOK
<1>2. \/ locked[b[p]] /\ pc' = [pc EXCEPT ![p] = "sleeping"] /\ locked' = locked
      \/ ~locked[b[p]] /\ pc' = [pc EXCEPT ![p] = "bread"]
           /\ locked' = [locked EXCEPT ![b[p]] = TRUE]
  BY DEF AcquireSleep
<1>3. b[p] \in Buf
  BY <1>1, HasBuffer
<1>4. TypeOK'
  BY <1>1, <1>2 DEF TypeOK, PC
<1>5. UseInv'
  BY <1>1, <1>2, UseStep
<1>6. LockInv'
  <2>1. CASE locked[b[p]]
    BY <2>1, <1>1, <1>2 DEF LockInv, HoldPC
  <2>2. CASE ~locked[b[p]]
    <3>1. /\ pc' = [pc EXCEPT ![p] = "bread"]
          /\ locked' = [locked EXCEPT ![b[p]] = TRUE]
      BY <2>2, <1>2
    <3>2. \A q \in Proc : pc[q] \in HoldPC => b[q] # b[p]
      BY <2>2 DEF LockInv
    <3>3. \A q \in Proc : b[q] \in Buf \/ pc[q] = "idle"
      BY HasBuffer
    <3>4. \A q \in Proc : pc'[q] \in HoldPC => locked'[b'[q]]
      BY <3>1, <3>3, <1>1, <1>3 DEF LockInv, HoldPC
    <3>5. \A q, r \in Proc : (pc'[q] \in HoldPC /\ pc'[r] \in HoldPC /\ b'[q] = b'[r]) => q = r
      BY <3>1, <3>2, <1>1 DEF LockInv
    <3>6. \A x \in Buf : locked'[x] => \E q \in Proc : b'[q] = x /\ pc'[q] \in HoldPC
      BY <3>1, <1>1, <1>3 DEF LockInv, HoldPC
    <3>7. \A q \in Proc : pc'[q] = "sleeping" => locked'[b'[q]]
      BY <3>1, <3>3, <1>1, <1>3 DEF LockInv
    <3> QED
      BY <3>4, <3>5, <3>6, <3>7 DEF LockInv
  <2> QED
    BY <2>1, <2>2
<1>7. QueueInv'
  BY <1>1, <1>2 DEF QueueInv, InQueue, Busy, IoPC
<1>8. DataInv'
  BY <1>1, <1>2 DEF DataInv
<1>9. SpareInv'
  <2>1. Pinned' \subseteq Pinned
    BY <1>1, <1>2 DEF Pinned
  <2> QED
    BY <2>1, <1>1, SpareStep
<1> QED
  BY <1>4, <1>5, <1>6, <1>7, <1>8, <1>9

\* releasesleep() unlocks and wakes everyone who sleeps on the buffer.
LEMMA ReleaseSleepIInv ==
  ASSUME NEW p \in Proc, IInv, ReleaseSleep(p)
  PROVE  IInv'
<1> USE DEF IInv, At
<1>1. /\ pc[p] = "has" /\ ~panicked /\ panicked' = ~locked[b[p]]
      /\ UNCHANGED <<mru, blockno, valid, dirty, refcnt, data, idequeue, disk, memdisk,
                     b, latest>>
      /\ pc \in [Proc -> PC] /\ locked \in [Buf -> BOOLEAN]
      /\ locked' = [locked EXCEPT ![b[p]] = FALSE]
      /\ pc' = [q \in Proc |-> IF q = p THEN "brelse"
                 ELSE IF pc[q] = "sleeping" /\ b[q] = b[p] THEN "acquiresleep" ELSE pc[q]]
  BY DEF ReleaseSleep, WakeupOn, cacheVars, diskVars, TypeOK
<1>3. b[p] \in Buf
  BY <1>1, HasBuffer
<1>p. panicked' = FALSE
  BY <1>1 DEF LockInv, HoldPC
<1>4. TypeOK'
  <2>1. pc' \in [Proc -> PC]
    BY <1>1 DEF PC
  <2>2. locked' \in [Buf -> BOOLEAN]
    BY <1>1
  <2> QED
    BY <2>1, <2>2, <1>1, <1>p DEF TypeOK
<1>5. UseInv'
  BY <1>1, UseStep
<1>6. LockInv'
  <2>1. \A q \in Proc : pc'[q] \in HoldPC => pc[q] \in HoldPC /\ q # p
    BY <1>1 DEF HoldPC
  <2>2. \A q \in Proc : b[q] \in Buf \/ pc[q] = "idle"
    BY HasBuffer
  <2>3. pc[p] \in HoldPC
    BY <1>1 DEF HoldPC
  <2>4. \A q \in Proc : pc'[q] \in HoldPC => b[q] # b[p] /\ b[q] \in Buf
    BY <2>1, <2>2, <2>3 DEF LockInv, HoldPC
  <2>5. \A q \in Proc : pc'[q] \in HoldPC => locked'[b'[q]]
    BY <2>1, <2>4, <1>1 DEF LockInv
  <2>6. \A q, r \in Proc : (pc'[q] \in HoldPC /\ pc'[r] \in HoldPC /\ b'[q] = b'[r]) => q = r
    BY <2>1, <1>1 DEF LockInv
  <2>7. \A x \in Buf : locked'[x] => \E q \in Proc : b'[q] = x /\ pc'[q] \in HoldPC
    <3> SUFFICES ASSUME NEW x \in Buf, locked'[x]
                 PROVE  \E q \in Proc : b'[q] = x /\ pc'[q] \in HoldPC
      OBVIOUS
    <3>1. x # b[p] /\ locked[x]
      BY <1>1, <1>3
    <3>2. PICK q \in Proc : b[q] = x /\ pc[q] \in HoldPC
      BY <3>1 DEF LockInv
    <3>3. pc'[q] = pc[q]
      BY <3>1, <3>2, <1>1
    <3> QED
      BY <3>2, <3>3, <1>1
  <2>8. \A q \in Proc : pc'[q] = "sleeping" => locked'[b'[q]]
    BY <2>2, <1>1, <1>3 DEF LockInv
  <2> QED
    BY <2>5, <2>6, <2>7, <2>8 DEF LockInv
<1>7. QueueInv'
  <2>1. \A q \in Proc : /\ (pc'[q] \in IoPC) <=> (pc[q] \in IoPC)
                        /\ (pc'[q] = "io") <=> (pc[q] = "io")
                        /\ (pc'[q] = "io_sleep") <=> (pc[q] = "io_sleep")
                        /\ (pc'[q] = "iderw") <=> (pc[q] = "iderw")
    BY <1>1 DEF IoPC
  <2> QED
    BY <2>1, <1>1 DEF QueueInv, InQueue, Busy
<1>8. DataInv'
  BY <1>1 DEF DataInv
<1>9. SpareInv'
  <2>1. Pinned' \subseteq Pinned
    BY <1>1 DEF Pinned
  <2> QED
    BY <2>1, <1>1, <1>p, SpareStep
<1> QED
  BY <1>4, <1>5, <1>6, <1>7, <1>8, <1>9

\* kill() ends a sleep: the process looks again.
LEMMA KillWakesIInv ==
  ASSUME NEW p \in Proc, IInv, KillWakes(p)
  PROVE  IInv'
<1> USE DEF IInv, At, Goto
<1>1. /\ pc[p] \in {"sleeping", "io_sleep"} /\ ~panicked
      /\ UNCHANGED <<mru, blockno, valid, dirty, refcnt, data, idequeue, disk, memdisk,
                     locked, b, latest, panicked>>
      /\ pc \in [Proc -> PC]
      /\ pc' = [pc EXCEPT ![p] = IF pc[p] = "sleeping" THEN "acquiresleep" ELSE "io"]
  BY DEF KillWakes, cacheVars, diskVars, TypeOK
<1>4. TypeOK'
  BY <1>1 DEF TypeOK, PC
<1>5. UseInv'
  BY <1>1, UseStep
<1>6. LockInv'
  <2>1. \A q \in Proc : (pc'[q] \in HoldPC) <=> (pc[q] \in HoldPC)
    BY <1>1 DEF HoldPC
  <2>2. \A q \in Proc : pc'[q] = "sleeping" => pc[q] = "sleeping"
    BY <1>1
  <2> QED
    BY <2>1, <2>2, <1>1 DEF LockInv
<1>7. QueueInv'
  <2>1. \A q \in Proc : (pc'[q] \in IoPC) <=> (pc[q] \in IoPC)
    BY <1>1 DEF IoPC
  <2>2. \A q \in Proc : /\ pc'[q] = "io_sleep" => pc[q] = "io_sleep"
                        /\ pc'[q] = "io" => pc[q] \in {"io", "io_sleep"}
                        /\ pc'[q] = "iderw" => pc[q] = "iderw"
    BY <1>1
  <2> QED
    BY <2>1, <2>2, <1>1 DEF QueueInv, InQueue, Busy
<1>8. DataInv'
  BY <1>1 DEF DataInv
<1>9. SpareInv'
  <2>1. Pinned' \subseteq Pinned
    BY <1>1 DEF Pinned
  <2> QED
    BY <2>1, <1>1, SpareStep
<1> QED
  BY <1>4, <1>5, <1>6, <1>7, <1>8, <1>9

\* bread() with the buffer locked: the data is there, or the disk is asked.
LEMMA BreadIInv ==
  ASSUME NEW p \in Proc, IInv, Bread(p)
  PROVE  IInv'
<1> USE DEF IInv, At, Goto
<1>1. /\ pc[p] = "bread" /\ ~panicked
      /\ UNCHANGED <<mru, blockno, valid, dirty, refcnt, data, idequeue, disk, memdisk,
                     locked, b, latest, panicked>>
      /\ pc \in [Proc -> PC]
      /\ pc' = [pc EXCEPT ![p] = IF valid[b[p]] THEN "has" ELSE "iderw"]
  BY DEF Bread, cacheVars, diskVars, TypeOK
<1>4. TypeOK'
  BY <1>1 DEF TypeOK, PC
<1>5. UseInv'
  BY <1>1, UseStep
<1>6. LockInv'
  <2>1. \A q \in Proc : (pc'[q] \in HoldPC) <=> (pc[q] \in HoldPC)
    BY <1>1 DEF HoldPC
  <2>2. \A q \in Proc : pc'[q] = "sleeping" => pc[q] = "sleeping"
    BY <1>1
  <2> QED
    BY <2>1, <2>2, <1>1 DEF LockInv
<1>7. QueueInv'
  <2>1. \A q \in Proc : (pc'[q] \in IoPC) <=> (pc[q] \in IoPC)
    BY <1>1 DEF IoPC
  <2>2. \A q \in Proc : /\ pc'[q] = "io_sleep" => pc[q] = "io_sleep"
                        /\ pc'[q] = "io" => pc[q] = "io"
                        /\ pc'[q] = "iderw" => pc[q] = "iderw" \/ ~valid[b[q]]
    BY <1>1
  <2> QED
    BY <2>1, <2>2, <1>1 DEF QueueInv, InQueue, Busy
<1>8. DataInv'
  BY <1>1 DEF DataInv
<1>9. SpareInv'
  <2>1. Pinned' \subseteq Pinned
    BY <1>1 DEF Pinned
  <2> QED
    BY <2>1, <1>1, SpareStep
<1> QED
  BY <1>4, <1>5, <1>6, <1>7, <1>8, <1>9

\* iderw() leaves its loop when the request is done, and else its request is
\* still in the queue.
LEMMA IderwWakesIInv ==
  ASSUME NEW p \in Proc, IInv, IderwWakes(p)
  PROVE  IInv'
<1> USE DEF IInv, At, Goto
<1>1. /\ pc[p] = "io" /\ ~panicked
      /\ UNCHANGED <<mru, blockno, valid, dirty, refcnt, data, idequeue, disk, memdisk,
                     locked, b, latest, panicked>>
      /\ pc \in [Proc -> PC]
      /\ pc' = [pc EXCEPT ![p] = IF valid[b[p]] /\ ~dirty[b[p]] THEN "has" ELSE "io_sleep"]
  BY DEF IderwWakes, cacheVars, diskVars, TypeOK
<1>3. b[p] \in Buf
  BY <1>1, HasBuffer
<1>4. TypeOK'
  BY <1>1 DEF TypeOK, PC
<1>5. UseInv'
  BY <1>1, UseStep
<1>6. LockInv'
  <2>1. \A q \in Proc : (pc'[q] \in HoldPC) <=> (pc[q] \in HoldPC)
    BY <1>1 DEF HoldPC
  <2>2. \A q \in Proc : pc'[q] = "sleeping" => pc[q] = "sleeping"
    BY <1>1
  <2> QED
    BY <2>1, <2>2, <1>1 DEF LockInv
<1>7. QueueInv'
  <2>1. \A x \in Buf : InQueue(x) => Busy(x) /\ \E q \in Proc : b[q] = x /\ pc'[q] \in IoPC
    <3> SUFFICES ASSUME NEW x \in Buf, InQueue(x)
                 PROVE  Busy(x) /\ \E q \in Proc : b[q] = x /\ pc'[q] \in IoPC
      OBVIOUS
    <3>1. PICK q \in Proc : b[q] = x /\ pc[q] \in IoPC
      BY DEF QueueInv
    <3>2. Busy(x)
      BY DEF QueueInv
    <3>3. pc'[q] \in IoPC
      BY <3>1, <3>2, <1>1 DEF IoPC, Busy
    <3> QED
      BY <3>1, <3>2, <3>3
  <2>2. \A q \in Proc : /\ pc'[q] = "io_sleep" => pc[q] = "io_sleep" \/ (q = p /\ Busy(b[p]))
                        /\ pc'[q] = "io" => pc[q] = "io"
                        /\ pc'[q] = "iderw" => pc[q] = "iderw"
    BY <1>1 DEF Busy
  <2> QED
    BY <2>1, <2>2, <1>1 DEF QueueInv, InQueue, Busy
<1>8. DataInv'
  BY <1>1 DEF DataInv
<1>9. SpareInv'
  <2>1. Pinned' \subseteq Pinned
    BY <1>1, <1>3 DEF Pinned
  <2> QED
    BY <2>1, <1>1, SpareStep
<1> QED
  BY <1>4, <1>5, <1>6, <1>7, <1>8, <1>9

\* What the holder of a buffer may rely on.
LEMMA Mine ==
  ASSUME IInv, NEW p \in Proc, pc[p] \in HoldPC
  PROVE  /\ b[p] \in Buf /\ locked[b[p]] /\ blockno[b[p]] \in Block
         /\ \A q \in Proc : (pc[q] \in HoldPC /\ b[q] = b[p]) => q = p
         /\ \A y \in Buf : y # b[p] => blockno[y] # blockno[b[p]]
         /\ pc[p] \notin IoPC => ~InQueue(b[p])
<1>1. b[p] \in Buf /\ blockno[b[p]] \in Block /\ blockno[b[p]] # NoBlock
  BY HasBuffer, BufferCacheAssumption DEF HoldPC
<1>2. locked[b[p]] /\ \A q \in Proc : (pc[q] \in HoldPC /\ b[q] = b[p]) => q = p
  BY DEF IInv, LockInv
<1>3. \A y \in Buf : y # b[p] => blockno[y] # blockno[b[p]]
  BY <1>1 DEF IInv, UseInv
<1>4. pc[p] \notin IoPC => ~InQueue(b[p])
  BY <1>1, <1>2 DEF IInv, QueueInv, IoPC, HoldPC
<1> QED
  BY <1>1, <1>2, <1>3, <1>4

\* The request the disk works on.
LEMMA HeadInQueue ==
  ASSUME TypeOK, idequeue # <<>>
  PROVE  /\ Len(idequeue) \in Nat /\ 1 \in 1..Len(idequeue)
         /\ Head(idequeue) = idequeue[1] /\ Head(idequeue) \in Buf
         /\ InQueue(Head(idequeue))
<1>1. idequeue \in Seq(Buf)
  BY DEF TypeOK
<1>2. Len(idequeue) \in Nat /\ 1 \in 1..Len(idequeue) /\ Head(idequeue) = idequeue[1]
  BY <1>1
<1>3. Head(idequeue) \in Buf
  BY <1>1, <1>2
<1> QED
  BY <1>2, <1>3 DEF InQueue

\* The holder changes a buffer and marks it dirty: the latest contents of its
\* block are in the buffer, and the disk works on another one.
LEMMA WriteData ==
  ASSUME IInv, NEW p \in Proc, pc[p] = "has", NEW v \in Val,
         data' = [data EXCEPT ![b[p]] = v],
         latest' = [latest EXCEPT ![blockno[b[p]]] = v],
         dirty' = [dirty EXCEPT ![b[p]] = TRUE],
         UNCHANGED <<blockno, valid, idequeue, disk, b>>,
         \A q \in Proc : pc'[q] = "has" => pc[q] = "has"
  PROVE  /\ DataInv' /\ data' \in [Buf -> Val] /\ latest' \in [Block -> Val]
         /\ dirty' \in [Buf -> BOOLEAN]
<1> USE DEF IInv
<1> DEFINE x == b[p]  k == blockno[x]
<1>1. /\ x \in Buf /\ k \in Block /\ ~InQueue(x) /\ valid[x]
      /\ \A y \in Buf : y # x => blockno[y] # k
  BY Mine DEF HoldPC, IoPC, DataInv
<1>2. /\ data \in [Buf -> Val] /\ latest \in [Block -> Val] /\ dirty \in [Buf -> BOOLEAN]
      /\ blockno \in [Buf -> Block \cup {NoBlock}]
  BY DEF TypeOK
<1>t. data' \in [Buf -> Val] /\ latest' \in [Block -> Val] /\ dirty' \in [Buf -> BOOLEAN]
  BY <1>1, <1>2
<1>3. /\ data'[x] = v /\ latest'[k] = v /\ dirty'[x]
      /\ \A y \in Buf : y # x => data'[y] = data[y] /\ dirty'[y] = dirty[y]
      /\ \A j \in Block : j # k => latest'[j] = latest[j]
  BY <1>1, <1>2
<1> HIDE DEF x, k
<1>4. \A y \in Buf : valid[y] => blockno[y] \in Block
  BY <1>2 DEF DataInv
<1>5. \A q \in Proc : pc'[q] = "has" => valid'[b'[q]]
  BY DEF DataInv
<1>6. \A y \in Buf : dirty'[y] => valid'[y]
  BY <1>1, <1>3 DEF DataInv
<1>7. \A y \in Buf : valid'[y] => blockno'[y] # NoBlock
  BY DEF DataInv
<1>8. \A y \in Buf : (valid'[y] /\ blockno'[y] \notin BadBlocks) => data'[y] = latest'[blockno'[y]]
  <2> SUFFICES ASSUME NEW y \in Buf, valid[y], blockno[y] \notin BadBlocks
               PROVE  data'[y] = latest'[blockno[y]]
    OBVIOUS
  <2>1. CASE y = x
    BY <2>1, <1>3 DEF k
  <2>2. CASE y # x
    <3>1. data[y] = latest[blockno[y]]
      BY DEF DataInv
    <3>2. blockno[y] \in Block /\ blockno[y] # k
      BY <2>2, <1>1, <1>4
    <3> QED
      BY <2>2, <1>3, <3>1, <3>2
  <2> QED
    BY <2>1, <2>2
<1>9. \A y \in Buf : (valid'[y] /\ ~dirty'[y] /\ blockno'[y] \notin BadBlocks)
                        => data'[y] = disk'[blockno'[y]]
  <2> SUFFICES ASSUME NEW y \in Buf, valid[y], ~dirty'[y], blockno[y] \notin BadBlocks
               PROVE  data'[y] = disk[blockno[y]]
    OBVIOUS
  <2>1. y # x /\ ~dirty[y] /\ data'[y] = data[y]
    BY <1>3
  <2> QED
    BY <2>1 DEF DataInv
<1>10. \A j \in Block : (j \notin BadBlocks /\ \A y \in Buf : blockno'[y] = j => ~valid'[y])
                           => disk'[j] = latest'[j]
  <2> SUFFICES ASSUME NEW j \in Block, j \notin BadBlocks,
                      \A y \in Buf : blockno[y] = j => ~valid[y]
               PROVE  disk[j] = latest'[j]
    OBVIOUS
  <2>1. j # k
    BY <1>1 DEF k
  <2> QED
    BY <2>1, <1>3 DEF DataInv
<1>11. (idequeue' # <<>> /\ dirty'[Head(idequeue')])
          => disk'[blockno'[Head(idequeue')]] = data'[Head(idequeue')]
  <2> SUFFICES ASSUME idequeue # <<>>, dirty'[Head(idequeue)]
               PROVE  disk[blockno[Head(idequeue)]] = data'[Head(idequeue)]
    OBVIOUS
  <2>1. Head(idequeue) \in Buf /\ Head(idequeue) # x
    BY <1>1, HeadInQueue
  <2> QED
    BY <2>1, <1>3 DEF DataInv
<1>12. DataInv'
  BY <1>5, <1>6, <1>7, <1>8, <1>9, <1>10, <1>11 DEF DataInv
<1> QED
  BY <1>12, <1>t

\* bwrite() marks the buffer dirty and goes to the disk.
LEMMA BwriteIInv ==
  ASSUME NEW p \in Proc, NEW v \in Val, IInv, Bwrite(p, v)
  PROVE  IInv'
<1> USE DEF IInv, At, Goto
<1>1. /\ pc[p] = "has" /\ ~panicked /\ panicked' = ~locked[b[p]]
      /\ UNCHANGED <<mru, blockno, valid, refcnt, idequeue, disk, memdisk, locked, b>>
      /\ pc \in [Proc -> PC] /\ pc' = [pc EXCEPT ![p] = "iderw"]
      /\ data' = [data EXCEPT ![b[p]] = v]
      /\ latest' = [latest EXCEPT ![blockno[b[p]]] = v]
      /\ dirty' = [dirty EXCEPT ![b[p]] = TRUE]
  BY DEF Bwrite, diskVars, TypeOK
<1>2. b[p] \in Buf /\ locked[b[p]] /\ ~InQueue(b[p]) /\ dirty \in [Buf -> BOOLEAN]
  BY <1>1, Mine DEF HoldPC, IoPC, TypeOK
<1>3. /\ DataInv' /\ data' \in [Buf -> Val] /\ latest' \in [Block -> Val]
      /\ dirty' \in [Buf -> BOOLEAN]
  <2>1. \A q \in Proc : pc'[q] = "has" => pc[q] = "has"
    BY <1>1
  <2> HIDE DEF IInv
  <2> QED
    BY <2>1, <1>1, WriteData
<1>4. TypeOK'
  BY <1>1, <1>2, <1>3 DEF TypeOK, PC
<1>5. UseInv'
  BY <1>1, UseStep
<1>6. LockInv'
  <2>1. \A q \in Proc : (pc'[q] \in HoldPC) <=> (pc[q] \in HoldPC)
    BY <1>1 DEF HoldPC
  <2>2. \A q \in Proc : pc'[q] = "sleeping" => pc[q] = "sleeping"
    BY <1>1
  <2> QED
    BY <2>1, <2>2, <1>1 DEF LockInv
<1>7. QueueInv'
  <2>1. \A q \in Proc : (pc'[q] \in IoPC) <=> (pc[q] \in IoPC)
    BY <1>1 DEF IoPC
  <2>2. \A q \in Proc : /\ pc'[q] = "io_sleep" => pc[q] = "io_sleep"
                        /\ pc'[q] = "io" => (pc[q] = "io" /\ b[q] # b[p])
                        /\ pc'[q] = "iderw" => (pc[q] = "iderw" \/ q = p)
    BY <1>1, Mine DEF HoldPC
  <2>3. \A y \in Buf : y # b[p] => (Busy(y)' <=> Busy(y))
    BY <1>1, <1>2 DEF Busy
  <2>4. Busy(b[p])'
    BY <1>1, <1>2 DEF Busy
  <2>5. \A y \in Buf : InQueue(y)' <=> InQueue(y)
    BY <1>1 DEF InQueue
  <2>6. \A q \in Proc : pc[q] # "idle" => b[q] \in Buf
    BY HasBuffer
  <2>7. \A y \in Buf : Busy(y) => Busy(y)'
    BY <2>3, <2>4, <1>1 DEF Busy
  <2>8. \A i, j \in 1..Len(idequeue') : idequeue'[i] = idequeue'[j] => i = j
    BY <1>1 DEF QueueInv
  <2>9. \A y \in Buf : InQueue(y)' => (Busy(y)' /\ \E q \in Proc : b'[q] = y /\ pc'[q] \in IoPC)
    BY <2>1, <2>5, <2>7, <1>1 DEF QueueInv
  <2>10. \A q \in Proc : pc'[q] = "io_sleep" => InQueue(b[q])'
    BY <2>2, <1>1 DEF QueueInv, InQueue
  <2>11. \A q \in Proc : pc'[q] = "io" => (InQueue(b[q])' \/ ~Busy(b[q])')
    <3> SUFFICES ASSUME NEW q \in Proc, pc'[q] = "io" PROVE InQueue(b[q])' \/ ~Busy(b[q])'
      OBVIOUS
    <3>1. pc[q] = "io" /\ b[q] # b[p] /\ b[q] \in Buf
      BY <2>2, <2>6
    <3> QED
      BY <3>1, <1>1, <1>2 DEF QueueInv, InQueue, Busy
  <2>12. \A q \in Proc : pc'[q] = "iderw" => Busy(b[q])'
    <3> SUFFICES ASSUME NEW q \in Proc, pc'[q] = "iderw" PROVE Busy(b[q])'
      OBVIOUS
    <3>1. (pc[q] = "iderw" \/ q = p) /\ b[q] \in Buf
      BY <2>2, <2>6, <1>2
    <3> QED
      BY <3>1, <1>1, <1>2 DEF QueueInv, Busy
  <2> QED
    BY <2>8, <2>9, <2>10, <2>11, <2>12 DEF QueueInv
<1>9. SpareInv'
  <2>1. Pinned' \subseteq Pinned
    BY <1>1, <1>2 DEF Pinned
  <2> QED
    BY <2>1, <1>1, <1>2, SpareStep
<1> QED
  BY <1>3, <1>4, <1>5, <1>6, <1>7, <1>9

\* log_write() pins the buffer, within the log's share.
LEMMA LogWriteIInv ==
  ASSUME NEW p \in Proc, NEW v \in Val, IInv, LogWrite(p, v)
  PROVE  IInv'
<1> USE DEF IInv, At
<1>1. /\ pc[p] = "has" /\ ~panicked
      /\ UNCHANGED <<mru, blockno, valid, refcnt, idequeue, disk, memdisk, locked, pc, b,
                     panicked>>
      /\ data' = [data EXCEPT ![b[p]] = v]
      /\ latest' = [latest EXCEPT ![blockno[b[p]]] = v]
      /\ dirty' = [dirty EXCEPT ![b[p]] = TRUE]
      /\ dirty[b[p]] \/ Cardinality({x \in Buf : dirty[x]}) < MaxPinned
  BY DEF LogWrite, diskVars, TypeOK
<1>2. /\ b[p] \in Buf /\ ~InQueue(b[p]) /\ dirty \in [Buf -> BOOLEAN]
      /\ \A q \in Proc : (pc[q] \in HoldPC /\ b[q] = b[p]) => q = p
  BY <1>1, Mine DEF HoldPC, IoPC, TypeOK
<1>3. /\ DataInv' /\ data' \in [Buf -> Val] /\ latest' \in [Block -> Val]
      /\ dirty' \in [Buf -> BOOLEAN]
  <2>1. \A q \in Proc : pc'[q] = "has" => pc[q] = "has"
    BY <1>1
  <2> HIDE DEF IInv
  <2> QED
    BY <2>1, <1>1, WriteData
<1>4. TypeOK'
  BY <1>1, <1>3 DEF TypeOK
<1>5. UseInv'
  BY <1>1, UseStep
<1>6. LockInv'
  BY <1>1 DEF LockInv
<1>7. QueueInv'
  <2>1. \A y \in Buf : y # b[p] => (Busy(y)' <=> Busy(y))
    BY <1>1, <1>2 DEF Busy
  <2>2. \A y \in Buf : InQueue(y)' <=> InQueue(y)
    BY <1>1 DEF InQueue
  <2>3. \A q \in Proc : pc[q] \in {"io", "io_sleep", "iderw"} => b[q] # b[p] /\ b[q] \in Buf
    <3>1. \A q \in Proc : pc[q] \in {"io", "io_sleep", "iderw"} => b[q] # b[p]
      BY <1>1, <1>2 DEF HoldPC
    <3> QED
      BY <3>1, HasBuffer
  <2>4. \A i, j \in 1..Len(idequeue') : idequeue'[i] = idequeue'[j] => i = j
    BY <1>1 DEF QueueInv
  <2>5. \A y \in Buf : InQueue(y)' => (Busy(y)' /\ \E q \in Proc : b'[q] = y /\ pc'[q] \in IoPC)
    BY <2>1, <2>2, <1>1, <1>2 DEF QueueInv
  <2>6. \A q \in Proc : pc'[q] = "io_sleep" => InQueue(b[q])'
    BY <1>1 DEF QueueInv, InQueue
  <2>7. \A q \in Proc : pc'[q] = "io" => (InQueue(b[q])' \/ ~Busy(b[q])')
    BY <2>3, <1>1 DEF QueueInv, InQueue, Busy
  <2>8. \A q \in Proc : pc'[q] = "iderw" => Busy(b[q])'
    BY <2>3, <1>1 DEF QueueInv, Busy
  <2> QED
    BY <2>4, <2>5, <2>6, <2>7, <2>8 DEF QueueInv
<1>9. SpareInv'
  <2>1. CASE dirty[b[p]]
    <3>1. Pinned' \subseteq Pinned
      BY <2>1, <1>1, <1>2 DEF Pinned
    <3> QED
      BY <3>1, <1>1, SpareStep
  <2>2. CASE ~dirty[b[p]]
    <3> DEFINE D == {x \in Buf : dirty[x]}
    <3>1. IsFiniteSet(D) /\ Cardinality(D) < MaxPinned /\ b[p] \notin D
      BY <2>2, <1>1, BufferCacheAssumption, FS_Subset
    <3>2. Pinned' \subseteq D \cup {b[p]}
      BY <1>1, <1>2 DEF Pinned
    <3>3. IsFiniteSet(D \cup {b[p]}) /\ Cardinality(D \cup {b[p]}) = Cardinality(D) + 1
      BY <3>1, FS_AddElement
    <3>4. /\ Cardinality(Pinned') <= Cardinality(D \cup {b[p]})
          /\ Cardinality(Pinned') \in Nat /\ Cardinality(D) \in Nat
      BY <3>1, <3>2, <3>3, FS_Subset, FS_CardinalityType
    <3>5. Cardinality(Pinned') <= MaxPinned
      BY <3>1, <3>3, <3>4, BufferCacheAssumption
    <3> QED
      BY <3>5, <1>1 DEF SpareInv
  <2> QED
    BY <2>1, <2>2
<1> QED
  BY <1>3, <1>4, <1>5, <1>6, <1>7, <1>9

-----------------------------------------------------------------------------
(***************************************************************************)
(* The disk driver                                                         *)
(***************************************************************************)
\* idestart() of a dirty buffer puts its data on the disk, and else nothing.
LEMMA IdestartFacts ==
  ASSUME TypeOK, NEW x \in Buf, dirty[x] => blockno[x] \in Block, NEW q,
         q # <<>>, Head(q) = x
  PROVE  /\ Idestart(disk, q) \in [Block -> Val]
         /\ dirty[x] => Idestart(disk, q)[blockno[x]] = data[x]
         /\ \A k \in Block : k # blockno[x] => Idestart(disk, q)[k] = disk[k]
         /\ ~dirty[x] => Idestart(disk, q) = disk
BY DEF Idestart, TypeOK

\* iderw() queues the request of its holder, and starts the disk when idle.
LEMMA IderwIInv ==
  ASSUME NEW p \in Proc, IInv, Iderw(p)
  PROVE  IInv'
<1> USE DEF IInv, At, Goto
<1> DEFINE x == b[p]
<1>1. /\ pc[p] = "iderw" /\ ~panicked /\ panicked' = IderwPanics(x)
      /\ UNCHANGED <<mru, blockno, valid, dirty, refcnt, data, memdisk, locked, b, latest>>
      /\ idequeue' = Append(idequeue, x)
      /\ disk' = IF idequeue = <<>> THEN Idestart(disk, <<x>>) ELSE disk
      /\ pc \in [Proc -> PC] /\ pc' = [pc EXCEPT ![p] = "io_sleep"]
      /\ idequeue \in Seq(Buf) /\ disk \in [Block -> Val]
  BY DEF Iderw, cacheVars, diskVars, TypeOK
<1>2. /\ x \in Buf /\ locked[x] /\ ~InQueue(x) /\ blockno[x] \in Block
      /\ \A y \in Buf : y # x => blockno[y] # blockno[x]
  BY <1>1, Mine DEF HoldPC, IoPC
<1>3. Busy(x)
  BY <1>1 DEF QueueInv
<1>p. panicked' = FALSE
  BY <1>1, <1>2, <1>3 DEF IderwPanics, Busy
<1> HIDE DEF x
<1>q. /\ idequeue' \in Seq(Buf) /\ Len(idequeue') = Len(idequeue) + 1 /\ Len(idequeue) \in Nat
      /\ \A i \in 1..Len(idequeue) : idequeue'[i] = idequeue[i]
      /\ idequeue'[Len(idequeue) + 1] = x
      /\ idequeue' # <<>>
      /\ Head(idequeue') = IF idequeue = <<>> THEN x ELSE Head(idequeue)
  BY <1>1, <1>2, AppendProperties, HeadTailAppend
<1>i. /\ \A i \in 1..Len(idequeue') : i \in 1..Len(idequeue) \/ i = Len(idequeue) + 1
      /\ \A i \in 1..Len(idequeue) : i \in 1..Len(idequeue')
      /\ Len(idequeue) + 1 \in 1..Len(idequeue')
  BY <1>q
<1>d. /\ disk' \in [Block -> Val]
      /\ \A k \in Block : k # blockno[x] => disk'[k] = disk[k]
      /\ ~dirty[x] => disk' = disk
      /\ (dirty[x] /\ idequeue = <<>>) => disk'[blockno[x]] = data[x]
  <2>1. CASE idequeue = <<>>
    <3>1. <<x>> # <<>> /\ Head(<<x>>) = x
      OBVIOUS
    <3>2. disk' = Idestart(disk, <<x>>)
      BY <2>1, <1>1
    <3> QED
      BY <3>1, <3>2, <1>2, IdestartFacts
  <2>2. CASE idequeue # <<>>
    BY <2>2, <1>1
  <2> QED
    BY <2>1, <2>2
<1>4. TypeOK'
  BY <1>1, <1>p, <1>q, <1>d DEF TypeOK, PC
<1>5. UseInv'
  BY <1>1, UseStep
<1>6. LockInv'
  <2>1. \A q \in Proc : (pc'[q] \in HoldPC) <=> (pc[q] \in HoldPC)
    BY <1>1 DEF HoldPC
  <2>2. \A q \in Proc : pc'[q] = "sleeping" => pc[q] = "sleeping"
    BY <1>1
  <2> QED
    BY <2>1, <2>2, <1>1 DEF LockInv
<1>7. QueueInv'
  <2>1. \A y \in Buf : InQueue(y)' <=> (InQueue(y) \/ y = x)
    BY <1>q, <1>i DEF InQueue
  <2>2. \A i, j \in 1..Len(idequeue') : idequeue'[i] = idequeue'[j] => i = j
    <3>1. \A i \in 1..Len(idequeue) : idequeue[i] # x
      BY <1>2 DEF InQueue
    <3> QED
      BY <3>1, <1>q, <1>i DEF QueueInv
  <2>3. \A y \in Buf : InQueue(y)' => (Busy(y)' /\ \E q \in Proc : b'[q] = y /\ pc'[q] \in IoPC)
    <3> SUFFICES ASSUME NEW y \in Buf, InQueue(y) \/ y = x
                 PROVE  Busy(y)' /\ \E q \in Proc : b'[q] = y /\ pc'[q] \in IoPC
      BY <2>1
    <3>1. CASE y = x
      <4>1. b'[p] = y /\ pc'[p] \in IoPC
        BY <3>1, <1>1 DEF IoPC, x
      <4> QED
        BY <4>1, <3>1, <1>3, <1>1 DEF Busy
    <3>2. CASE InQueue(y)
      <4>1. Busy(y) /\ \E q \in Proc : b[q] = y /\ pc[q] \in IoPC
        BY <3>2 DEF QueueInv
      <4> QED
        BY <4>1, <1>1 DEF Busy, IoPC
    <3> QED
      BY <3>1, <3>2
  <2>4. \A q \in Proc : pc[q] # "idle" => b[q] \in Buf
    BY HasBuffer
  <2>5. \A q \in Proc : pc'[q] = "io_sleep" => InQueue(b[q])'
    <3> SUFFICES ASSUME NEW q \in Proc, pc'[q] = "io_sleep" PROVE InQueue(b[q])'
      OBVIOUS
    <3>1. b[q] \in Buf /\ (InQueue(b[q]) \/ b[q] = x) /\ b'[q] = b[q]
      BY <1>1, <2>4 DEF QueueInv, x
    <3> QED
      BY <3>1, <1>q, <1>i DEF InQueue
  <2>6. \A q \in Proc : pc'[q] = "io" => (InQueue(b[q])' \/ ~Busy(b[q])')
    <3> SUFFICES ASSUME NEW q \in Proc, pc'[q] = "io" PROVE InQueue(b[q])' \/ ~Busy(b[q])'
      OBVIOUS
    <3>1. b'[q] = b[q] /\ (InQueue(b[q]) \/ ~Busy(b[q]))
      BY <1>1 DEF QueueInv
    <3> QED
      BY <3>1, <1>1, <1>q, <1>i DEF InQueue, Busy
  <2>7. \A q \in Proc : pc'[q] = "iderw" => Busy(b[q])'
    BY <1>1 DEF QueueInv, Busy
  <2> QED
    BY <2>2, <2>3, <2>5, <2>6, <2>7 DEF QueueInv
<1>8. DataInv'
  <2>1. \A q \in Proc : pc'[q] = "has" => valid'[b'[q]]
    BY <1>1 DEF DataInv
  <2>2. \A y \in Buf : (dirty'[y] => valid'[y]) /\ (valid'[y] => blockno'[y] # NoBlock)
    BY <1>1 DEF DataInv
  <2>3. \A y \in Buf : (valid'[y] /\ blockno'[y] \notin BadBlocks) => data'[y] = latest'[blockno'[y]]
    BY <1>1 DEF DataInv
  <2>4. \A y \in Buf : (valid'[y] /\ ~dirty'[y] /\ blockno'[y] \notin BadBlocks)
                          => data'[y] = disk'[blockno'[y]]
    <3> SUFFICES ASSUME NEW y \in Buf, valid[y], ~dirty[y], blockno[y] \notin BadBlocks
                 PROVE  data[y] = disk'[blockno[y]]
      BY <1>1
    <3>1. blockno[y] \in Block
      BY DEF DataInv, TypeOK
    <3>2. disk'[blockno[y]] = disk[blockno[y]]
      BY <3>1, <1>d, <1>2
    <3> QED
      BY <3>2 DEF DataInv
  <2>5. \A k \in Block : (k \notin BadBlocks /\ \A y \in Buf : blockno'[y] = k => ~valid'[y])
                            => disk'[k] = latest'[k]
    <3> SUFFICES ASSUME NEW k \in Block, k \notin BadBlocks,
                        \A y \in Buf : blockno[y] = k => ~valid[y]
                 PROVE  disk'[k] = latest[k]
      BY <1>1
    <3>1. disk'[k] = disk[k]
      BY <1>d, <1>2 DEF DataInv
    <3> QED
      BY <3>1 DEF DataInv
  <2>6. (idequeue' # <<>> /\ dirty'[Head(idequeue')])
           => disk'[blockno'[Head(idequeue')]] = data'[Head(idequeue')]
    <3>1. CASE idequeue = <<>>
      BY <3>1, <1>q, <1>d, <1>1
    <3>2. CASE idequeue # <<>>
      <4>1. Head(idequeue') = Head(idequeue) /\ disk' = disk
        BY <3>2, <1>q, <1>1
      <4> QED
        BY <4>1, <3>2, <1>1 DEF DataInv
    <3> QED
      BY <3>1, <3>2
  <2> QED
    BY <2>1, <2>2, <2>3, <2>4, <2>5, <2>6 DEF DataInv
<1>9. SpareInv'
  <2>1. Pinned' \subseteq Pinned
    BY <1>1 DEF Pinned
  <2> QED
    BY <2>1, <1>1, <1>p, SpareStep
<1> QED
  BY <1>4, <1>5, <1>6, <1>7, <1>8, <1>9

\* iderw() of memide.c does the whole transfer at once.
LEMMA MemIderwIInv ==
  ASSUME NEW p \in Proc, IInv, MemIderw(p)
  PROVE  IInv'
<1> USE DEF IInv, At, Goto
<1> DEFINE x == b[p]  k == blockno[x]
<1>1. /\ pc[p] = "iderw" /\ ~panicked /\ panicked' = IderwPanics(x)
      /\ UNCHANGED <<mru, blockno, refcnt, idequeue, memdisk, locked, b, latest>>
      /\ disk' = Idestart(disk, <<x>>)
      /\ data' = [data EXCEPT ![x] = IF dirty[x] THEN data[x] ELSE disk[k]]
      /\ dirty' = [dirty EXCEPT ![x] = FALSE]
      /\ valid' = [valid EXCEPT ![x] = TRUE]
      /\ pc \in [Proc -> PC] /\ pc' = [pc EXCEPT ![p] = "has"]
      /\ data \in [Buf -> Val] /\ disk \in [Block -> Val]
      /\ dirty \in [Buf -> BOOLEAN] /\ valid \in [Buf -> BOOLEAN]
  BY DEF MemIderw, diskVars, TypeOK
<1>2. /\ x \in Buf /\ locked[x] /\ ~InQueue(x) /\ k \in Block
      /\ \A q \in Proc : (pc[q] \in HoldPC /\ b[q] = x) => q = p
      /\ \A y \in Buf : y # x => blockno[y] # k
  BY <1>1, Mine DEF HoldPC, IoPC
<1>3. Busy(x)
  BY <1>1 DEF QueueInv
<1>p. panicked' = FALSE
  BY <1>1, <1>2, <1>3 DEF IderwPanics, Busy
<1>x. /\ data'[x] = (IF dirty[x] THEN data[x] ELSE disk[k]) /\ ~dirty'[x] /\ valid'[x]
      /\ \A y \in Buf : y # x => /\ data'[y] = data[y] /\ dirty'[y] = dirty[y]
                                 /\ valid'[y] = valid[y]
      /\ data' \in [Buf -> Val]
  BY <1>1, <1>2
<1>y. dirty' \in [Buf -> BOOLEAN] /\ valid' \in [Buf -> BOOLEAN]
  BY <1>1
<1> HIDE DEF x, k
<1>d. /\ disk' \in [Block -> Val]
      /\ \A j \in Block : j # k => disk'[j] = disk[j]
      /\ ~dirty[x] => disk' = disk
      /\ dirty[x] => disk'[k] = data[x]
  <2>1. <<x>> # <<>> /\ Head(<<x>>) = x
    OBVIOUS
  <2> QED
    BY <2>1, <1>1, <1>2, IdestartFacts DEF k
<1>4. TypeOK'
  BY <1>1, <1>p, <1>x, <1>y, <1>d DEF TypeOK, PC
<1>5. UseInv'
  BY <1>1, UseStep
<1>6. LockInv'
  <2>1. \A q \in Proc : (pc'[q] \in HoldPC) <=> (pc[q] \in HoldPC)
    BY <1>1 DEF HoldPC
  <2>2. \A q \in Proc : pc'[q] = "sleeping" => pc[q] = "sleeping"
    BY <1>1
  <2> QED
    BY <2>1, <2>2, <1>1 DEF LockInv
<1>o. \A q \in Proc : pc'[q] \in {"io", "io_sleep", "iderw"} =>
        pc'[q] = pc[q] /\ b[q] # x /\ b[q] \in Buf /\ q # p
  <2>1. \A q \in Proc : pc'[q] \in {"io", "io_sleep", "iderw"} => pc'[q] = pc[q] /\ q # p
    BY <1>1
  <2>2. \A q \in Proc : (pc[q] \in {"io", "io_sleep", "iderw"} /\ q # p) => b[q] # x
    BY <1>2 DEF HoldPC
  <2> QED
    BY <2>1, <2>2, HasBuffer
<1>7. QueueInv'
  <2>1. \A y \in Buf : InQueue(y)' <=> InQueue(y)
    BY <1>1 DEF InQueue
  <2>2. \A i, j \in 1..Len(idequeue') : idequeue'[i] = idequeue'[j] => i = j
    BY <1>1 DEF QueueInv
  <2>3. \A y \in Buf : InQueue(y)' => (Busy(y)' /\ \E q \in Proc : b'[q] = y /\ pc'[q] \in IoPC)
    <3> SUFFICES ASSUME NEW y \in Buf, InQueue(y)
                 PROVE  Busy(y)' /\ \E q \in Proc : b'[q] = y /\ pc'[q] \in IoPC
      BY <2>1
    <3>1. y # x
      BY <1>2
    <3>2. Busy(y) /\ \E q \in Proc : b[q] = y /\ pc[q] \in IoPC
      BY DEF QueueInv
    <3>3. Busy(y)'
      BY <3>1, <3>2, <1>x DEF Busy
    <3> QED
      BY <3>2, <3>3, <1>1 DEF IoPC
  <2>4. \A q \in Proc : pc'[q] = "io_sleep" => InQueue(b[q])'
    BY <1>o, <1>1 DEF QueueInv, InQueue
  <2>5. \A q \in Proc : pc'[q] = "io" => (InQueue(b[q])' \/ ~Busy(b[q])')
    BY <1>o, <1>x, <1>1 DEF QueueInv, InQueue, Busy
  <2>6. \A q \in Proc : pc'[q] = "iderw" => Busy(b[q])'
    BY <1>o, <1>x, <1>1 DEF QueueInv, Busy
  <2> QED
    BY <2>2, <2>3, <2>4, <2>5, <2>6 DEF QueueInv
<1>8. DataInv'
  <2>0. \A y \in Buf : (valid[y] => blockno[y] \in Block) /\ (valid[y] => valid'[y])
    <3>1. \A y \in Buf : valid[y] => blockno[y] \in Block
      BY DEF DataInv, TypeOK
    <3>2. \A y \in Buf : valid[y] => valid'[y]
      BY <1>x
    <3> QED
      BY <3>1, <3>2
  <2>1. \A q \in Proc : pc'[q] = "has" => valid'[b'[q]]
    <3> SUFFICES ASSUME NEW q \in Proc, pc'[q] = "has" PROVE valid'[b[q]]
      BY <1>1
    <3>1. CASE q = p
      BY <3>1, <1>x DEF x
    <3>2. CASE q # p
      <4>1. pc[q] = "has"
        BY <3>2, <1>1
      <4>2. b[q] \in Buf /\ valid[b[q]]
        BY <4>1, HasBuffer DEF DataInv
      <4> QED
        BY <4>2, <2>0
    <3> QED
      BY <3>1, <3>2
  <2>2. \A y \in Buf : (dirty'[y] => valid'[y]) /\ (valid'[y] => blockno'[y] # NoBlock)
    BY <1>1, <1>2, <1>x, BufferCacheAssumption DEF DataInv, k
  <2>3. \A y \in Buf : (valid'[y] /\ blockno'[y] \notin BadBlocks) => data'[y] = latest'[blockno'[y]]
    <3> SUFFICES ASSUME NEW y \in Buf, valid'[y], blockno[y] \notin BadBlocks
                 PROVE  data'[y] = latest[blockno[y]]
      BY <1>1
    <3>1. CASE y # x
      BY <3>1, <1>x DEF DataInv
    <3>2. CASE y = x /\ dirty[x]
      BY <3>2, <1>x, <1>2 DEF DataInv
    <3>3. CASE y = x /\ ~dirty[x]
      <4>1. \A z \in Buf : blockno[z] = k => ~valid[z]
        BY <3>3, <1>2, <1>3 DEF Busy
      <4>2. disk[k] = latest[k]
        BY <4>1, <3>3, <1>2 DEF DataInv, k
      <4> QED
        BY <4>2, <3>3, <1>x DEF k
    <3> QED
      BY <3>1, <3>2, <3>3
  <2>4. \A y \in Buf : (valid'[y] /\ ~dirty'[y] /\ blockno'[y] \notin BadBlocks)
                          => data'[y] = disk'[blockno'[y]]
    <3> SUFFICES ASSUME NEW y \in Buf, valid'[y], ~dirty'[y], blockno[y] \notin BadBlocks
                 PROVE  data'[y] = disk'[blockno[y]]
      BY <1>1
    <3>1. CASE y # x
      <4>1. blockno[y] \in Block /\ blockno[y] # k
        BY <3>1, <2>0, <1>2, <1>x
      <4> QED
        BY <4>1, <3>1, <1>x, <1>d DEF DataInv
    <3>2. CASE y = x
      BY <3>2, <1>x, <1>d DEF k
    <3> QED
      BY <3>1, <3>2
  <2>5. \A j \in Block : (j \notin BadBlocks /\ \A y \in Buf : blockno'[y] = j => ~valid'[y])
                            => disk'[j] = latest'[j]
    <3> SUFFICES ASSUME NEW j \in Block, j \notin BadBlocks,
                        \A y \in Buf : blockno[y] = j => ~valid'[y]
                 PROVE  disk'[j] = latest[j]
      BY <1>1
    <3>1. j # k
      BY <1>2, <1>x DEF k
    <3>2. disk'[j] = disk[j]
      BY <3>1, <1>d
    <3>3. \A y \in Buf : blockno[y] = j => ~valid[y]
      BY <2>0
    <3> QED
      BY <3>2, <3>3 DEF DataInv
  <2>6. (idequeue' # <<>> /\ dirty'[Head(idequeue')])
           => disk'[blockno'[Head(idequeue')]] = data'[Head(idequeue')]
    <3> SUFFICES ASSUME idequeue # <<>>, dirty'[Head(idequeue)]
                 PROVE  disk'[blockno[Head(idequeue)]] = data'[Head(idequeue)]
      BY <1>1
    <3> DEFINE h == Head(idequeue)
    <3>1. h \in Buf /\ h # x
      BY <1>2, HeadInQueue
    <3> HIDE DEF h
    <3>2. dirty[h] /\ data'[h] = data[h] /\ blockno[h] \in Block /\ blockno[h] # k
      BY <3>1, <1>x, <1>2, <2>0 DEF DataInv, h
    <3>3. disk[blockno[h]] = data[h]
      BY <3>2 DEF DataInv, h
    <3>4. disk'[blockno[h]] = disk[blockno[h]]
      BY <3>2, <1>d
    <3> QED
      BY <3>2, <3>3, <3>4 DEF h
  <2> QED
    BY <2>1, <2>2, <2>3, <2>4, <2>5, <2>6 DEF DataInv
<1>9. SpareInv'
  <2>1. Pinned' \subseteq Pinned
    <3> SUFFICES ASSUME NEW y \in Pinned' PROVE y \in Pinned
      OBVIOUS
    <3>1. y \in Buf /\ y # x /\ dirty[y]
      BY <1>x DEF Pinned
    <3>2. \A q \in Proc : pc[q] \in {"iderw", "io", "io_sleep"} => b[q] # y
      BY <3>1, <1>1 DEF Pinned, x
    <3> QED
      BY <3>1, <3>2 DEF Pinned
  <2> QED
    BY <2>1, <1>1, <1>p, SpareStep
<1> QED
  BY <1>4, <1>5, <1>6, <1>7, <1>8, <1>9

\* ideintr() ends the first request, wakes its process and starts the next.
LEMMA IdeintrIInv ==
  ASSUME NEW ok \in BOOLEAN, IInv, Ideintr(ok)
  PROVE  IInv'
<1> USE DEF IInv
<1> DEFINE x == Head(idequeue)  k == blockno[x]  t == Tail(idequeue)
<1>1. /\ ~panicked /\ idequeue # <<>> /\ Idewait(x, ok) /\ idequeue' = t
      /\ UNCHANGED <<mru, blockno, refcnt, memdisk, locked, b, latest, panicked>>
      /\ disk' = Idestart(disk, t)
      /\ data' = IF ~dirty[x] /\ ok THEN [data EXCEPT ![x] = disk[k]] ELSE data
      /\ dirty' = [dirty EXCEPT ![x] = FALSE]
      /\ valid' = [valid EXCEPT ![x] = TRUE]
      /\ pc \in [Proc -> PC]
      /\ data \in [Buf -> Val] /\ disk \in [Block -> Val] /\ idequeue \in Seq(Buf)
      /\ dirty \in [Buf -> BOOLEAN] /\ valid \in [Buf -> BOOLEAN]
  BY DEF Ideintr, TypeOK
<1>w. pc' = [q \in Proc |-> IF pc[q] = "io_sleep" /\ b[q] = x THEN "io" ELSE pc[q]]
  <2>1. \A q \in Proc : q # NoBuf
    BY BufferCacheAssumption
  <2> QED
    BY <2>1 DEF Ideintr, WakeupOn
<1>h. /\ Len(idequeue) \in Nat /\ 1 \in 1..Len(idequeue) /\ x = idequeue[1] /\ x \in Buf
      /\ InQueue(x)
  BY <1>1, HeadInQueue
<1>b. Busy(x) /\ \E q \in Proc : b[q] = x /\ pc[q] \in IoPC
  BY <1>h DEF QueueInv
<1>m. PICK m \in Proc : b[m] = x /\ pc[m] \in IoPC
  BY <1>b
<1>2. /\ k \in Block
      /\ \A q \in Proc : (pc[q] \in HoldPC /\ b[q] = x) => q = m
      /\ \A y \in Buf : y # x => blockno[y] # k
  <2>1. pc[m] \in HoldPC
    BY <1>m DEF HoldPC, IoPC
  <2> QED
    BY <2>1, <1>m, Mine
<1>t. /\ t \in Seq(Buf) /\ Len(t) = Len(idequeue) - 1
      /\ \A i \in 1..Len(t) : t[i] = idequeue[i + 1] /\ i + 1 \in 1..Len(idequeue)
  <2>1. /\ t \in Seq(Buf) /\ Len(t) = Len(idequeue) - 1
        /\ \A i \in 1..Len(t) : t[i] = idequeue[i + 1]
    BY <1>1, HeadTailProperties
  <2> QED
    BY <2>1, <1>h
<1>x. /\ ~dirty'[x] /\ valid'[x]
      /\ data'[x] = IF ~dirty[x] /\ ok THEN disk[k] ELSE data[x]
      /\ \A y \in Buf : y # x => /\ data'[y] = data[y] /\ dirty'[y] = dirty[y]
                                 /\ valid'[y] = valid[y]
      /\ data' \in [Buf -> Val]
  BY <1>1, <1>2, <1>h
<1>y. dirty' \in [Buf -> BOOLEAN] /\ valid' \in [Buf -> BOOLEAN]
  BY <1>1
<1> HIDE DEF x, k, t
<1>n. \A i \in 1..Len(t) : t[i] # x /\ t[i] \in Buf
  <2> SUFFICES ASSUME NEW i \in 1..Len(t) PROVE t[i] # x /\ t[i] \in Buf
    OBVIOUS
  <2>1. t[i] = idequeue[i + 1] /\ i + 1 \in 1..Len(idequeue) /\ i + 1 # 1
    BY <1>t
  <2>2. idequeue[i + 1] # idequeue[1]
    BY <2>1, <1>h DEF QueueInv
  <2> QED
    BY <2>1, <2>2, <1>h, <1>t
<1>q. \A y \in Buf : InQueue(y)' <=> (InQueue(y) /\ y # x)
  <2>1. ASSUME NEW y \in Buf, InQueue(y)' PROVE InQueue(y) /\ y # x
    <3>1. PICK i \in 1..Len(t) : t[i] = y
      BY <2>1, <1>1 DEF InQueue
    <3> QED
      BY <3>1, <1>t, <1>n DEF InQueue
  <2>2. ASSUME NEW y \in Buf, InQueue(y), y # x PROVE InQueue(y)'
    <3>1. PICK i \in 1..Len(idequeue) : idequeue[i] = y
      BY <2>2 DEF InQueue
    <3>2. i # 1
      BY <3>1, <2>2, <1>h
    <3>3. i - 1 \in 1..Len(t) /\ (i - 1) + 1 = i
      BY <3>2, <1>t, <1>h
    <3>4. t[i - 1] = y
      BY <3>1, <3>3, <1>t
    <3> QED
      BY <3>3, <3>4, <1>1 DEF InQueue
  <2> QED
    BY <2>1, <2>2
<1>v. \A y \in Buf : (valid[y] => blockno[y] \in Block) /\ (valid[y] => valid'[y])
  <2>1. \A y \in Buf : valid[y] => blockno[y] \in Block
    BY DEF DataInv, TypeOK
  <2>2. \A y \in Buf : valid[y] => valid'[y]
    BY <1>x
  <2> QED
    BY <2>1, <2>2
\* The next request z, if there is one.
<1>d. /\ disk' \in [Block -> Val]
      /\ \A z \in Buf : (z # x /\ valid[z] /\ ~dirty[z]) => disk'[blockno[z]] = disk[blockno[z]]
      /\ disk'[k] = disk[k]
      /\ \A j \in Block : (\A y \in Buf : blockno[y] = j => ~valid[y]) => disk'[j] = disk[j]
      /\ t # <<>> => /\ Head(t) \in Buf /\ Head(t) # x
                     /\ dirty[Head(t)] => disk'[blockno[Head(t)]] = data[Head(t)]
  <2>1. CASE t = <<>>
    <3>1. disk' = disk
      BY <2>1, <1>1 DEF Idestart
    <3> QED
      BY <2>1, <3>1, <1>1
  <2>2. CASE t # <<>>
    <3> DEFINE z == Head(t)
    <3>1. z \in Buf /\ z # x
      <4>1. z = t[1] /\ 1 \in 1..Len(t)
        BY <2>2, <1>t
      <4> QED
        BY <4>1, <1>n
    <3> HIDE DEF z
    <3>2. dirty[z] => blockno[z] \in Block /\ valid[z]
      BY <3>1, <1>v DEF DataInv
    <3>3. /\ disk' \in [Block -> Val]
          /\ dirty[z] => disk'[blockno[z]] = data[z]
          /\ \A j \in Block : j # blockno[z] => disk'[j] = disk[j]
          /\ ~dirty[z] => disk' = disk
      BY <2>2, <3>1, <3>2, <1>1, IdestartFacts DEF z
    <3>4. \A y \in Buf : (y # z /\ dirty[z]) => blockno[y] # blockno[z]
      BY <3>1, <3>2, BufferCacheAssumption DEF UseInv
    <3>5. \A y \in Buf : (y # x /\ valid[y] /\ ~dirty[y]) => disk'[blockno[y]] = disk[blockno[y]]
      BY <3>3, <3>4, <1>v
    <3>6. disk'[k] = disk[k]
      BY <3>1, <3>3, <3>4, <1>2, <1>h DEF k
    <3>7. \A j \in Block : (\A y \in Buf : blockno[y] = j => ~valid[y]) => disk'[j] = disk[j]
      BY <3>1, <3>2, <3>3
    <3> QED
      BY <3>1, <3>3, <3>5, <3>6, <3>7 DEF z
  <2> QED
    BY <2>1, <2>2
<1>4. TypeOK'
  <2>1. pc' \in [Proc -> PC]
    BY <1>1, <1>w DEF PC
  <2> QED
    BY <2>1, <1>1, <1>x, <1>y, <1>t, <1>d DEF TypeOK
<1>5. UseInv'
  BY <1>1, <1>w, UseStep
<1>6. LockInv'
  <2>1. \A q \in Proc : (pc'[q] \in HoldPC) <=> (pc[q] \in HoldPC)
    BY <1>w DEF HoldPC
  <2>2. \A q \in Proc : pc'[q] = "sleeping" => pc[q] = "sleeping"
    BY <1>w
  <2> QED
    BY <2>1, <2>2, <1>1 DEF LockInv
<1>7. QueueInv'
  <2>1. \A i, j \in 1..Len(idequeue') : idequeue'[i] = idequeue'[j] => i = j
    <3> SUFFICES ASSUME NEW i \in 1..Len(t), NEW j \in 1..Len(t), t[i] = t[j] PROVE i = j
      BY <1>1
    <3>1. i + 1 \in 1..Len(idequeue) /\ j + 1 \in 1..Len(idequeue)
      BY <1>t
    <3>2. idequeue[i + 1] = idequeue[j + 1]
      BY <1>t
    <3>3. i + 1 = j + 1
      BY <3>1, <3>2 DEF QueueInv
    <3> QED
      BY <3>3
  <2>2. \A q \in Proc : (pc'[q] \in IoPC) <=> (pc[q] \in IoPC)
    BY <1>w DEF IoPC
  <2>3. \A y \in Buf : y # x => (Busy(y)' <=> Busy(y))
    BY <1>x DEF Busy
  <2>5. \A y \in Buf : InQueue(y)' => (Busy(y)' /\ \E q \in Proc : b'[q] = y /\ pc'[q] \in IoPC)
    BY <2>2, <2>3, <1>q, <1>1 DEF QueueInv
  <2>6. \A q \in Proc : pc[q] # "idle" => b[q] \in Buf
    BY HasBuffer
  <2>7. \A q \in Proc : pc'[q] = "io_sleep" => InQueue(b[q])'
    <3> SUFFICES ASSUME NEW q \in Proc, pc'[q] = "io_sleep" PROVE InQueue(b[q])'
      OBVIOUS
    <3>1. pc[q] = "io_sleep" /\ b[q] # x /\ b[q] \in Buf /\ b'[q] = b[q]
      BY <1>w, <1>1, <2>6
    <3>2. \E i \in 1..Len(t) : t[i] = b[q]
      BY <3>1, <1>q, <1>1 DEF QueueInv, InQueue
    <3> QED
      BY <3>1, <3>2, <1>1 DEF InQueue
  <2>8. \A q \in Proc : pc'[q] = "io" => (InQueue(b[q])' \/ ~Busy(b[q])')
    <3> SUFFICES ASSUME NEW q \in Proc, pc'[q] = "io" PROVE InQueue(b[q])' \/ ~Busy(b[q])'
      OBVIOUS
    <3>1. pc[q] \in {"io", "io_sleep"} /\ b[q] \in Buf /\ b'[q] = b[q]
      BY <1>w, <1>1, <2>6
    <3>2. CASE b[q] = x
      BY <3>1, <3>2, <1>x DEF Busy
    <3>3. CASE b[q] # x
      <4>1. InQueue(b[q]) \/ ~Busy(b[q])
        BY <3>1 DEF QueueInv
      <4>2. (\E i \in 1..Len(t) : t[i] = b[q]) \/ ~Busy(b[q])
        BY <4>1, <3>1, <3>3, <1>q, <1>1 DEF InQueue
      <4> QED
        BY <4>2, <3>1, <3>3, <1>x, <1>1 DEF InQueue, Busy
    <3> QED
      BY <3>2, <3>3
  <2>9. \A q \in Proc : pc'[q] = "iderw" => Busy(b[q])'
    <3> SUFFICES ASSUME NEW q \in Proc, pc'[q] = "iderw" PROVE Busy(b[q])'
      OBVIOUS
    <3>1. pc[q] = "iderw" /\ b[q] \in Buf /\ b'[q] = b[q]
      BY <1>w, <1>1, <2>6
    <3>2. b[q] # x
      BY <3>1, <1>2, <1>m DEF HoldPC, IoPC
    <3> QED
      BY <3>1, <3>2, <1>x DEF QueueInv, Busy
  <2> QED
    BY <2>1, <2>5, <2>7, <2>8, <2>9 DEF QueueInv
<1>8. DataInv'
  <2>1. \A q \in Proc : pc'[q] = "has" => valid'[b'[q]]
    <3> SUFFICES ASSUME NEW q \in Proc, pc'[q] = "has" PROVE valid'[b[q]]
      BY <1>1
    <3>1. pc[q] = "has"
      BY <1>w
    <3>2. b[q] \in Buf /\ valid[b[q]]
      BY <3>1, HasBuffer DEF DataInv
    <3> QED
      BY <3>2, <1>v
  <2>2. \A y \in Buf : (dirty'[y] => valid'[y]) /\ (valid'[y] => blockno'[y] # NoBlock)
    BY <1>1, <1>2, <1>x, BufferCacheAssumption DEF DataInv, k
  <2>3. \A y \in Buf : (valid'[y] /\ blockno'[y] \notin BadBlocks) => data'[y] = latest'[blockno'[y]]
    <3> SUFFICES ASSUME NEW y \in Buf, valid'[y], blockno[y] \notin BadBlocks
                 PROVE  data'[y] = latest[blockno[y]]
      BY <1>1
    <3>1. CASE y # x
      BY <3>1, <1>x DEF DataInv
    <3>2. CASE y = x /\ dirty[x]
      BY <3>2, <1>x, <1>h DEF DataInv
    <3>3. CASE y = x /\ ~dirty[x]
      <4>1. \A z \in Buf : blockno[z] = k => ~valid[z]
        BY <3>3, <1>2, <1>b DEF Busy
      <4>2. disk[k] = latest[k]
        BY <4>1, <3>3, <1>2 DEF DataInv, k
      <4>3. ok
        BY <3>3, <1>1 DEF Idewait, k
      <4> QED
        BY <4>2, <4>3, <3>3, <1>x DEF k
    <3> QED
      BY <3>1, <3>2, <3>3
  <2>4. \A y \in Buf : (valid'[y] /\ ~dirty'[y] /\ blockno'[y] \notin BadBlocks)
                          => data'[y] = disk'[blockno'[y]]
    <3> SUFFICES ASSUME NEW y \in Buf, valid'[y], ~dirty'[y], blockno[y] \notin BadBlocks
                 PROVE  data'[y] = disk'[blockno[y]]
      BY <1>1
    <3>1. CASE y # x
      BY <3>1, <1>x, <1>d DEF DataInv
    <3>2. CASE y = x /\ dirty[x]
      <4>1. disk[k] = data[x]
        BY <3>2, <1>1 DEF DataInv, x, k
      <4> QED
        BY <4>1, <3>2, <1>x, <1>d DEF k
    <3>3. CASE y = x /\ ~dirty[x]
      <4>1. ok
        BY <3>3, <1>1 DEF Idewait, k
      <4> QED
        BY <4>1, <3>3, <1>x, <1>d DEF k
    <3> QED
      BY <3>1, <3>2, <3>3
  <2>5. \A j \in Block : (j \notin BadBlocks /\ \A y \in Buf : blockno'[y] = j => ~valid'[y])
                            => disk'[j] = latest'[j]
    <3> SUFFICES ASSUME NEW j \in Block, j \notin BadBlocks,
                        \A y \in Buf : blockno[y] = j => ~valid'[y]
                 PROVE  disk'[j] = latest[j]
      BY <1>1
    <3>1. \A y \in Buf : blockno[y] = j => ~valid[y]
      BY <1>v
    <3>2. disk'[j] = disk[j]
      BY <3>1, <1>d
    <3> QED
      BY <3>1, <3>2 DEF DataInv
  <2>6. (idequeue' # <<>> /\ dirty'[Head(idequeue')])
           => disk'[blockno'[Head(idequeue')]] = data'[Head(idequeue')]
    BY <1>d, <1>x, <1>1
  <2> QED
    BY <2>1, <2>2, <2>3, <2>4, <2>5, <2>6 DEF DataInv
<1>9. SpareInv'
  <2>1. Pinned' \subseteq Pinned
    <3> SUFFICES ASSUME NEW y \in Pinned' PROVE y \in Pinned
      OBVIOUS
    <3>1. y \in Buf /\ dirty[y] /\ y # x
      BY <1>x DEF Pinned
    <3>2. \A q \in Proc : pc[q] \in {"iderw", "io", "io_sleep"} => b[q] # y
      BY <1>w, <1>1 DEF Pinned
    <3> QED
      BY <3>1, <3>2 DEF Pinned
  <2> QED
    BY <2>1, <1>1, SpareStep
<1> QED
  BY <1>4, <1>5, <1>6, <1>7, <1>8, <1>9

-----------------------------------------------------------------------------
(***************************************************************************)
(* bget() and the end of brelse()                                          *)
(***************************************************************************)
\* bget() finds the block in the cache and counts one more user.
LEMMA BgetHitIInv ==
  ASSUME NEW p \in Proc, NEW blk \in Block, IInv, BgetHit(p, blk)
  PROVE  IInv'
<1> USE DEF IInv, At, Goto
<1>1. PICK x \in Cached(blk) : /\ refcnt' = [refcnt EXCEPT ![x] = @ + 1]
                               /\ b' = [b EXCEPT ![p] = x]
  BY DEF BgetHit
<1>2. /\ pc[p] = "idle" /\ ~panicked /\ b[p] = NoBuf
      /\ UNCHANGED <<mru, blockno, valid, dirty, data, idequeue, disk, memdisk, locked,
                     latest, panicked>>
      /\ pc \in [Proc -> PC] /\ pc' = [pc EXCEPT ![p] = "acquiresleep"]
      /\ refcnt \in [Buf -> Nat] /\ b \in [Proc -> Buf \cup {NoBuf}]
  BY DEF BgetHit, diskVars, TypeOK, UseInv
<1>3. /\ x \in Buf /\ blockno[x] = blk /\ blk # NoBlock /\ NoBuf \notin Buf
      /\ IsFiniteSet(Proc)
  BY BufferCacheAssumption DEF Cached
<1>4. TypeOK'
  BY <1>1, <1>2, <1>3 DEF TypeOK, PC
<1>5. UseInv'
  <2>1. p \notin Users(x) /\ IsFiniteSet(Users(x)) /\ Users(x)' = Users(x) \cup {p}
    <3>1. p \notin Users(x) /\ Users(x)' = Users(x) \cup {p}
      BY <1>1, <1>2, <1>3 DEF Users
    <3>2. Users(x) \subseteq Proc
      BY DEF Users
    <3> QED
      BY <3>1, <3>2, <1>3, FS_Subset
  <2>2. Cardinality(Users(x)') = refcnt'[x]
    <3>1. Cardinality(Users(x)') = Cardinality(Users(x)) + 1
      BY <2>1, FS_AddElement
    <3>2. refcnt'[x] = refcnt[x] + 1
      BY <1>1, <1>2, <1>3
    <3>3. refcnt[x] = Cardinality(Users(x))
      BY <1>3 DEF UseInv
    <3> QED
      BY <3>1, <3>2, <3>3
  <2>3. \A y \in Buf : y # x => Users(y)' = Users(y)
    BY <1>1, <1>2, <1>3 DEF Users
  <2>4. \A y \in Buf : y # x => refcnt'[y] = refcnt[y]
    BY <1>1, <1>2
  <2>5. \A y \in Buf : refcnt'[y] = Cardinality(Users(y)')
    BY <2>2, <2>3, <2>4 DEF UseInv
  <2>6. \A q \in Proc : (b'[q] = NoBuf) <=> (pc'[q] = "idle")
    BY <1>1, <1>2, <1>3 DEF UseInv
  <2>7. \A q \in Proc : b'[q] # NoBuf => blockno'[b'[q]] # NoBlock
    BY <1>1, <1>2, <1>3 DEF UseInv
  <2> QED
    BY <2>5, <2>6, <2>7, <1>2 DEF UseInv
<1>q. \A q \in Proc : q # p => b'[q] = b[q] /\ pc'[q] = pc[q]
  BY <1>1, <1>2
<1>r. pc'[p] = "acquiresleep"
  BY <1>2
<1>6. LockInv'
  BY <1>2, <1>q, <1>r DEF LockInv, HoldPC
<1>7. QueueInv'
  BY <1>2, <1>q, <1>r DEF QueueInv, InQueue, Busy, IoPC
<1>8. DataInv'
  BY <1>2, <1>q, <1>r DEF DataInv
<1>9. SpareInv'
  <2>1. Pinned' \subseteq Pinned
    BY <1>2, <1>q, <1>r DEF Pinned
  <2> QED
    BY <2>1, <1>2, SpareStep
<1> QED
  BY <1>4, <1>5, <1>6, <1>7, <1>8, <1>9

\* The list after its element x moved to the front holds the same buffers.
LEMMA MoveToFrontFacts ==
  ASSUME TypeOK, NEW x \in Buf, Cardinality(Buf) \in Nat,
         \A y \in Buf : \E i \in DOMAIN mru : mru[i] = y
  PROVE  /\ MoveToFront(x) \in [1..Cardinality(Buf) -> Buf]
         /\ \A y \in Buf : \E i \in DOMAIN MoveToFront(x) : MoveToFront(x)[i] = y
<1> DEFINE n == Cardinality(Buf)
           k == CHOOSE i \in DOMAIN mru : mru[i] = x
           m == MoveToFront(x)
<1>1. mru \in [1..n -> Buf] /\ DOMAIN mru = 1..n
  BY DEF TypeOK
<1>2. k \in 1..n /\ mru[k] = x
  BY <1>1
<1>3. m = [i \in 1..n |-> IF i = 1 THEN x ELSE IF i <= k THEN mru[i - 1] ELSE mru[i]]
  BY <1>1 DEF MoveToFront
<1> HIDE DEF k, m, n
<1>4. n \in Nat
  BY DEF n
<1>5. m \in [1..n -> Buf]
  BY <1>1, <1>2, <1>3, <1>4
<1>6. ASSUME NEW y \in Buf PROVE \E i \in DOMAIN m : m[i] = y
  <2>1. PICK j \in 1..n : mru[j] = y
    BY <1>1
  <2>2. CASE j = k
    <3>1. 1 \in 1..n /\ m[1] = y
      BY <2>1, <2>2, <1>2, <1>3, <1>4
    <3> QED
      BY <3>1, <1>5
  <2>3. CASE j < k
    <3>1. j + 1 \in 1..n /\ j + 1 # 1 /\ j + 1 <= k /\ (j + 1) - 1 = j
      BY <2>3, <1>2, <1>4
    <3>2. m[j + 1] = mru[(j + 1) - 1]
      BY <3>1, <1>3
    <3> QED
      BY <3>1, <3>2, <2>1, <1>5
  <2>4. CASE j > k
    <3>1. j # 1 /\ ~(j <= k)
      BY <2>4, <1>2, <1>4
    <3>2. m[j] = mru[j]
      BY <3>1, <1>3
    <3> QED
      BY <3>2, <2>1, <1>5
  <2> QED
    BY <2>2, <2>3, <2>4, <1>2, <1>4
<1> QED
  BY <1>5, <1>6 DEF m, n

\* The last step of brelse(): one user less, and the list stays a list of all
\* the buffers.
LEMMA BrelseIInv ==
  ASSUME NEW p \in Proc, IInv, Brelse(p)
  PROVE  IInv'
<1> USE DEF IInv, At, Goto
<1>1. /\ pc[p] = "brelse" /\ ~panicked
      /\ UNCHANGED <<blockno, valid, dirty, data, idequeue, disk, memdisk, locked,
                     latest, panicked>>
      /\ pc \in [Proc -> PC] /\ pc' = [pc EXCEPT ![p] = "idle"]
      /\ refcnt \in [Buf -> Nat] /\ b \in [Proc -> Buf \cup {NoBuf}]
      /\ b' = [b EXCEPT ![p] = NoBuf]
      /\ refcnt' = [refcnt EXCEPT ![b[p]] = @ - 1]
      /\ mru' = IF refcnt[b[p]] = 1 THEN MoveToFront(b[p]) ELSE mru
  BY DEF Brelse, diskVars, TypeOK
<1>2. PICK x \in Buf : x = b[p]
  BY <1>1, HasBuffer
<1>3. IsFiniteSet(Proc) /\ IsFiniteSet(Buf) /\ NoBuf \notin Buf
  BY BufferCacheAssumption
<1>4. /\ p \in Users(x) /\ IsFiniteSet(Users(x)) /\ Users(x)' = Users(x) \ {p}
      /\ refcnt[x] = Cardinality(Users(x)) /\ refcnt[x] # 0
  <2>1. p \in Users(x) /\ Users(x)' = Users(x) \ {p}
    BY <1>1, <1>2, <1>3 DEF Users
  <2>2. Users(x) \subseteq Proc
    BY DEF Users
  <2>3. IsFiniteSet(Users(x))
    BY <2>2, <1>3, FS_Subset
  <2> QED
    BY <2>1, <2>3, FS_EmptySet DEF UseInv
<1>5. /\ refcnt'[x] = Cardinality(Users(x)') /\ refcnt' \in [Buf -> Nat]
      /\ \A y \in Buf : y # x => refcnt'[y] = refcnt[y]
  <2>1. Cardinality(Users(x)') = refcnt[x] - 1
    BY <1>4, FS_RemoveElement
  <2> QED
    BY <2>1, <1>1, <1>2, <1>4
<1>m. /\ mru' \in [1..Cardinality(Buf) -> Buf]
      /\ \A y \in Buf : \E i \in DOMAIN mru' : mru'[i] = y
  <2>1. Cardinality(Buf) \in Nat
    BY <1>3, FS_CardinalityType
  <2>2. CASE refcnt[x] = 1
    <3>1. mru' = MoveToFront(x)
      BY <2>2, <1>1, <1>2
    <3> QED
      BY <3>1, <2>1, MoveToFrontFacts DEF SpareInv
  <2>3. CASE refcnt[x] # 1
    <3>1. mru' = mru
      BY <2>3, <1>1, <1>2
    <3> QED
      BY <3>1 DEF SpareInv, TypeOK
  <2> QED
    BY <2>2, <2>3
<1>6. TypeOK'
  BY <1>1, <1>5, <1>m DEF TypeOK, PC
<1>q. \A q \in Proc : q # p => b'[q] = b[q] /\ pc'[q] = pc[q]
  BY <1>1
<1>r. pc'[p] = "idle" /\ b'[p] = NoBuf
  BY <1>1
<1>7. UseInv'
  <2>1. \A y \in Buf : y # x => Users(y)' = Users(y)
    BY <1>1, <1>2, <1>3 DEF Users
  <2>2. \A y \in Buf : refcnt'[y] = Cardinality(Users(y)')
    BY <2>1, <1>5 DEF UseInv
  <2> QED
    BY <2>2, <1>1, <1>q, <1>r DEF UseInv
<1>8. LockInv'
  BY <1>1, <1>q, <1>r DEF LockInv, HoldPC
<1>9. QueueInv'
  <2>1. \A y : (InQueue(y)' <=> InQueue(y)) /\ (Busy(y)' <=> Busy(y))
    BY <1>1 DEF InQueue, Busy
  <2>2. \A i, j \in 1..Len(idequeue') : idequeue'[i] = idequeue'[j] => i = j
    BY <1>1 DEF QueueInv
  <2>3. \A y \in Buf : InQueue(y)' =>
          Busy(y)' /\ \E q \in Proc : b'[q] = y /\ pc'[q] \in IoPC
    BY <2>1, <1>1, <1>q DEF QueueInv, IoPC
  <2>4. \A q \in Proc : /\ pc'[q] = "io_sleep" => InQueue(b[q])'
                        /\ pc'[q] = "io" => InQueue(b[q])' \/ ~Busy(b[q])'
                        /\ pc'[q] = "iderw" => Busy(b[q])'
    BY <1>1, <1>q, <1>r DEF QueueInv, InQueue, Busy
  <2> HIDE DEF IInv
  <2> QED
    BY <2>2, <2>3, <2>4 DEF QueueInv
<1>10. DataInv'
  BY <1>1, <1>q, <1>r DEF DataInv
<1>11. SpareInv'
  <2>1. Pinned' = Pinned
    BY <1>1, <1>q, <1>r, <1>2 DEF Pinned
  <2> QED
    BY <2>1, <1>1, <1>m DEF SpareInv
<1> QED
  BY <1>6, <1>7, <1>8, <1>9, <1>10, <1>11

-----------------------------------------------------------------------------
(***************************************************************************)
(* The second loop of bget()                                               *)
(***************************************************************************)
\* The loop from the tail of the list meets the last of the free buffers first.
LEMMA GreatestIndex ==
  ASSUME NEW n \in Nat, NEW S \in SUBSET (1..n), S # {}
  PROVE  (CHOOSE i \in S : \A j \in S : j <= i) \in S
<1> DEFINE T == {n - i : i \in S}
<1>1. T \in SUBSET Nat /\ T # {}
  <2>1. \A i \in S : n - i \in Nat
    OBVIOUS
  <2> QED
    BY <2>1, Zenon
<1>2. PICK t \in T : \A u \in T : <<u, t>> \notin OpToRel(<, Nat)
  BY <1>1, NatLessThanWellFounded, WFMin
<1>3. PICK i \in S : t = n - i
  OBVIOUS
<1>4. ASSUME NEW j \in S PROVE j <= i
  <2>1. n - j \in T /\ n - j \in Nat /\ t \in Nat /\ i \in Nat /\ j \in Nat
    OBVIOUS
  <2>2. n - j < t => <<n - j, t>> \in OpToRel(<, Nat)
    BY <2>1 DEF OpToRel
  <2>3. ~(n - j < t)
    BY <1>2, <2>1, <2>2, Zenon
  <2> QED
    BY <2>1, <2>3, <1>3
<1> QED
  BY <1>4

\* A process that holds no buffer finds a free one: the others use one each,
\* and the log pins no more than MaxPinned.
LEMMA SpareBuffer ==
  ASSUME IInv, EnoughBuffers, NEW p \in Proc, pc[p] = "idle"
  PROVE  \E x \in Buf : Recyclable(x)
<1> USE DEF IInv
<1> SUFFICES ASSUME \A x \in Buf : ~Recyclable(x) PROVE FALSE
  OBVIOUS
<1> DEFINE S == {q \in Proc : b[q] # NoBuf}
           U == {b[q] : q \in S}
           D == {x \in Buf : dirty[x] /\ Users(x) = {}}
           f == [q \in S |-> b[q]]
<1>1. IsFiniteSet(Proc) /\ IsFiniteSet(Buf) /\ MaxPinned \in Nat
  BY BufferCacheAssumption
<1>2. b[p] = NoBuf /\ b \in [Proc -> Buf \cup {NoBuf}]
  BY DEF UseInv, TypeOK
<1>3. S \subseteq Proc \ {p}
  BY <1>2
<1>4. /\ IsFiniteSet(Proc \ {p}) /\ Cardinality(Proc \ {p}) = Cardinality(Proc) - 1
      /\ Cardinality(Proc) \in Nat /\ Cardinality(Buf) \in Nat
  BY <1>1, FS_RemoveElement, FS_CardinalityType
<1>5. IsFiniteSet(S) /\ Cardinality(S) <= Cardinality(Proc) - 1
  BY <1>3, <1>4, FS_Subset
<1>6. f \in Surjection(S, U)
  BY DEF Surjection
<1>7. IsFiniteSet(U) /\ Cardinality(U) <= Cardinality(S)
  BY <1>5, <1>6, FS_Surjection
<1>8. D \subseteq Pinned
  BY DEF Pinned, Users
<1>9. IsFiniteSet(D) /\ Cardinality(D) <= MaxPinned
  <2>1. IsFiniteSet(Pinned)
    BY <1>1, FS_Subset DEF Pinned
  <2>2. IsFiniteSet(D) /\ Cardinality(D) <= Cardinality(Pinned)
    BY <2>1, <1>8, FS_Subset
  <2>3. Cardinality(D) \in Nat /\ Cardinality(Pinned) \in Nat
    BY <2>1, <2>2, FS_CardinalityType
  <2>4. Cardinality(Pinned) <= MaxPinned
    BY DEF SpareInv
  <2> HIDE DEF D
  <2> QED
    BY <2>2, <2>3, <2>4, <1>1
<1>10. Buf \subseteq U \cup D
  <2> SUFFICES ASSUME NEW x \in Buf, x \notin D PROVE x \in U
    OBVIOUS
  <2>1. refcnt[x] = Cardinality(Users(x))
    BY DEF UseInv
  <2>2. Users(x) # {}
    BY <2>1, FS_EmptySet DEF Recyclable
  <2>3. NoBuf \notin Buf
    BY BufferCacheAssumption
  <2> QED
    BY <2>2, <2>3 DEF Users
<1>11. /\ IsFiniteSet(U \cup D) /\ Cardinality(Buf) <= Cardinality(U \cup D)
       /\ Cardinality(U \cup D) = Cardinality(U) + Cardinality(D) - Cardinality(U \cap D)
  <2>1. /\ IsFiniteSet(U \cup D)
        /\ Cardinality(U \cup D) = Cardinality(U) + Cardinality(D) - Cardinality(U \cap D)
    BY <1>7, <1>9, FS_Union
  <2> QED
    BY <2>1, <1>10, FS_Subset
<1>12. /\ Cardinality(U \cap D) \in Nat /\ Cardinality(U) \in Nat /\ Cardinality(D) \in Nat
       /\ Cardinality(S) \in Nat /\ Cardinality(U \cup D) \in Nat
  <2>1. IsFiniteSet(U \cap D)
    BY <1>7, FS_Subset
  <2> QED
    BY <2>1, <1>5, <1>7, <1>9, <1>11, FS_CardinalityType
<1> HIDE DEF U, D, S
<1>13. Cardinality(Proc) + MaxPinned <= Cardinality(Buf)
  BY DEF EnoughBuffers
<1> QED
  BY <1>1, <1>4, <1>5, <1>7, <1>9, <1>11, <1>12, <1>13

\* bget() gives a free buffer to the block, or panics when there is none.
LEMMA BgetRecycleIInv ==
  ASSUME NEW p \in Proc, NEW blk \in Block, IInv, BgetRecycle(p, blk)
  PROVE  IInv'
<1> USE DEF IInv, At, Goto
<1> DEFINE free == {i \in 1..Len(mru) : Recyclable(mru[i])}
<1>1. /\ pc[p] = "idle" /\ ~panicked /\ b[p] = NoBuf /\ Cached(blk) = {}
      /\ UNCHANGED <<mru, data, idequeue, disk, memdisk, locked, latest>>
      /\ pc \in [Proc -> PC] /\ blockno \in [Buf -> Block \cup {NoBlock}]
      /\ refcnt \in [Buf -> Nat] /\ b \in [Proc -> Buf \cup {NoBuf}]
      /\ valid \in [Buf -> BOOLEAN] /\ dirty \in [Buf -> BOOLEAN]
  BY DEF BgetRecycle, diskVars, TypeOK, UseInv
<1>2. /\ blk # NoBlock /\ NoBuf \notin Buf /\ IsFiniteSet(Proc) /\ IsFiniteSet(Buf)
      /\ Cardinality(Buf) \in Nat
  BY BufferCacheAssumption, FS_CardinalityType
<1>3. mru \in [1..Cardinality(Buf) -> Buf] /\ Len(mru) = Cardinality(Buf)
  BY <1>2, LenProperties DEF TypeOK
<1>4. CASE free = {}
  <2>1. panicked' = TRUE /\ UNCHANGED <<blockno, valid, dirty, refcnt, b, pc>>
    BY <1>4 DEF BgetRecycle
  <2>2. ~EnoughBuffers
    <3>1. \A x \in Buf : ~Recyclable(x)
      BY <1>3, <1>4 DEF SpareInv
    <3> QED
      BY <3>1, <1>1, SpareBuffer
  <2>3. TypeOK'
    BY <1>1, <2>1 DEF TypeOK
  <2>4. UseInv'
    BY <1>1, <2>1, UseStep
  <2>5. LockInv' /\ QueueInv' /\ DataInv'
    BY <1>1, <2>1 DEF LockInv, QueueInv, InQueue, Busy, DataInv
  <2>6. SpareInv'
    <3>1. Pinned' = Pinned
      BY <1>1, <2>1 DEF Pinned
    <3> QED
      BY <3>1, <2>2, <1>1, SpareStep
  <2> QED
    BY <2>3, <2>4, <2>5, <2>6
<1>5. CASE free # {}
  <2> DEFINE last == CHOOSE i \in free : \A j \in free : j <= i
  <2>1. last \in free
    <3>1. free \in SUBSET (1..Cardinality(Buf))
      BY <1>3
    <3> HIDE DEF free
    <3> QED
      BY <3>1, <1>2, <1>5, GreatestIndex
  <2>2. PICK x \in Buf : x = mru[last]
    BY <2>1, <1>3
  <2>3. refcnt[x] = 0 /\ ~dirty[x]
    BY <2>1, <2>2 DEF Recyclable
  <2>4. /\ blockno' = [blockno EXCEPT ![x] = blk]
        /\ valid' = [valid EXCEPT ![x] = FALSE]
        /\ dirty' = [dirty EXCEPT ![x] = FALSE]
        /\ refcnt' = [refcnt EXCEPT ![x] = 1]
        /\ b' = [b EXCEPT ![p] = x]
        /\ pc' = [pc EXCEPT ![p] = "acquiresleep"]
        /\ panicked' = panicked
    BY <1>5, <2>2 DEF BgetRecycle
  <2> HIDE DEF last, free
  <2>5. Users(x) = {} /\ (\A q \in Proc : b[q] # x)
    <3>1. Users(x) \subseteq Proc /\ refcnt[x] = Cardinality(Users(x))
      BY DEF Users, UseInv
    <3>2. IsFiniteSet(Users(x))
      BY <3>1, <1>2, FS_Subset
    <3>3. Users(x) = {}
      BY <3>1, <3>2, <2>3, FS_EmptySet
    <3> QED
      BY <3>3 DEF Users
  <2>6. \A y \in Buf : blockno[y] # blk
    BY <1>1 DEF Cached
  <2>y. /\ \A y \in Buf : y # x => /\ blockno'[y] = blockno[y] /\ valid'[y] = valid[y]
                                   /\ dirty'[y] = dirty[y] /\ refcnt'[y] = refcnt[y]
        /\ blockno'[x] = blk /\ ~valid'[x] /\ ~dirty'[x] /\ refcnt'[x] = 1
    BY <2>4, <1>1
  <2>q. /\ \A q \in Proc : q # p => b'[q] = b[q] /\ pc'[q] = pc[q]
        /\ b'[p] = x /\ pc'[p] = "acquiresleep"
    BY <2>4, <1>1
  <2>7. TypeOK'
    BY <1>1, <2>4 DEF TypeOK, PC
  <2>8. UseInv'
    <3>1. Users(x)' = {p}
      BY <2>5, <2>q DEF Users
    <3>2. \A y \in Buf : y # x => Users(y)' = Users(y)
      BY <2>q, <1>1, <1>2 DEF Users
    <3>3. \A y \in Buf : refcnt'[y] = Cardinality(Users(y)')
      <4> SUFFICES ASSUME NEW y \in Buf PROVE refcnt'[y] = Cardinality(Users(y)')
        OBVIOUS
      <4>1. CASE y = x
        BY <4>1, <3>1, <2>y, FS_Singleton
      <4>2. CASE y # x
        BY <4>2, <3>2, <2>y DEF UseInv
      <4> QED
        BY <4>1, <4>2
    <3>4. \A q \in Proc : (b'[q] = NoBuf) <=> (pc'[q] = "idle")
      BY <2>q, <1>1, <1>2 DEF UseInv
    <3>5. \A q \in Proc : b'[q] # NoBuf => blockno'[b'[q]] # NoBlock
      BY <2>q, <2>y, <2>5, <1>1, <1>2 DEF UseInv
    <3>6. \A y, z \in Buf : (blockno'[y] = blockno'[z] /\ y # z) => blockno'[y] = NoBlock
      BY <2>y, <2>6 DEF UseInv
    <3> QED
      BY <3>3, <3>4, <3>5, <3>6 DEF UseInv
  <2>9. LockInv'
    BY <1>1, <2>q DEF LockInv, HoldPC
  <2>10. ~InQueue(x)
    BY <2>5 DEF QueueInv
  <2>i. \A i \in 1..Len(idequeue) : idequeue[i] \in Buf /\ idequeue[i] # x
    BY <2>10 DEF InQueue, TypeOK
  <2>11. QueueInv'
    <3>1. \A y \in Buf : InQueue(y)' = InQueue(y)
      BY <1>1 DEF InQueue
    <3>2. \A y \in Buf : y # x => Busy(y)' = Busy(y)
      BY <2>y DEF Busy
    <3>3. \A i, j \in 1..Len(idequeue') : idequeue'[i] = idequeue'[j] => i = j
      BY <1>1 DEF QueueInv
    <3>4. ASSUME NEW y \in Buf, InQueue(y)'
          PROVE  Busy(y)' /\ \E q \in Proc : b'[q] = y /\ pc'[q] \in IoPC
      <4>1. InQueue(y) /\ y # x
        BY <3>1, <3>4, <2>10
      <4>2. PICK q \in Proc : b[q] = y /\ pc[q] \in IoPC
        BY <4>1 DEF QueueInv
      <4>3. q # p
        BY <4>2, <1>1 DEF IoPC
      <4> QED
        BY <4>1, <4>2, <4>3, <3>2, <2>q DEF QueueInv
    <3>5. ASSUME NEW q \in Proc, pc'[q] \in {"io_sleep", "io", "iderw"}
          PROVE  b'[q] = b[q] /\ pc'[q] = pc[q] /\ b[q] \in Buf /\ b[q] # x
      <4>1. b'[q] = b[q] /\ pc'[q] = pc[q]
        BY <3>5, <2>q
      <4> QED
        BY <4>1, <3>5, <2>5, HasBuffer
    <3>6. \A q \in Proc : pc'[q] = "io_sleep" => InQueue(b[q])'
      BY <3>1, <3>5 DEF QueueInv, InQueue
    <3>7. \A q \in Proc : pc'[q] = "io" => InQueue(b[q])' \/ ~Busy(b[q])'
      BY <3>1, <3>2, <3>5 DEF QueueInv, InQueue, Busy
    <3>8. \A q \in Proc : pc'[q] = "iderw" => Busy(b[q])'
      BY <3>2, <3>5 DEF QueueInv, Busy
    <3> QED
      BY <3>3, <3>4, <3>6, <3>7, <3>8 DEF QueueInv, InQueue, Busy
  <2>12. DataInv'
    <3>1. \A q \in Proc : pc'[q] = "has" => valid'[b'[q]]
      <4> SUFFICES ASSUME NEW q \in Proc, pc'[q] = "has" PROVE valid'[b'[q]]
        OBVIOUS
      <4>1. b'[q] = b[q] /\ pc[q] = "has"
        BY <2>q
      <4>2. b[q] \in Buf /\ b[q] # x
        BY <4>1, <2>5, HasBuffer
      <4> QED
        BY <4>1, <4>2, <2>y DEF DataInv
    <3>2. \A y \in Buf : (dirty'[y] => valid'[y]) /\ (valid'[y] => blockno'[y] # NoBlock)
      BY <2>y DEF DataInv
    <3>3. \A y \in Buf : (valid'[y] /\ blockno'[y] \notin BadBlocks)
                           => data'[y] = latest'[blockno'[y]]
      BY <2>y, <1>1 DEF DataInv
    <3>4. \A y \in Buf : (valid'[y] /\ ~dirty'[y] /\ blockno'[y] \notin BadBlocks)
                           => data'[y] = disk'[blockno'[y]]
      BY <2>y, <1>1 DEF DataInv
    <3>5. ASSUME NEW j \in Block, j \notin BadBlocks,
                 \A y \in Buf : blockno'[y] = j => ~valid'[y]
          PROVE  disk'[j] = latest'[j]
      <4>1. CASE blockno[x] = j /\ valid[x]
        BY <4>1, <3>5, <2>3, <1>1 DEF DataInv
      <4>2. CASE ~(blockno[x] = j /\ valid[x])
        <5>1. \A y \in Buf : blockno[y] = j => ~valid[y]
          BY <4>2, <3>5, <2>y
        <5> QED
          BY <5>1, <3>5, <1>1 DEF DataInv
      <4> QED
        BY <4>1, <4>2
    <3>6. (idequeue' # <<>> /\ dirty'[Head(idequeue')])
             => disk'[blockno'[Head(idequeue')]] = data'[Head(idequeue')]
      <4> SUFFICES ASSUME idequeue # <<>> PROVE <3>6!1 => <3>6!2
        BY <1>1
      <4>1. Head(idequeue) = idequeue[1] /\ 1 \in 1..Len(idequeue)
        BY DEF TypeOK
      <4>2. Head(idequeue) \in Buf /\ Head(idequeue) # x
        BY <4>1, <2>i
      <4> QED
        BY <4>2, <2>y, <1>1 DEF DataInv
    <3> QED
      BY <3>1, <3>2, <3>3, <3>4, <3>5, <3>6 DEF DataInv
  <2>13. SpareInv'
    <3>1. Pinned' \subseteq Pinned
      BY <2>y, <2>q, <1>1, <2>5 DEF Pinned
    <3> QED
      BY <3>1, <1>1, <2>4, SpareStep
  <2> QED
    BY <2>7, <2>8, <2>9, <2>11, <2>12, <2>13
<1> QED
  BY <1>4, <1>5

-----------------------------------------------------------------------------
\* Every step of a process or of the disk keeps the invariant.
LEMMA NextIInv == IInv /\ [Next]_vars => IInv'
<1> SUFFICES ASSUME IInv, [Next]_vars PROVE IInv'
  OBVIOUS
<1>1. ASSUME NEW p \in Proc, NEW blk \in Block, BgetHit(p, blk) \/ BgetRecycle(p, blk)
      PROVE  IInv'
  BY <1>1, BgetHitIInv, BgetRecycleIInv
<1>2. ASSUME NEW p \in Proc, Continue(p)
      PROVE  IInv'
  BY <1>2, AcquireSleepIInv, BreadIInv, IderwIInv, MemIderwIInv, IderwWakesIInv,
     BrelseIInv DEF Continue
<1>3. ASSUME NEW p \in Proc, NEW v \in Val, Bwrite(p, v) \/ LogWrite(p, v)
      PROVE  IInv'
  BY <1>3, BwriteIInv, LogWriteIInv
<1>4. ASSUME NEW p \in Proc, ReleaseSleep(p) \/ KillWakes(p)
      PROVE  IInv'
  BY <1>4, ReleaseSleepIInv, KillWakesIInv
<1>5. ASSUME NEW ok \in BOOLEAN, Ideintr(ok)
      PROVE  IInv'
  BY <1>5, IdeintrIInv
<1>6. CASE UNCHANGED vars
  <2> USE DEF vars, cacheVars, diskVars
  <2>1. TypeOK' /\ UseInv' /\ LockInv'
    BY <1>6 DEF IInv, TypeOK, UseInv, Users, LockInv
  <2>2. QueueInv' /\ DataInv' /\ SpareInv'
    BY <1>6 DEF IInv, QueueInv, InQueue, Busy, DataInv, SpareInv, Pinned
  <2> QED
    BY <2>1, <2>2 DEF IInv
<1> QED
  BY <1>1, <1>2, <1>3, <1>4, <1>5, <1>6 DEF Next

(***************************************************************************)
(* The inductive invariant of the buffer cache, its sleep locks and the    *)
(* disk queue holds in every reachable state (bio.c, sleeplock.c, ide.c).  *)
(***************************************************************************)
THEOREM BufferCacheInvariant == Spec => []IInv
  BY InitIInv, NextIInv, PTL DEF Spec

(***************************************************************************)
(* If the processes and the log together need no more than all buffers,    *)
(* the calls of bio.c, sleeplock.c and ide.c do not panic; and a buffer    *)
(* is locked by exactly the one process between acquiresleep() and         *)
(* releasesleep(), and no block is ever in two buffers.                    *)
(***************************************************************************)
THEOREM ExclusiveBuffersThm ==
  ASSUME EnoughBuffers
  PROVE  Spec => []ExclusiveBuffers
<1>1. IInv => ExclusiveBuffers
  <2> SUFFICES ASSUME IInv PROVE ExclusiveBuffers
    OBVIOUS
  <2> USE DEF IInv
  <2>1. ~panicked
    BY DEF SpareInv
  <2>2. \A x, y \in Buf : blockno[x] = blockno[y] /\ x # y => blockno[x] = NoBlock
    BY DEF UseInv
  <2>3. ASSUME NEW x \in Buf
        PROVE  Cardinality(Holders(x)) = IF locked[x] THEN 1 ELSE 0
    <3>1. Holders(x) = {q \in Proc : b[q] = x /\ pc[q] \in HoldPC}
      <4>1. \A q \in Proc : b[q] = x => pc[q] # "idle"
        BY BufferCacheAssumption DEF UseInv
      <4> QED
        BY <4>1 DEF Holders, Users, HoldPC, TypeOK, PC
    <3>2. CASE locked[x]
      <4>1. PICK q \in Proc : b[q] = x /\ pc[q] \in HoldPC
        BY <3>2 DEF LockInv
      <4>2. Holders(x) = {q}
        BY <4>1, <3>1 DEF LockInv
      <4> QED
        BY <4>2, <3>2, FS_Singleton
    <3>3. CASE ~locked[x]
      <4>1. Holders(x) = {}
        BY <3>1, <3>3 DEF LockInv
      <4> QED
        BY <4>1, <3>3, FS_EmptySet
    <3> QED
      BY <3>2, <3>3
  <2> QED
    BY <2>1, <2>2, <2>3 DEF ExclusiveBuffers
<1> QED
  BY <1>1, BufferCacheInvariant, PTL

(***************************************************************************)
(* A process asleep in acquiresleep() has a holder of the lock to wake it, *)
(* and one asleep in iderw() has its one request in the disk's queue, for  *)
(* ideintr() to find, however kill() wakes them in between.                *)
(***************************************************************************)
THEOREM SleepersHaveWakersThm == Spec => []SleepersHaveWakers
<1>1. IInv => SleepersHaveWakers
  <2> SUFFICES ASSUME IInv, NEW p \in Proc
               PROVE  /\ pc[p] = "sleeping" => locked[b[p]]
                      /\ pc[p] = "io_sleep" =>
                           Cardinality({i \in 1..Len(idequeue) : idequeue[i] = b[p]}) = 1
    BY DEF SleepersHaveWakers
  <2> USE DEF IInv
  <2>1. pc[p] = "sleeping" => locked[b[p]]
    BY DEF LockInv
  <2>2. ASSUME pc[p] = "io_sleep"
        PROVE  Cardinality({i \in 1..Len(idequeue) : idequeue[i] = b[p]}) = 1
    <3>1. PICK k \in 1..Len(idequeue) : idequeue[k] = b[p]
      BY <2>2 DEF QueueInv, InQueue
    <3>2. {i \in 1..Len(idequeue) : idequeue[i] = b[p]} = {k}
      BY <3>1 DEF QueueInv
    <3> QED
      BY <3>2, FS_Singleton
  <2> QED
    BY <2>1, <2>2
<1> QED
  BY <1>1, BufferCacheInvariant, PTL

(***************************************************************************)
(* Whoever bread() returns to sees the last contents written to the block, *)
(* and a clean valid buffer agrees with the disk, whatever was evicted,    *)
(* pinned, queued or killed on the way (bget, bread, idestart, ideintr).   *)
(***************************************************************************)
THEOREM ReaderSeesLatestThm == Spec => []ReaderSeesLatest
<1>1. IInv => ReaderSeesLatest
  <2> SUFFICES ASSUME IInv PROVE ReaderSeesLatest
    OBVIOUS
  <2>1. \A p \in Proc : pc[p] = "has" => b[p] \in Buf
    BY HasBuffer
  <2> QED
    BY <2>1 DEF IInv, ReaderSeesLatest, DataInv
<1> QED
  BY <1>1, BufferCacheInvariant, PTL
=============================================================================
