-------------------------- MODULE PipeInode_proofs --------------------------
(***************************************************************************)
(* Proofs about the two things an open file leads to, FD_PIPE and FD_INODE *)
(* (file.h).  Pipe: for any number of processes, any size of the ring and  *)
(* any width of the counters that PipeAssumption allows.  Inode: for any   *)
(* number of processes, inodes, cache entries, names and paths.            *)
(***************************************************************************)
EXTENDS Pipe, Inode, Integers, FiniteSetTheorems, SequenceTheorems, WellFoundedInduction, TLAPS

(***************************************************************************)
(* Remainders, for a ring of n bytes that is indexed by counters modulo n, *)
(* where the counters are unsigned and wrap around at a multiple of n.     *)
(***************************************************************************)
\* % gives the only remainder below n.
LEMMA Remainder ==
  ASSUME NEW n \in Nat \ {0}, NEW a \in Int, NEW q \in Int, NEW r \in 0..n-1, a = n * q + r
  PROVE  a % n = r
  OBVIOUS

\* An integer is a multiple of n plus its remainder.
LEMMA DivMod ==
  ASSUME NEW n \in Nat \ {0}, NEW a \in Int
  PROVE  \E q \in Int, r \in 0..n-1 : a = n * q + r /\ a % n = r
  <1>1. /\ (a % n) \in 0..n-1 /\ (a \div n) \in Int
        /\ a = n * (a \div n) + (a % n)
    OBVIOUS
  <1> QED
    BY <1>1

\* A whole number of turns around the ring leads back to the same slot.
LEMMA Congruent ==
  ASSUME NEW n \in Nat \ {0}, NEW a \in Int, NEW b \in Int, NEW q \in Int,
         a = b + n * q
  PROVE  a % n = b % n
  <1>1. PICK p \in Int, r \in 0..n-1 : b = n * p + r /\ b % n = r
    BY DivMod
  <1>2. a = n * (p + q) + r
    BY <1>1
  <1>3. p + q \in Int
    OBVIOUS
  <1> QED
    BY <1>1, <1>2, <1>3, Remainder

\* What unsigned subtraction of two counters gives.
LEMMA Distance ==
  ASSUME NEW n \in Nat \ {0}, NEW a \in 0..n-1, NEW b \in 0..n-1
  PROVE  (n + a - b) % n = IF a >= b THEN a - b ELSE n + a - b
  OBVIOUS

\* What unsigned addition to a counter gives.
LEMMA Advance ==
  ASSUME NEW n \in Nat \ {0}, NEW a \in 0..n-1, NEW k \in 0..n
  PROVE  (a + k) % n = IF a + k < n THEN a + k ELSE a + k - n
  OBVIOUS

\* The remainder of a number less than one turn away from 0.
LEMMA Small ==
  ASSUME NEW n \in Nat \ {0}, NEW a \in -n..n-1
  PROVE  a % n = IF a >= 0 THEN a ELSE a + n
  OBVIOUS

\* The number of counter values is a whole number of turns.
LEMMA Multiple ==
  ASSUME NEW n \in Nat \ {0}, NEW u \in Nat \ {0}, u % n = 0
  PROVE  \E m \in Int : u = n * m
  <1>1. u \div n \in Int /\ u = n * (u \div n)
    OBVIOUS
  <1> QED
    BY <1>1

\* A counter that overflows stays at its slot (PIPESIZE divides 2^32).
LEMMA WrapSlot ==
  ASSUME NEW n \in Nat \ {0}, NEW u \in Nat \ {0}, u % n = 0, NEW b \in Int
  PROVE  (b - u) % n = b % n
  <1>1. PICK m \in Int : u = n * m
    BY Multiple
  <1>2. PICK a \in Int, k \in Int : k = -m /\ a = b - u
    OBVIOUS
  <1>3. a = b + n * k
    BY <1>1, <1>2
  <1>4. a % n = b % n
    BY <1>3, Congruent, Zenon
  <1> QED
    BY <1>2, <1>4

\* Slots are as far apart as the numbers they come from.
LEMMA SlotDistance ==
  ASSUME NEW n \in Nat \ {0}, NEW a \in Int, NEW b \in Int
  PROVE  ((n + (a % n)) - (b % n)) % n = (a - b) % n
  <1>1. PICK p \in Int, r \in 0..n-1 : a = n * p + r /\ a % n = r
    BY DivMod
  <1>2. PICK q \in Int, s \in 0..n-1 : b = n * q + s /\ b % n = s
    BY DivMod
  <1>3. (n + r) - s = (a - b) + n * ((1 + q) - p)
    BY <1>1, <1>2
  <1>4. ((n + r) - s) % n = (a - b) % n
    <2>1. (n + r) - s \in Int /\ a - b \in Int /\ (1 + q) - p \in Int
      OBVIOUS
    <2> QED BY <2>1, <1>3, Congruent
  <1> QED
    BY <1>1, <1>2, <1>4

-----------------------------------------------------------------------------

(***************************************************************************)
(* The ends that pipeclose() has not seen closed are the ones that some    *)
(* process still has a descriptor of, and a process inside pipewrite() or  *)
(* piperead() has the descriptor it was called with.                       *)
(***************************************************************************)
EndsInv ==
  /\ readopen <=> \E p \in Proc : "r" \in ends[p]
  /\ writeopen <=> \E p \in Proc : "w" \in ends[p]
  /\ freed <=> ~readopen /\ ~writeopen
  /\ \A p \in Proc :
       /\ pc[p] = "unborn" => ends[p] = {}
       /\ pc[p] \in {"read", "sleep_nread"} => "r" \in ends[p]
       /\ pc[p] \in {"write", "sleep_nwrite"} => "w" \in ends[p]

\* Who sleeps in pipewrite() or piperead(), and why.
SleepInv ==
  \A p \in Proc :
    /\ pc[p] = "sleep_nwrite" => Used = PIPESIZE /\ readopen
    /\ pc[p] = "sleep_nread" =>
         writeopen /\ (nread = nwrite \/ \E q \in Proc : killed[q])

PipeInv == PipeTypeOK /\ EndsInv /\ SleepInv

-----------------------------------------------------------------------------
(***************************************************************************)
(* Used is what the two counters are apart, across their wraparound.       *)
(***************************************************************************)
LEMMA UsedValue ==
  ASSUME nread \in 0..UINT-1, nwrite \in 0..UINT-1
  PROVE  /\ Used \in 0..UINT-1
         /\ Used = IF nwrite >= nread THEN nwrite - nread ELSE UINT + nwrite - nread
         /\ Used = 0 <=> nread = nwrite
  <1>1. UINT \in Nat \ {0}
    BY PipeAssumption
  <1>2. Used = IF nwrite >= nread THEN nwrite - nread ELSE UINT + nwrite - nread
    BY <1>1, Distance, Zenon DEF Used
  <1> QED
    BY <1>1, <1>2

(***************************************************************************)
(* The slot of a byte in the ring is its distance from nread or nwrite,    *)
(* though the counters wrap, since UINT is a multiple of PIPESIZE.         *)
(***************************************************************************)
LEMMA UsedSlot ==
  ASSUME nread \in 0..UINT-1, nwrite \in 0..UINT-1, NEW i \in Int
  PROVE  (nread + i - nwrite) % PIPESIZE = (i - Used) % PIPESIZE
  <1>1. /\ UINT \in Nat \ {0} /\ PIPESIZE \in Nat \ {0} /\ UINT % PIPESIZE = 0
    BY PipeAssumption
  <1>2. CASE nwrite >= nread
    BY <1>2, UsedValue
  <1>3. CASE nwrite < nread
    <2>1. PICK m \in Int, z \in 0..PIPESIZE-1 : UINT = PIPESIZE * m + z /\ UINT % PIPESIZE = z
      BY <1>1, DivMod
    <2>2. PICK x \in Int, y \in Int : x = nread + i - nwrite /\ y = i - Used
      BY <1>1, UsedValue
    <2>3. x = y + PIPESIZE * m
      BY <1>1, <1>3, <2>1, <2>2, UsedValue
    <2>4. x % PIPESIZE = y % PIPESIZE
      BY <1>1, <2>3, Congruent, Zenon
    <2> QED
      BY <2>2, <2>4
  <1> QED
    BY <1>2, <1>3

(***************************************************************************)
(* The byte of the queue at position i is in slot nread + i - 1; what      *)
(* pipewrite() stores there depends on the distance of the slot from       *)
(* nwrite, which is negative for the bytes that are in the queue already.  *)
(***************************************************************************)
LEMMA StoreSlot ==
  ASSUME PipeTypeOK, NEW s \in Seq(Byte), Len(s) <= Room, Store(s),
         NEW i \in 1..Used + Len(s)
  PROVE  data'[(nread + i - 1) % PIPESIZE] =
           IF i <= Used THEN data[(nread + i - 1) % PIPESIZE] ELSE s[i - Used]
  <1> DEFINE x == (nread + i - 1) % PIPESIZE
             k == ((PIPESIZE + x) - (nwrite % PIPESIZE)) % PIPESIZE
  <1>1. /\ PIPESIZE \in Nat \ {0} /\ UINT \in Nat /\ nread \in Int /\ nwrite \in Int
        /\ Used \in 0..PIPESIZE /\ Len(s) \in Nat /\ Used + Len(s) <= PIPESIZE
    BY PipeAssumption, UsedValue DEF PipeTypeOK, Room
  <1>2. x \in 0..PIPESIZE-1
    BY <1>1
  <1>3. data'[x] = IF k < Len(s) THEN s[k + 1] ELSE data[x]
    BY <1>2 DEF Store
  <1>4. k = (i - 1 - Used) % PIPESIZE
    <2>1. PICK a \in Int, j \in Int : a = nread + i - 1 /\ j = i - 1
      BY <1>1
    <2>2. ((PIPESIZE + (a % PIPESIZE)) - (nwrite % PIPESIZE)) % PIPESIZE
            = (a - nwrite) % PIPESIZE
      BY <1>1, SlotDistance, Zenon
    <2>3. (nread + j - nwrite) % PIPESIZE = (j - Used) % PIPESIZE
      BY <2>1, UsedSlot DEF PipeTypeOK
    <2>4. a - nwrite = nread + j - nwrite
      BY <1>1, <2>1
    <2> QED
      BY <2>1, <2>2, <2>3, <2>4
  <1>5. k = IF i <= Used THEN i - 1 - Used + PIPESIZE ELSE i - 1 - Used
    <2>1. PICK a \in -PIPESIZE..PIPESIZE-1 : a = i - 1 - Used
      BY <1>1
    <2>2. a % PIPESIZE = IF a >= 0 THEN a ELSE a + PIPESIZE
      BY <1>1, Small, Zenon
    <2> QED
      BY <1>1, <1>4, <2>1, <2>2
  <1>6. CASE i <= Used
    <2>1. ~(k < Len(s))
      BY <1>1, <1>5, <1>6
    <2> QED
      BY <1>3, <1>6, <2>1
  <1>7. CASE i > Used
    <2>1. k < Len(s) /\ k + 1 = i - Used
      BY <1>1, <1>5, <1>7
    <2> QED
      BY <1>1, <1>3, <1>7, <2>1
  <1> QED
    BY <1>1, <1>6, <1>7

(***************************************************************************)
(* Queue is a sequence of bytes as long as Used says.                      *)
(***************************************************************************)
LEMMA QueueType ==
  ASSUME PipeTypeOK
  PROVE  /\ Queue \in Seq(Byte) /\ Len(Queue) = Used /\ Used \in 0..PIPESIZE
         /\ \A i \in 1..Used : Queue[i] = data[(nread + i - 1) % PIPESIZE]
  <1>1. PIPESIZE \in Nat \ {0} /\ nread \in Int /\ Used \in 0..PIPESIZE
    BY PipeAssumption, UsedValue DEF PipeTypeOK
  <1>2. \A i \in 1..Used : (nread + i - 1) % PIPESIZE \in 0..PIPESIZE-1
    BY <1>1
  <1>3. Queue \in [1..Used -> Byte]
    BY <1>1, <1>2 DEF PipeTypeOK, Queue
  <1>4. Queue \in Seq(Byte)
    BY <1>1, <1>3
  <1> QED
    BY <1>1, <1>3, <1>4 DEF Queue

(***************************************************************************)
(* What pipewrite() stores goes to the end of the queue.                   *)
(***************************************************************************)
LEMMA StorePuts ==
  ASSUME PipeTypeOK, NEW s \in Seq(Byte), Len(s) <= Room, Store(s)
  PROVE  /\ data' \in [0..PIPESIZE-1 -> Byte] /\ nwrite' \in 0..UINT-1 /\ nread' = nread
         /\ Used' = Used + Len(s)
         /\ Queue' = Queue \o s
  <1>0. /\ PIPESIZE \in Nat \ {0} /\ UINT \in Nat \ {0} /\ UINT > PIPESIZE
        /\ nread \in 0..UINT-1 /\ nwrite \in 0..UINT-1 /\ Len(s) \in Nat
    BY PipeAssumption, LenProperties DEF PipeTypeOK
  <1>1. /\ Used \in 0..PIPESIZE /\ Len(s) \in 0..UINT /\ Used + Len(s) <= PIPESIZE
    BY <1>0, UsedValue DEF PipeTypeOK, Room
  <1> USE <1>0
  <1>2. nwrite' = IF nwrite + Len(s) < UINT THEN nwrite + Len(s) ELSE nwrite + Len(s) - UINT
    BY <1>1, Advance, Zenon DEF Store
  <1>3. nwrite' \in 0..UINT-1 /\ nread' = nread
    BY <1>1, <1>2 DEF Store
  <1>4. Used' = IF nwrite' >= nread THEN nwrite' - nread ELSE UINT + nwrite' - nread
    BY <1>1, <1>3, Distance, Zenon DEF Used
  <1>5. Used' = Used + Len(s)
    BY <1>1, <1>2, <1>3, <1>4, UsedValue
  <1>6. data' \in [0..PIPESIZE-1 -> Byte]
    <2> DEFINE k(i) == ((PIPESIZE + i) - (nwrite % PIPESIZE)) % PIPESIZE
    <2>1. data' = [i \in 0..PIPESIZE-1 |-> IF k(i) < Len(s) THEN s[k(i) + 1] ELSE data[i]]
      BY DEF Store
    <2>2. \A i \in 0..PIPESIZE-1 : k(i) \in Nat
      OBVIOUS
    <2> HIDE DEF k
    <2>3. \A i \in 0..PIPESIZE-1 : (IF k(i) < Len(s) THEN s[k(i) + 1] ELSE data[i]) \in Byte
      BY <2>2, ElementOfSeq DEF PipeTypeOK
    <2> QED
      BY <2>1, <2>3
  <1>7. Queue' = Queue \o s
    <2>1. /\ Queue \in Seq(Byte) /\ Len(Queue) = Used
          /\ \A i \in 1..Used : Queue[i] = data[(nread + i - 1) % PIPESIZE]
      BY QueueType
    <2>2. \A i \in 1..Used + Len(s) :
            data'[(nread + i - 1) % PIPESIZE] = (Queue \o s)[i]
      <3> TAKE i \in 1..Used + Len(s)
      <3>1. (Queue \o s)[i] = IF i <= Used THEN Queue[i] ELSE s[i - Used]
        BY <2>1, ConcatProperties
      <3>2. i <= Used => i \in 1..Used
        BY <1>1
      <3> QED
        BY <2>1, <3>1, <3>2, StoreSlot
    <2>3. Queue' = [i \in 1..Used + Len(s) |-> data'[(nread + i - 1) % PIPESIZE]]
      BY <1>3, <1>5 DEF Queue
    <2>4. Queue' = [i \in 1..Used + Len(s) |-> (Queue \o s)[i]]
      BY <2>2, <2>3
    <2>5. Queue \o s \in [1..Used + Len(s) -> Byte]
      BY <1>1, <2>1, ConcatProperties, LenProperties
    <2> QED
      BY <2>4, <2>5
  <1> QED
    BY <1>3, <1>5, <1>6, <1>7

(***************************************************************************)
(* piperead() takes its bytes from the front of the queue.                 *)
(***************************************************************************)
LEMMA ReadGets ==
  ASSUME PipeTypeOK, NEW k \in 0..Used,
         nread' = (nread + k) % UINT, UNCHANGED <<data, nwrite>>
  PROVE  /\ nread' \in 0..UINT-1
         /\ Used' = Used - k
         /\ Queue' = SubSeq(Queue, k + 1, Len(Queue))
  <1>1. /\ PIPESIZE \in Nat \ {0} /\ UINT \in Nat \ {0} /\ UINT > PIPESIZE
        /\ nread \in 0..UINT-1 /\ nwrite \in 0..UINT-1 /\ UINT % PIPESIZE = 0
    BY PipeAssumption DEF PipeTypeOK
  <1>2. Used \in 0..PIPESIZE /\ k \in 0..UINT
    BY <1>1, UsedValue DEF PipeTypeOK
  <1>3. nread' = IF nread + k < UINT THEN nread + k ELSE nread + k - UINT
    BY <1>1, <1>2, Advance, Zenon
  <1>4. nread' \in 0..UINT-1
    BY <1>1, <1>2, <1>3
  <1>5. Used' = IF nwrite >= nread' THEN nwrite - nread' ELSE UINT + nwrite - nread'
    <2>1. Used' = (UINT + nwrite - nread') % UINT
      BY DEF Used
    <2> QED
      BY <1>1, <1>4, <2>1
  <1>6. Used' = Used - k
    BY <1>1, <1>2, <1>3, <1>5, UsedValue
  <1>7. Queue' = SubSeq(Queue, k + 1, Len(Queue))
    <2>1. /\ Queue \in Seq(Byte) /\ Len(Queue) = Used
          /\ \A i \in 1..Used : Queue[i] = data[(nread + i - 1) % PIPESIZE]
      BY QueueType
    <2>2. ASSUME NEW i \in 1..Used - k
          PROVE  data[(nread' + i - 1) % PIPESIZE] = Queue[k + i]
      <3>1. PICK a \in Int, b \in Int : a = nread' + i - 1 /\ b = nread + (k + i) - 1
        BY <1>1, <1>2, <1>4
      <3>2. a = b \/ a = b - UINT
        BY <1>1, <1>2, <1>3, <3>1
      <3>3. a % PIPESIZE = b % PIPESIZE
        <4>1. (b - UINT) % PIPESIZE = b % PIPESIZE
          BY <1>1, WrapSlot, Zenon
        <4> QED
          BY <3>2, <4>1
      <3>4. k + i \in 1..Used
        BY <1>2
      <3> QED
        BY <2>1, <3>1, <3>3, <3>4
    <2>3. Queue' = [i \in 1..Used - k |-> data[(nread' + i - 1) % PIPESIZE]]
      BY <1>6 DEF Queue
    <2>4. Queue' = [i \in 1..Used - k |-> Queue[k + i]]
      BY <2>2, <2>3
    <2>5. SubSeq(Queue, k + 1, Len(Queue)) = [i \in 1..Used - k |-> Queue[k + i]]
      BY <1>2, <2>1
    <2> QED
      BY <2>4, <2>5
  <1> QED
    BY <1>4, <1>6, <1>7

-----------------------------------------------------------------------------
(***************************************************************************)
(* A step that leaves the ring alone keeps its type and what is asleep.    *)
(***************************************************************************)
LEMMA RingUnchanged ==
  ASSUME UNCHANGED ring
  PROVE  /\ UNCHANGED <<data, nread, nwrite>> /\ Used' = Used /\ Queue' = Queue
  BY DEF ring, Used, Queue

(***************************************************************************)
(* The pipe that pipealloc() makes satisfies the invariant.                *)
(***************************************************************************)
LEMMA PipeInitInv == PipeInit => PipeInv
  <1> SUFFICES ASSUME PipeInit PROVE PipeInv
    OBVIOUS
  <1>1. Used = 0
    BY PipeAssumption, UsedValue DEF PipeInit
  <1>2. PipeTypeOK
    BY <1>1, PipeAssumption DEF PipeInit, PipeTypeOK, PipePC
  <1>3. EndsInv
    BY PipeAssumption DEF PipeInit, EndsInv
  <1>4. SleepInv
    BY DEF PipeInit, SleepInv
  <1> QED
    BY <1>2, <1>3, <1>4 DEF PipeInv

(***************************************************************************)
(* write(), read(), exit(), fork() and kill() keep the invariant.          *)
(***************************************************************************)
LEMMA SyscallInv ==
  ASSUME PipeInv, NEW p \in Proc,
         \/ \E n \in 1..MaxRequest : \/ \E s \in [1..n -> Byte] : SysWrite(p, s)
                                     \/ SysRead(p, n)
         \/ Exit(p) \/ Kill(p) \/ \E q \in Proc : Fork(p, q)
  PROVE  PipeInv'
  <1>1. /\ UNCHANGED <<data, nread, nwrite, readopen, writeopen, freed>> /\ Used' = Used
        /\ PipeTypeOK /\ EndsInv /\ SleepInv
    BY RingUnchanged DEF SysWrite, SysRead, Exit, Kill, Fork, open, PipeInv
  <1>2. CASE \E n \in 1..MaxRequest : \E s \in [1..n -> Byte] : SysWrite(p, s)
    <2>0. PICK n \in 1..MaxRequest : \E s \in [1..n -> Byte] : SysWrite(p, s)
      BY <1>2
    <2>1. PICK s \in [1..n -> Byte] : SysWrite(p, s)
      BY <2>0
    <2>2. s \in Seq(Byte)
      BY PipeAssumption
    <2>3. PipeTypeOK'
      BY <1>1, <2>1, <2>2 DEF PipeTypeOK, SysWrite, Goto, PipePC
    <2>4. EndsInv' /\ SleepInv'
      BY <1>1, <2>1 DEF EndsInv, SleepInv, PipeTypeOK, SysWrite, PcIs, Goto
    <2> QED
      BY <2>3, <2>4 DEF PipeInv
  <1>3. CASE \E n \in 1..MaxRequest : SysRead(p, n)
    <2>1. PICK n \in 1..MaxRequest : SysRead(p, n)
      BY <1>3
    <2>2. PipeTypeOK'
      BY <1>1, <2>1, PipeAssumption DEF PipeTypeOK, SysRead, Goto, PipePC
    <2>3. EndsInv' /\ SleepInv'
      BY <1>1, <2>1 DEF EndsInv, SleepInv, PipeTypeOK, SysRead, PcIs, Goto
    <2> QED
      BY <2>2, <2>3 DEF PipeInv
  <1>4. CASE Exit(p)
    <2>1. PipeTypeOK'
      BY <1>1, <1>4 DEF PipeTypeOK, Exit, Goto, PipePC
    <2>2. EndsInv' /\ SleepInv'
      BY <1>1, <1>4 DEF EndsInv, SleepInv, PipeTypeOK, Exit, PcIs, Goto
    <2> QED
      BY <2>1, <2>2 DEF PipeInv
  <1>5. CASE Kill(p)
    <2>1. PipeTypeOK'
      BY <1>1, <1>5 DEF PipeTypeOK, Kill, Goto, PipePC
    <2>2. EndsInv' /\ SleepInv'
      BY <1>1, <1>5 DEF EndsInv, SleepInv, PipeTypeOK, Kill, Goto
    <2> QED
      BY <2>1, <2>2 DEF PipeInv
  <1>6. CASE \E q \in Proc : Fork(p, q)
    <2>1. PICK q \in Proc : Fork(p, q)
      BY <1>6
    <2>2. PipeTypeOK'
      BY <1>1, <2>1 DEF PipeTypeOK, Fork, Goto, PipePC
    <2>3. EndsInv' /\ SleepInv'
      BY <1>1, <2>1 DEF EndsInv, SleepInv, PipeTypeOK, Fork, PcIs, Goto
    <2> QED
      BY <2>2, <2>3 DEF PipeInv
  <1> QED
    BY <1>2, <1>3, <1>4, <1>5, <1>6

(***************************************************************************)
(* pipewrite() keeps the invariant: it goes to sleep only when it has      *)
(* filled the ring, and it stores nothing unannounced unless it is killed. *)
(***************************************************************************)
LEMMA PipeWriteInv ==
  ASSUME PipeInv, NEW p \in Proc, PipeWrite(p)
  PROVE  PipeInv'
  <1> DEFINE k == Least(Len(todo[p]), Room)
             s == SubSeq(todo[p], 1, k)
  <1>1. /\ PipeTypeOK /\ EndsInv /\ SleepInv /\ todo[p] \in Seq(Byte) /\ Len(todo[p]) \in Nat
        /\ Used \in 0..PIPESIZE /\ PIPESIZE \in Nat \ {0} /\ Room \in Nat
    BY PipeAssumption, QueueType DEF PipeInv, PipeTypeOK, Room
  <1>2. k \in 0..Len(todo[p]) /\ k <= Room /\ (k < Len(todo[p]) => k = Room)
    BY <1>1 DEF Least
  <1>3. s \in Seq(Byte) /\ Len(s) = k
    BY <1>1, <1>2
  <1>4. /\ data' \in [0..PIPESIZE-1 -> Byte] /\ nwrite' \in 0..UINT-1 /\ nread' = nread
        /\ Used' = Used + k
    BY <1>1, <1>2, <1>3, StorePuts DEF PipeWrite
  <1>5. /\ Used' \in 0..PIPESIZE /\ (k < Len(todo[p]) => Used' = PIPESIZE)
        /\ (Used = PIPESIZE => Used' = PIPESIZE)
    BY <1>1, <1>2, <1>4 DEF Room
  <1>6. UNCHANGED <<readopen, writeopen, freed, ends, want>>
    BY DEF PipeWrite, open
  <1>7. SubSeq(todo[p], k + 1, Len(todo[p])) \in Seq(Byte)
    BY <1>1, <1>2
  <1>8. PipeTypeOK'
    <2>1. pc' \in [Proc -> PipePC]
      BY <1>1 DEF PipeTypeOK, PipeWrite, WakeReaders, Wakeup, Goto, PipePC
    <2>2. todo' \in [Proc -> Seq(Byte)]
      <3>1. \E t \in Seq(Byte) : todo' = [todo EXCEPT ![p] = t]
        <4>1. CASE todo' = [todo EXCEPT ![p] = <<>>]
          <5>1. <<>> \in Seq(Byte)
            OBVIOUS
          <5> QED
            BY <4>1, <5>1
        <4>2. CASE todo' = [todo EXCEPT ![p] = SubSeq(@, k + 1, Len(@))]
          BY <1>7, <4>2
        <4> QED
          BY <4>1, <4>2 DEF PipeWrite
      <3> QED
        BY <1>1, <3>1 DEF PipeTypeOK
    <2>3. killed' \in [Proc -> BOOLEAN]
      BY <1>1 DEF PipeTypeOK, PipeWrite, KillMayLand
    <2>4. Used' <= PIPESIZE
      BY <1>1, <1>5
    <2> HIDE DEF k, s
    <2> QED
      BY <1>1, <1>4, <1>6, <2>1, <2>2, <2>3, <2>4 DEF PipeTypeOK
  <1>9. EndsInv'
    <2>1. pc[p] = "write" /\ pc'[p] \in {"idle", "sleep_nwrite"}
      BY <1>1 DEF PipeTypeOK, PipeWrite, PcIs, WakeReaders, Wakeup, Goto
    <2>2. \A q \in Proc : q # p => \/ pc'[q] = pc[q]
                                   \/ pc[q] = "sleep_nread" /\ pc'[q] = "read"
      BY <1>1 DEF PipeTypeOK, PipeWrite, WakeReaders, Wakeup, Goto
    <2>3. \A q \in Proc :
            /\ pc'[q] = "unborn" => ends[q] = {}
            /\ pc'[q] \in {"read", "sleep_nread"} => "r" \in ends[q]
            /\ pc'[q] \in {"write", "sleep_nwrite"} => "w" \in ends[q]
      BY <1>1, <2>1, <2>2 DEF EndsInv
    <2> QED
      BY <1>1, <1>6, <2>3 DEF EndsInv
  <1>10. SleepInv'
    <2>1. \A q \in Proc : killed[q] => killed'[q]
      BY <1>1 DEF PipeWrite, KillMayLand, PipeTypeOK
    <2>2. CASE k < Len(todo[p]) /\ ~(readopen /\ ~killed[p])
      <3>1. pc' = [pc EXCEPT ![p] = "idle"]
        BY <2>2 DEF PipeWrite, Goto
      <3>2. killed[p] \/ \A q \in Proc : pc[q] # "sleep_nread"
        BY <1>1, <2>2 DEF EndsInv
      <3> QED
        BY <1>1, <1>5, <1>6, <2>1, <3>1, <3>2 DEF SleepInv, PipeTypeOK
    <2>3. CASE k = Len(todo[p]) \/ (readopen /\ ~killed[p])
      <3>1. /\ \A q \in Proc : pc'[q] # "sleep_nread"
            /\ \A q \in Proc \ {p} : pc'[q] = "sleep_nwrite" => pc[q] = "sleep_nwrite"
            /\ pc'[p] = "sleep_nwrite" => k < Len(todo[p]) /\ readopen
        BY <1>2, <2>3 DEF PipeWrite, WakeReaders, Wakeup
      <3> QED
        BY <1>1, <1>5, <1>6, <3>1 DEF SleepInv
    <2> QED
      BY <1>2, <2>2, <2>3
  <1> QED
    BY <1>8, <1>9, <1>10 DEF PipeInv

(***************************************************************************)
(* piperead() keeps the invariant, whether it sleeps or reads.             *)
(***************************************************************************)
LEMMA PipeReadInv ==
  ASSUME PipeInv, NEW p \in Proc, PipeReadWaits(p) \/ PipeRead(p)
  PROVE  PipeInv'
  <1>1. /\ PipeTypeOK /\ EndsInv /\ SleepInv
        /\ Used \in 0..PIPESIZE /\ PIPESIZE \in Nat \ {0}
        /\ UNCHANGED <<data, nwrite, readopen, writeopen, freed, ends, todo>>
    BY PipeAssumption, QueueType DEF PipeInv, PipeReadWaits, PipeRead, ring, open
  <1>2. CASE PipeReadWaits(p)
    <2>1. nread' = nread /\ Used' = Used
      BY <1>2, RingUnchanged DEF PipeReadWaits
    <2>2. PipeTypeOK'
      <3>1. pc' \in [Proc -> PipePC]
        BY <1>1, <1>2 DEF PipeTypeOK, PipeReadWaits, Goto, PipePC
      <3>2. 0 \in 0..MaxRequest
        BY PipeAssumption
      <3>3. want' \in [Proc -> 0..MaxRequest]
        BY <1>1, <1>2, <3>2 DEF PipeTypeOK, PipeReadWaits
      <3>4. killed' \in [Proc -> BOOLEAN]
        BY <1>1, <1>2 DEF PipeTypeOK, PipeReadWaits, KillMayLand
      <3> QED
        BY <1>1, <2>1, <3>1, <3>3, <3>4 DEF PipeTypeOK
    <2>3. EndsInv'
      BY <1>1, <1>2 DEF EndsInv, PipeTypeOK, PipeReadWaits, PcIs, Goto
    <2>4. SleepInv'
      BY <1>1, <1>2, <2>1 DEF SleepInv, PipeTypeOK, PipeReadWaits, KillMayLand, Goto
    <2> QED
      BY <2>2, <2>3, <2>4 DEF PipeInv
  <1>3. CASE PipeRead(p)
    <2> DEFINE k == Least(want[p], Used)
    <2>1. k \in 0..Used
      BY <1>1, PipeAssumption DEF PipeTypeOK, Least
    <2>2. nread' \in 0..UINT-1 /\ Used' = Used - k
      BY <1>1, <1>3, <2>1, ReadGets DEF PipeRead
    <2>3. PipeTypeOK'
      <3>1. pc' \in [Proc -> PipePC] /\ want' \in [Proc -> 0..MaxRequest] /\ UNCHANGED killed
        BY <1>1, <1>3, PipeAssumption DEF PipeTypeOK, PipeRead, WakeWriters, Wakeup, PipePC
      <3>2. Used' <= PIPESIZE
        BY <1>1, <2>1, <2>2
      <3> QED
        BY <1>1, <2>2, <3>1, <3>2 DEF PipeTypeOK
    <2>4. EndsInv'
      BY <1>1, <1>3 DEF EndsInv, PipeTypeOK, PipeRead, PcIs, WakeWriters, Wakeup
    <2>5. SleepInv'
      <3>1. /\ \A q \in Proc : pc'[q] # "sleep_nwrite"
            /\ \A q \in Proc : pc'[q] = "sleep_nread" => pc[q] = "sleep_nread"
        BY <1>3 DEF PipeRead, WakeWriters, Wakeup
      <3>2. UNCHANGED killed /\ (writeopen => nread # nwrite)
        BY <1>3 DEF PipeRead
      <3> QED
        BY <1>1, <3>1, <3>2 DEF SleepInv
    <2> QED
      BY <2>3, <2>4, <2>5 DEF PipeInv
  <1> QED
    BY <1>2, <1>3

(***************************************************************************)
(* close() keeps the invariant: pipeclose() wakes who sleeps on the other  *)
(* end before that end is gone.                                            *)
(***************************************************************************)
LEMMA PipeCloseInv ==
  ASSUME PipeInv, NEW p \in Proc, NEW e \in {"r", "w"}, Close(p, e)
  PROVE  PipeInv'
  <1> DEFINE last == \A q \in Proc \ {p} : e \notin ends[q]
  <1>1. /\ PipeTypeOK /\ EndsInv /\ SleepInv
        /\ UNCHANGED <<data, nread, nwrite, todo, want, killed>> /\ Used' = Used
    BY RingUnchanged DEF PipeInv, Close, ring
  <1>2. /\ pc[p] = "idle" /\ e \in ends[p] /\ ends' = [ends EXCEPT ![p] = @ \ {e}]
        /\ readopen' = (readopen /\ ~(last /\ e = "r"))
        /\ writeopen' = (writeopen /\ ~(last /\ e = "w"))
        /\ freed' = (freed \/ (last /\ ~readopen' /\ ~writeopen'))
    BY DEF Close, PcIs, Free
  <1>3. pc' \in [Proc -> PipePC] /\ pc'[p] = "idle"
        /\ \A q \in Proc \ {p} :
             /\ pc'[q] = "sleep_nread" => pc[q] = "sleep_nread" /\ ~(last /\ e = "w")
             /\ pc'[q] = "sleep_nwrite" => pc[q] = "sleep_nwrite" /\ ~(last /\ e = "r")
             /\ pc'[q] = "unborn" <=> pc[q] = "unborn"
             /\ pc'[q] \in {"read", "sleep_nread"} <=> pc[q] \in {"read", "sleep_nread"}
             /\ pc'[q] \in {"write", "sleep_nwrite"} <=> pc[q] \in {"write", "sleep_nwrite"}
    BY <1>1 DEF Close, PcIs, PipeTypeOK, WakeReaders, WakeWriters, Wakeup, PipePC
  <1>4. PipeTypeOK'
    BY <1>1, <1>2, <1>3 DEF PipeTypeOK
  <1>5. EndsInv'
    <2>1. readopen' <=> \E q \in Proc : "r" \in ends'[q]
      BY <1>1, <1>2 DEF EndsInv, PipeTypeOK
    <2>2. writeopen' <=> \E q \in Proc : "w" \in ends'[q]
      BY <1>1, <1>2 DEF EndsInv, PipeTypeOK
    <2>3. freed' <=> ~readopen' /\ ~writeopen'
      BY <1>1, <1>2 DEF EndsInv, PipeTypeOK
    <2>4. \A q \in Proc \ {p} : ends'[q] = ends[q]
      BY <1>1, <1>2 DEF PipeTypeOK
    <2> QED
      BY <1>1, <1>3, <2>1, <2>2, <2>3, <2>4 DEF EndsInv
  <1>6. SleepInv'
    BY <1>1, <1>2, <1>3 DEF SleepInv
  <1> QED
    BY <1>4, <1>5, <1>6 DEF PipeInv

(***************************************************************************)
(* PipeInv is inductive.                                                      *)
(***************************************************************************)
LEMMA PipeNextInv == PipeInv /\ [PipeNext]_pipeVars => PipeInv'
  <1> SUFFICES ASSUME PipeInv, [PipeNext]_pipeVars PROVE PipeInv'
    OBVIOUS
  <1>1. CASE UNCHANGED pipeVars
    <2>1. /\ UNCHANGED <<data, nread, nwrite, readopen, writeopen, freed, ends, pc, todo, want, killed>>
          /\ Used' = Used
      BY <1>1, RingUnchanged DEF pipeVars, ring, open
    <2> QED
      BY <2>1 DEF PipeInv, PipeTypeOK, EndsInv, SleepInv
  <1>2. CASE PipeNext
    BY <1>2, SyscallInv, PipeWriteInv, PipeReadInv, PipeCloseInv DEF PipeNext
  <1> QED
    BY <1>1, <1>2

(***************************************************************************)
(* The invariant holds throughout: types, ends, and sleepers.              *)
(***************************************************************************)
THEOREM PipeInvariant == PipeSpec => []PipeInv
  BY PipeInitInv, PipeNextInv, PTL DEF PipeSpec

(***************************************************************************)
(* No sleeper of pipewrite() or piperead() is stranded, and the page is    *)
(* freed exactly with the last descriptor, for any number of readers and   *)
(* writers and any ring.                                                   *)
(***************************************************************************)
THEOREM NoStrandedSleeperThm == PipeSpec => []NoStrandedSleeper
  <1>1. PipeInv => NoStrandedSleeper
    BY DEF PipeInv, PipeTypeOK, EndsInv, SleepInv, NoStrandedSleeper
  <1> QED
    BY <1>1, PipeInvariant, PTL

-----------------------------------------------------------------------------
(***************************************************************************)
(* Every step is a step of the queue or leaves it alone.                   *)
(***************************************************************************)
LEMMA StepIsFifo == PipeTypeOK /\ [PipeNext]_pipeVars => [Abstract!Next]_Queue
  <1> SUFFICES ASSUME PipeTypeOK, [PipeNext]_pipeVars, Queue' # Queue PROVE Abstract!Next
    OBVIOUS
  <1>1. /\ PIPESIZE \in Nat \ {0} /\ Queue \in Seq(Byte) /\ Len(Queue) = Used
        /\ Used \in 0..PIPESIZE
    BY PipeAssumption, QueueType
  <1>2. PICK p \in Proc : PipeWrite(p) \/ PipeRead(p)
    BY RingUnchanged
       DEF PipeNext, pipeVars, SysWrite, SysRead, PipeReadWaits, Close, Exit, Kill, Fork
  <1>3. CASE PipeWrite(p)
    <2> DEFINE k == Least(Len(todo[p]), Room)
               s == SubSeq(todo[p], 1, k)
    <2>1. todo[p] \in Seq(Byte) /\ Len(todo[p]) \in Nat /\ Room \in Nat /\ Room <= PIPESIZE - Used
      BY <1>1 DEF PipeTypeOK, Room
    <2>2. k \in 0..Len(todo[p]) /\ k <= Room
      BY <2>1 DEF Least
    <2>3. s \in Seq(Byte) /\ Len(s) = k
      BY <2>1, <2>2
    <2>4. Queue' = Queue \o s
      BY <1>3, <2>2, <2>3, StorePuts DEF PipeWrite
    <2>5. k \in 1..PIPESIZE /\ Len(Queue) + Len(s) <= PIPESIZE
      <3>1. k # 0
        BY <1>1, <2>3, <2>4, ConcatEmptySeq, EmptySeq
      <3> QED
        BY <1>1, <2>1, <2>2, <2>3, <3>1
    <2>6. s \in [1..k -> Byte]
      BY <2>3, LenProperties
    <2> HIDE DEF s, k
    <2>7. Abstract!Put(s)
      BY <2>4, <2>5 DEF Abstract!Put
    <2> QED
      BY <2>5, <2>6, <2>7 DEF Abstract!Next
  <1>4. CASE PipeRead(p)
    <2> DEFINE k == Least(want[p], Used)
    <2>1. k \in 0..Used
      BY <1>1, PipeAssumption DEF PipeTypeOK, Least
    <2>2. Queue' = SubSeq(Queue, k + 1, Len(Queue))
      BY <1>4, <2>1, ReadGets DEF PipeRead
    <2>3. k # 0
      BY <1>1, <2>2, SubSeqFull
    <2> HIDE DEF k
    <2>4. k \in 1..PIPESIZE /\ k <= Len(Queue)
      BY <1>1, <2>1, <2>3
    <2>5. Abstract!Get(k)
      BY <2>2, <2>4 DEF Abstract!Get
    <2> QED
      BY <2>4, <2>5 DEF Abstract!Next
  <1> QED
    BY <1>2, <1>3, <1>4

(***************************************************************************)
(* A pipe is a bounded queue: the ring with its wrapping counters, several *)
(* writers that sleep in the middle of a write, and readers implement      *)
(* Fifo.                                                                   *)
(***************************************************************************)
THEOREM PipeIsFifoThm == PipeSpec => PipeIsFifo
  <1>1. PipeInit => Abstract!Init
    <2> SUFFICES ASSUME PipeInit PROVE Queue = <<>>
      BY DEF Abstract!Init
    <2>1. Used = 0
      BY PipeAssumption, UsedValue DEF PipeInit
    <2> QED
      BY <2>1 DEF Queue
  <1>2. PipeInv => PipeTypeOK
    BY DEF PipeInv
  <1> QED
    BY <1>1, <1>2, PipeInvariant, StepIsFifo, PTL DEF PipeSpec, PipeIsFifo, Abstract!Spec

-----------------------------------------------------------------------------
(***************************************************************************)
(* Inode: the invariant of the cache                                       *)
(***************************************************************************)
Dinode == [type : {"free", "file", "dir"}, nlink : Int]

Arg == [call : {"none", "open", "creat", "mkdir", "unlink", "chdir", "link", "link2"},
        path : Seq(Elem), new : Seq(Elem), name : Elem]

\* That nlink is not negative is a fact about links, below.
FsTyped ==
  /\ dinode \in [Inum -> Dinode] /\ inode \in [Inum -> Dinode]
  /\ entries \in [Inum -> [Elem -> Inum \cup {Null}]]
  /\ ref \in [Inum -> Nat] /\ valid \in [Inum -> BOOLEAN]
  /\ lock \in [Inum -> Proc \cup {NoProc}]

ProcTyped ==
  /\ cwd \in [Proc -> Inum] /\ file \in [Proc -> Inum \cup {Null}]
  /\ pc \in [Proc -> PC] /\ args \in [Proc -> Arg]
  /\ dp \in [Proc -> Inum \cup {Null}] /\ ip \in [Proc -> Inum \cup {Null}]
  /\ puts \in [Proc -> Seq(Inum)] /\ \A p \in Proc : Len(puts[p]) <= 2
  /\ phase \in [Proc -> {"lock", "free", "unref"}]

Typed == FsTyped /\ ProcTyped

\* The places where dp and where ip is set, and where p holds its lock.
DpPC == {"namex", "found", "parent", "create_new", "unlink_ip", "unlink_bad", "link_exists"}
IpPC == {"exists", "create_new", "created", "unlink_ip", "unlinked"}
DpLocked == {"create_new", "unlink_ip", "unlink_bad", "link_exists"}
IpLocked == {"created", "unlinked"}

\* What p holds at its place.
Place(p) ==
  /\ dp[p] # Null <=> pc[p] \in DpPC
  /\ ip[p] # Null <=> pc[p] \in IpPC \/ args[p].call = "link2"
  /\ pc[p] \in DpLocked => lock[dp[p]] = p
  /\ pc[p] \in IpLocked => lock[ip[p]] = p
  /\ pc[p] \in {"parent", "create_new", "unlink_ip"} => valid[dp[p]]
  /\ pc[p] = "unlinked" => valid[ip[p]]
  /\ args[p].call = "link2" => pc[p] \in {"namex", "parent", "link_exists", "link_bad"}
  /\ pc[p] = "idle" => args[p].call = "none"
  /\ args[p].call = "none" => pc[p] = "idle"
  /\ pc[p] = "found" => ~WantsParent(p)
  /\ pc[p] \in {"parent", "link_exists"} => WantsParent(p)
  /\ args[p].call \in {"open", "creat"} => file[p] = Null
  /\ pc[p] = "link_bad" => args[p].call = "link2"
  /\ pc[p] = "link_exists" => args[p].call = "link2"
  /\ puts[p] = <<>> => phase[p] = "lock"

\* iput() holds the lock while it frees the inode, one that p does not hold
\* for another reason.
Freeing(p) == phase[p] = "free" =>
  /\ puts[p] # <<>> /\ lock[Head(puts[p])] = p
  /\ pc[p] \in DpLocked => Head(puts[p]) # dp[p]
  /\ pc[p] \in IpLocked => Head(puts[p]) # ip[p]

\* iput() does not free the directory that nameiparent() has returned.
ParentInv ==
  \A p, q \in Proc : phase[q] = "free" /\ pc[p] = "parent" => dp[p] # Head(puts[q])

CacheInv ==
  \A i \in Inum : valid[i] =>
    inode[i] = dinode[i] /\ (panicked = "no" => dinode[i].type # "free")

IInv ==
  /\ Typed
  /\ RefTracksPointers
  /\ CacheInv
  /\ panicked = "no" => ParentInv /\ \A p \in Proc : Place(p) /\ Freeing(p)

-----------------------------------------------------------------------------
\* Allocated by ialloc(), and not linked yet.
Fresh(i) == \E p \in Proc : pc[p] = "create_new" /\ ip[p] = i

Usable(i) == dinode[i].type # "free" /\ ~Fresh(i)

IsDir(i) == dinode[i].type = "dir"

\* What p points to is allocated, with the exception of what iput() has freed.
Live(p) ==
  /\ Usable(cwd[p])
  /\ file[p] # Null => Usable(file[p])
  /\ dp[p] # Null => Usable(dp[p])
  /\ ip[p] # Null /\ pc[p] # "create_new" => Usable(ip[p])
  /\ \A k \in 1..Len(puts[p]) : k > 1 \/ phase[p] # "unref" => Usable(puts[p][k])

\* Subdirectories count as links through their "..".
Subs(i) == {n \in Name : IsDir(i) /\ entries[i][n] # Null /\ IsDir(entries[i][n])}

\* Links that are counted and have no entry: one that was just removed, and
\* one that link() is about to enter.
Pending(i) == {p \in Proc : ip[p] = i /\ (pc[p] = "unlinked" \/ args[p].call = "link2")}

Counted(i) ==
  ((Cardinality(Entries(i)) + Cardinality(Subs(i))) + Cardinality(Pending(i)))
  + (IF i = Root THEN 1 ELSE 0)

TreeInv ==
  \A i \in Inum :
    /\ Counted(i) <= dinode[i].nlink
    /\ dinode[i].type = "free" => dinode[i].nlink = 0
    /\ ~IsDir(i) => \A n \in Name : entries[i][n] = Null
    /\ IsDir(i) /\ ~Fresh(i) => entries[i]["."] = i

\* iput() frees what nobody else points to.
Alone(p) == phase[p] = "free" =>
  /\ dinode[Head(puts[p])].nlink = 0 /\ ref[Head(puts[p])] = 1

\* A path that does not go up.
Plain(s) == \A k \in 1..Len(s) : s[k] # ".."

\* What p has seen in the directory it has locked, or is about to lock.
Seen(p) ==
  /\ pc[p] = "namex" => Plain(args[p].path)
  /\ pc[p] \in {"namex", "found"} => Plain(args[p].new)
  /\ pc[p] \in {"parent", "create_new", "unlink_ip"} => IsDir(dp[p]) /\ args[p].name # ".."
  /\ pc[p] = "create_new" =>
       /\ entries[dp[p]][args[p].name] = Null
       /\ dinode[ip[p]].type = IF args[p].call = "mkdir" THEN "dir" ELSE "file"
       /\ dinode[ip[p]].nlink = 0
       /\ \A q \in Proc : pc[q] = "create_new" /\ ip[q] = ip[p] => q = p
  /\ pc[p] = "unlink_ip" =>
       args[p].name \in Name /\ entries[dp[p]][args[p].name] = ip[p]
  /\ args[p].call = "link2" => ~IsDir(ip[p])

LInv ==
  /\ panicked \in {"no", "ialloc: no inodes", "iget: no inodes"}
  /\ TreeInv
  /\ \A p \in Proc : Live(p)
  /\ panicked = "no" => \A p \in Proc : Alone(p) /\ Seen(p)

-----------------------------------------------------------------------------
(***************************************************************************)
(* Counting pointers                                                       *)
(***************************************************************************)
One(c) == IF c THEN 1 ELSE 0

\* A set that gains or loses at most the member x.
LEMMA OneMember ==
  ASSUME NEW S, NEW T, NEW x, IsFiniteSet(S), S \ {x} = T \ {x}
  PROVE  /\ IsFiniteSet(T) /\ Cardinality(S) \in Nat /\ Cardinality(T) \in Nat
         /\ Cardinality(T) + One(x \in S) = Cardinality(S) + One(x \in T)
<1> DEFINE R == S \ {x}
<1>1. IsFiniteSet(R) /\ Cardinality(R) \in Nat
  BY FS_RemoveElement, FS_CardinalityType
<1>2. x \in S => S = R \cup {x}
  OBVIOUS
<1>3. x \notin S => S = R
  OBVIOUS
<1>4. x \in T => T = R \cup {x}
  OBVIOUS
<1>5. x \notin T => T = R
  OBVIOUS
<1>6. IsFiniteSet(R \cup {x}) /\ Cardinality(R \cup {x}) = Cardinality(R) + 1
  BY <1>1, FS_AddElement
<1> HIDE DEF R
<1> QED
  BY <1>1, <1>2, <1>3, <1>4, <1>5, <1>6 DEF One

\* A finite set has as many members as two given things that are in it.
LEMMA TwoMembers ==
  ASSUME NEW S, IsFiniteSet(S), NEW x, NEW y, x # y
  PROVE  Cardinality(S) \in Nat /\ Cardinality(S) >= One(x \in S) + One(y \in S)
<1>1. Cardinality(S) \in Nat
  BY FS_CardinalityType
<1>2. S # {} => Cardinality(S) # 0
  BY FS_EmptySet
<1>3. x \in S /\ y \in S => Cardinality(S) # 1
  BY FS_Singleton
<1>4. x \in S \/ y \in S => S # {}
  OBVIOUS
<1> QED
  BY <1>1, <1>2, <1>3, <1>4 DEF One

\* The processes whose k-th inode of s is i, and all such places.
Column(s, k, i) == {p \in Proc : k <= Len(s[p]) /\ s[p][k] = i}
Places(s, i) == {c \in Proc \X {1, 2} : c[2] <= Len(s[c[1]]) /\ s[c[1]][c[2]] = i}

Cwds(i) == {p \in Proc : cwd[p] = i}
Files(i) == {p \in Proc : file[p] = i}
Dps(i) == {p \in Proc : dp[p] = i}
Ips(i) == {p \in Proc : ip[p] = i}

\* i is the k-th inode of s.
In(s, k, i) == One(k <= Len(s) /\ s[k] = i)

\* The pointers of p to i.
Slots(p, i) ==
  ((((One(cwd[p] = i) + One(file[p] = i)) + One(dp[p] = i)) + One(ip[p] = i))
   + In(puts[p], 1, i)) + In(puts[p], 2, i)

\* The two columns of the inodes to put are counted apart.
LEMMA Columns ==
  ASSUME NEW s, NEW i
  PROVE  /\ IsFiniteSet(Column(s, 1, i)) /\ IsFiniteSet(Column(s, 2, i))
         /\ Cardinality(Places(s, i)) = Cardinality(Column(s, 1, i)) + Cardinality(Column(s, 2, i))
<1> DEFINE Col(k) == Column(s, k, i)
           K == Places(s, i)
           A == Col(1) \X {1}
           B == Col(2) \X {2}
<1>1. IsFiniteSet(Proc)
  BY InodeAssumption
<1>2. IsFiniteSet(Col(1)) /\ IsFiniteSet(Col(2))
  BY <1>1, FS_Subset DEF Column
<1>3. K = A \cup B
  BY DEF Column, Places
<1>4. A \cap B = {}
  OBVIOUS
<1>5. IsFiniteSet({1}) /\ Cardinality({1}) = 1 /\ IsFiniteSet({2}) /\ Cardinality({2}) = 1
  BY FS_Singleton
<1>6. IsFiniteSet(A) /\ Cardinality(A) = Cardinality(Col(1)) * 1
  BY <1>2, <1>5, FS_Product
<1>7. IsFiniteSet(B) /\ Cardinality(B) = Cardinality(Col(2)) * 1
  BY <1>2, <1>5, FS_Product
<1>8. Cardinality(K) = Cardinality(A) + Cardinality(B) - Cardinality({})
  BY <1>3, <1>4, <1>6, <1>7, FS_Union
<1>9. Cardinality({}) = 0
  BY FS_EmptySet
<1>10. Cardinality(Col(1)) \in Nat /\ Cardinality(Col(2)) \in Nat
  BY <1>2, FS_CardinalityType
<1> HIDE DEF A, B
<1>11. Cardinality(K) = Cardinality(Col(1)) + Cardinality(Col(2))
  <2> HIDE DEF K, Col
  <2> QED
    BY <1>6, <1>7, <1>8, <1>9, <1>10
<1> QED
  BY <1>2, <1>11

\* What a list holds: no inode.
LEMMA InNone ==
  ASSUME NEW s, s = <<>>, NEW i
  PROVE  In(s, 1, i) = 0 /\ In(s, 2, i) = 0
BY DEF In, One

\* One inode.
LEMMA InOne ==
  ASSUME NEW s, NEW a, s = <<a>>, NEW i
  PROVE  In(s, 1, i) = One(a = i) /\ In(s, 2, i) = 0
BY DEF In, One

\* Two inodes.
LEMMA InTwo ==
  ASSUME NEW s, NEW a, NEW b, s = <<a, b>>, NEW i
  PROVE  In(s, 1, i) = One(a = i) /\ In(s, 2, i) = One(b = i)
BY DEF In, One

\* iput() of the first inode of a list (IputUnref).
LEMMA InTail ==
  ASSUME NEW s \in Seq(Inum), s # <<>>, Len(s) <= 2, NEW i
  PROVE  /\ In(s, 1, i) = One(Head(s) = i)
         /\ In(Tail(s), 1, i) = In(s, 2, i) /\ In(Tail(s), 2, i) = 0
         /\ Head(s) \in Inum /\ Tail(s) \in Seq(Inum) /\ Len(Tail(s)) <= 1
<1>1. Len(s) \in Nat /\ Len(s) >= 1
  BY EmptySeq
<1>2. Head(s) = s[1] /\ Head(s) \in Inum
  BY <1>1
<1>3. Tail(s) \in Seq(Inum) /\ Len(Tail(s)) = Len(s) - 1
  BY <1>1
<1>4. Len(Tail(s)) >= 1 => Tail(s)[1] = s[2]
  BY <1>1, <1>3
<1> QED
  BY <1>1, <1>2, <1>3, <1>4 DEF In, One

\* What a step of p leaves alone.
Others(p) ==
  \A q \in Proc : q # p =>
    /\ cwd'[q] = cwd[q] /\ file'[q] = file[q] /\ dp'[q] = dp[q] /\ ip'[q] = ip[q]
    /\ puts'[q] = puts[q] /\ phase'[q] = phase[q]
    /\ pc'[q] = pc[q] /\ args'[q] = args[q]

\* A step of p changes the number of pointers to i by what it does to p's.
LEMMA PointersStep ==
  ASSUME NEW p \in Proc, Others(p), NEW i
  PROVE  /\ Pointers(i) \in Nat /\ Pointers(i)' \in Nat
         /\ Pointers(i)' + Slots(p, i) = Pointers(i) + Slots(p, i)'
<1>1. /\ IsFiniteSet(Cwds(i)) /\ Cwds(i) \ {p} = Cwds(i)' \ {p}
      /\ (p \in Cwds(i) <=> cwd[p] = i) /\ (p \in Cwds(i)' <=> cwd'[p] = i)
  BY InodeAssumption, FS_Subset DEF Cwds, Others
<1>2. /\ IsFiniteSet(Files(i)) /\ Files(i) \ {p} = Files(i)' \ {p}
      /\ (p \in Files(i) <=> file[p] = i) /\ (p \in Files(i)' <=> file'[p] = i)
  BY InodeAssumption, FS_Subset DEF Files, Others
<1>3. /\ IsFiniteSet(Dps(i)) /\ Dps(i) \ {p} = Dps(i)' \ {p}
      /\ (p \in Dps(i) <=> dp[p] = i) /\ (p \in Dps(i)' <=> dp'[p] = i)
  BY InodeAssumption, FS_Subset DEF Dps, Others
<1>4. /\ IsFiniteSet(Ips(i)) /\ Ips(i) \ {p} = Ips(i)' \ {p}
      /\ (p \in Ips(i) <=> ip[p] = i) /\ (p \in Ips(i)' <=> ip'[p] = i)
  BY InodeAssumption, FS_Subset DEF Ips, Others
<1>K. /\ IsFiniteSet(Column(puts, 1, i)) /\ IsFiniteSet(Column(puts, 2, i))
      /\ Cardinality(Places(puts, i))
         = Cardinality(Column(puts, 1, i)) + Cardinality(Column(puts, 2, i))
  BY Columns
<1>L. Cardinality(Places(puts', i))
      = Cardinality(Column(puts', 1, i)) + Cardinality(Column(puts', 2, i))
  BY Columns
<1>5. ASSUME NEW k \in {1, 2}
      PROVE  /\ IsFiniteSet(Column(puts, k, i)) /\ Column(puts, k, i) \ {p} = Column(puts', k, i) \ {p}
             /\ (p \in Column(puts, k, i) <=> k <= Len(puts[p]) /\ puts[p][k] = i)
             /\ (p \in Column(puts', k, i) <=> k <= Len(puts'[p]) /\ puts'[p][k] = i)
  BY <1>K DEF Column, Others
<1>6. /\ IsFiniteSet(Cwds(i)') /\ Cardinality(Cwds(i)) \in Nat /\ Cardinality(Cwds(i)') \in Nat
      /\ Cardinality(Cwds(i)') + One(cwd[p] = i) = Cardinality(Cwds(i)) + One(cwd'[p] = i)
  BY <1>1, OneMember DEF One
<1>7. /\ IsFiniteSet(Files(i)') /\ Cardinality(Files(i)) \in Nat /\ Cardinality(Files(i)') \in Nat
      /\ Cardinality(Files(i)') + One(file[p] = i) = Cardinality(Files(i)) + One(file'[p] = i)
  BY <1>2, OneMember DEF One
<1>8. /\ IsFiniteSet(Dps(i)') /\ Cardinality(Dps(i)) \in Nat /\ Cardinality(Dps(i)') \in Nat
      /\ Cardinality(Dps(i)') + One(dp[p] = i) = Cardinality(Dps(i)) + One(dp'[p] = i)
  BY <1>3, OneMember DEF One
<1>9. /\ IsFiniteSet(Ips(i)') /\ Cardinality(Ips(i)) \in Nat /\ Cardinality(Ips(i)') \in Nat
      /\ Cardinality(Ips(i)') + One(ip[p] = i) = Cardinality(Ips(i)) + One(ip'[p] = i)
  BY <1>4, OneMember DEF One
<1>10. ASSUME NEW k \in {1, 2}
       PROVE  /\ IsFiniteSet(Column(puts', k, i)) /\ Cardinality(Column(puts, k, i)) \in Nat
              /\ Cardinality(Column(puts', k, i)) \in Nat
              /\ Cardinality(Column(puts', k, i)) + In(puts[p], k, i)
                 = Cardinality(Column(puts, k, i)) + In(puts'[p], k, i)
  BY <1>5, OneMember, SMTT(30) DEF One, In
<1>11. Pointers(i) =
         Cardinality(Cwds(i)) + Cardinality(Files(i)) + Cardinality(Dps(i))
         + Cardinality(Ips(i)) + Cardinality(Places(puts, i))
  BY DEF Pointers, Cwds, Files, Dps, Ips, Places
<1>12. Pointers(i)' =
         Cardinality(Cwds(i)') + Cardinality(Files(i)') + Cardinality(Dps(i)')
         + Cardinality(Ips(i)') + Cardinality(Places(puts', i))
  BY DEF Pointers, Cwds, Files, Dps, Ips, Places
<1>13. Slots(p, i)' = ((((One(cwd'[p] = i) + One(file'[p] = i)) + One(dp'[p] = i))
         + One(ip'[p] = i)) + In(puts'[p], 1, i)) + In(puts'[p], 2, i)
  BY DEF Slots
<1>14. /\ One(cwd[p] = i) \in Nat /\ One(cwd'[p] = i) \in Nat
       /\ One(file[p] = i) \in Nat /\ One(file'[p] = i) \in Nat
       /\ One(dp[p] = i) \in Nat /\ One(dp'[p] = i) \in Nat
       /\ One(ip[p] = i) \in Nat /\ One(ip'[p] = i) \in Nat
  BY DEF One
<1>15. /\ In(puts[p], 1, i) \in Nat /\ In(puts'[p], 1, i) \in Nat
       /\ In(puts[p], 2, i) \in Nat /\ In(puts'[p], 2, i) \in Nat
  BY DEF In, One
<1>16. /\ Cardinality(Column(puts, 1, i)) \in Nat /\ Cardinality(Column(puts', 1, i)) \in Nat
       /\ Cardinality(Column(puts, 2, i)) \in Nat /\ Cardinality(Column(puts', 2, i)) \in Nat
       /\ Cardinality(Column(puts', 1, i)) + In(puts[p], 1, i)
          = Cardinality(Column(puts, 1, i)) + In(puts'[p], 1, i)
       /\ Cardinality(Column(puts', 2, i)) + In(puts[p], 2, i)
          = Cardinality(Column(puts, 2, i)) + In(puts'[p], 2, i)
  BY <1>10
<1>17. Pointers(i) \in Nat /\ Pointers(i)' \in Nat
  BY <1>6, <1>7, <1>8, <1>9, <1>16, <1>11, <1>12, <1>K, <1>L
<1> QED
  BY <1>6, <1>7, <1>8, <1>9, <1>16, <1>11, <1>12, <1>13, <1>14, <1>15, <1>17, <1>K, <1>L
     DEF Slots

\* The pointers of two processes are among all pointers.
LEMMA SlotsCounted ==
  ASSUME NEW p \in Proc, NEW q \in Proc, p # q, NEW i
  PROVE  /\ Pointers(i) \in Nat /\ Slots(p, i) \in Nat /\ Slots(q, i) \in Nat
         /\ Pointers(i) >= Slots(p, i) + Slots(q, i)
<1>1. /\ IsFiniteSet(Cwds(i)) /\ IsFiniteSet(Files(i)) /\ IsFiniteSet(Dps(i))
      /\ IsFiniteSet(Ips(i))
  BY InodeAssumption, FS_Subset DEF Cwds, Files, Dps, Ips
<1>2. /\ IsFiniteSet(Column(puts, 1, i)) /\ IsFiniteSet(Column(puts, 2, i))
      /\ Cardinality(Places(puts, i))
         = Cardinality(Column(puts, 1, i)) + Cardinality(Column(puts, 2, i))
  BY Columns
<1>3. Pointers(i) =
        Cardinality(Cwds(i)) + Cardinality(Files(i)) + Cardinality(Dps(i))
        + Cardinality(Ips(i)) + Cardinality(Places(puts, i))
  BY DEF Pointers, Cwds, Files, Dps, Ips, Places
<1>4. Cardinality(Cwds(i)) \in Nat /\ Cardinality(Cwds(i)) >= One(cwd[p] = i) + One(cwd[q] = i)
  <2>1. (p \in Cwds(i) <=> cwd[p] = i) /\ (q \in Cwds(i) <=> cwd[q] = i)
    BY DEF Cwds
  <2> QED
    BY <1>1, <2>1, TwoMembers DEF One
<1>5. Cardinality(Files(i)) \in Nat /\ Cardinality(Files(i)) >= One(file[p] = i) + One(file[q] = i)
  <2>1. (p \in Files(i) <=> file[p] = i) /\ (q \in Files(i) <=> file[q] = i)
    BY DEF Files
  <2> QED
    BY <1>1, <2>1, TwoMembers DEF One
<1>6. Cardinality(Dps(i)) \in Nat /\ Cardinality(Dps(i)) >= One(dp[p] = i) + One(dp[q] = i)
  <2>1. (p \in Dps(i) <=> dp[p] = i) /\ (q \in Dps(i) <=> dp[q] = i)
    BY DEF Dps
  <2> QED
    BY <1>1, <2>1, TwoMembers DEF One
<1>7. Cardinality(Ips(i)) \in Nat /\ Cardinality(Ips(i)) >= One(ip[p] = i) + One(ip[q] = i)
  <2>1. (p \in Ips(i) <=> ip[p] = i) /\ (q \in Ips(i) <=> ip[q] = i)
    BY DEF Ips
  <2> QED
    BY <1>1, <2>1, TwoMembers DEF One
<1>8. ASSUME NEW k \in {1, 2}
      PROVE  /\ Cardinality(Column(puts, k, i)) \in Nat
             /\ Cardinality(Column(puts, k, i)) >= In(puts[p], k, i) + In(puts[q], k, i)
  <2>1. /\ p \in Column(puts, k, i) <=> k <= Len(puts[p]) /\ puts[p][k] = i
        /\ q \in Column(puts, k, i) <=> k <= Len(puts[q]) /\ puts[q][k] = i
    BY DEF Column
  <2>2. IsFiniteSet(Column(puts, k, i))
    BY <1>2
  <2> QED
    BY <2>1, <2>2, TwoMembers DEF One, In
<1>9. /\ Cardinality(Column(puts, 1, i)) \in Nat /\ Cardinality(Column(puts, 2, i)) \in Nat
      /\ Cardinality(Column(puts, 1, i)) >= In(puts[p], 1, i) + In(puts[q], 1, i)
      /\ Cardinality(Column(puts, 2, i)) >= In(puts[p], 2, i) + In(puts[q], 2, i)
  BY <1>8
<1>10. /\ One(cwd[p] = i) \in Nat /\ One(cwd[q] = i) \in Nat
       /\ One(file[p] = i) \in Nat /\ One(file[q] = i) \in Nat
       /\ One(dp[p] = i) \in Nat /\ One(dp[q] = i) \in Nat
       /\ One(ip[p] = i) \in Nat /\ One(ip[q] = i) \in Nat
  BY DEF One
<1>11. /\ In(puts[p], 1, i) \in Nat /\ In(puts[q], 1, i) \in Nat
       /\ In(puts[p], 2, i) \in Nat /\ In(puts[q], 2, i) \in Nat
  BY DEF In, One
<1> QED
  BY <1>2, <1>3, <1>4, <1>5, <1>6, <1>7, <1>9, <1>10, <1>11 DEF Slots

\* The pointers of a process are among all pointers.
LEMMA OneSlotCounted ==
  ASSUME NEW p \in Proc, NEW i
  PROVE  Pointers(i) \in Nat /\ Slots(p, i) \in Nat /\ Pointers(i) >= Slots(p, i)
<1>1. /\ IsFiniteSet(Cwds(i)) /\ IsFiniteSet(Files(i)) /\ IsFiniteSet(Dps(i))
      /\ IsFiniteSet(Ips(i))
  BY InodeAssumption, FS_Subset DEF Cwds, Files, Dps, Ips
<1>2. /\ IsFiniteSet(Column(puts, 1, i)) /\ IsFiniteSet(Column(puts, 2, i))
      /\ Cardinality(Places(puts, i))
         = Cardinality(Column(puts, 1, i)) + Cardinality(Column(puts, 2, i))
  BY Columns
<1>3. Pointers(i) =
        Cardinality(Cwds(i)) + Cardinality(Files(i)) + Cardinality(Dps(i))
        + Cardinality(Ips(i)) + Cardinality(Places(puts, i))
  BY DEF Pointers, Cwds, Files, Dps, Ips, Places
<1>4. ASSUME NEW S, IsFiniteSet(S)
      PROVE  Cardinality(S) \in Nat /\ Cardinality(S) >= One(p \in S)
  <2>1. Cardinality(S) \in Nat /\ (p \in S => Cardinality(S) # 0)
    BY <1>4, FS_CardinalityType, FS_EmptySet
  <2> QED
    BY <2>1 DEF One
<1>5. /\ Cardinality(Cwds(i)) \in Nat /\ Cardinality(Cwds(i)) >= One(cwd[p] = i)
      /\ Cardinality(Files(i)) \in Nat /\ Cardinality(Files(i)) >= One(file[p] = i)
      /\ Cardinality(Dps(i)) \in Nat /\ Cardinality(Dps(i)) >= One(dp[p] = i)
      /\ Cardinality(Ips(i)) \in Nat /\ Cardinality(Ips(i)) >= One(ip[p] = i)
  <2>1. /\ p \in Cwds(i) <=> cwd[p] = i
        /\ p \in Files(i) <=> file[p] = i
        /\ p \in Dps(i) <=> dp[p] = i
        /\ p \in Ips(i) <=> ip[p] = i
    BY DEF Cwds, Files, Dps, Ips
  <2> QED
    BY <1>1, <1>4, <2>1 DEF One
<1>6. ASSUME NEW k \in {1, 2}
      PROVE  /\ Cardinality(Column(puts, k, i)) \in Nat
             /\ Cardinality(Column(puts, k, i)) >= In(puts[p], k, i)
  <2>1. p \in Column(puts, k, i) <=> k <= Len(puts[p]) /\ puts[p][k] = i
    BY DEF Column
  <2>2. IsFiniteSet(Column(puts, k, i))
    BY <1>2
  <2> QED
    BY <2>1, <2>2, <1>4 DEF One, In
<1>7. /\ Cardinality(Column(puts, 1, i)) \in Nat /\ Cardinality(Column(puts, 2, i)) \in Nat
      /\ Cardinality(Column(puts, 1, i)) >= In(puts[p], 1, i)
      /\ Cardinality(Column(puts, 2, i)) >= In(puts[p], 2, i)
  BY <1>6
<1>8. /\ One(cwd[p] = i) \in Nat /\ One(file[p] = i) \in Nat
      /\ One(dp[p] = i) \in Nat /\ One(ip[p] = i) \in Nat
      /\ In(puts[p], 1, i) \in Nat /\ In(puts[p], 2, i) \in Nat
  BY DEF One, In
<1> QED
  BY <1>2, <1>3, <1>5, <1>7, <1>8 DEF Slots

\* ref counts what a process points to (idup, iget).
LEMMA Referenced ==
  ASSUME Typed, RefTracksPointers, NEW p \in Proc, NEW i \in Inum,
         cwd[p] = i \/ file[p] = i \/ dp[p] = i \/ ip[p] = i \/ In(puts[p], 1, i) = 1
  PROVE  ref[i] \in Nat /\ ref[i] >= 1
<1>1. ref[i] = Pointers(i) /\ Pointers(i) \in Nat /\ Pointers(i) >= Slots(p, i)
  BY OneSlotCounted DEF RefTracksPointers
<1>2. Slots(p, i) \in Nat /\ Slots(p, i) >= 1
  BY DEF Slots, In, One
<1> QED
  BY <1>1, <1>2

\* The only pointer to an inode is the one that iput() is about to give up.
LEMMA Sole ==
  ASSUME Typed, RefTracksPointers, NEW p \in Proc, NEW i \in Inum, ref[i] = 1,
         In(puts[p], 1, i) = 1, NEW q \in Proc
  PROVE  /\ cwd[q] # i /\ file[q] # i /\ dp[q] # i /\ ip[q] # i
         /\ In(puts[q], 2, i) = 0 /\ (q # p => In(puts[q], 1, i) = 0)
<1>1. Pointers(i) = 1
  BY DEF RefTracksPointers
<1>2. Slots(p, i) \in Nat /\ Slots(p, i) >= 1 /\ Slots(p, i) <= 1
  BY <1>1, OneSlotCounted DEF Slots, In, One
<1>3. CASE q = p
  BY <1>2, <1>3 DEF Slots, In, One
<1>4. CASE q # p
  <2>1. Slots(q, i) = 0
    BY <1>1, <1>2, <1>4, SlotsCounted
  <2> QED
    BY <2>1 DEF Slots, In, One
<1> QED
  BY <1>3, <1>4

\* Nobody loses a lock by a step of p, and an entry in use stays loaded, with
\* the exception of the one that p frees.
LockFrame(p) ==
  /\ \A j \in Inum, q \in Proc : q # p /\ lock[j] = q => lock'[j] = q
  /\ \A j \in Inum : valid[j] /\ ref[j] >= 1 =>
       valid'[j] \/ (phase[p] = "free" /\ j = Head(puts[p]))

\* What the others hold is what they held.
LEMMA OthersStay ==
  ASSUME IInv, panicked = "no", NEW p \in Proc, Others(p), LockFrame(p),
         NEW q \in Proc, q # p
  PROVE  Place(q)' /\ Freeing(q)'
<1>1. Place(q) /\ Freeing(q) /\ Freeing(p) /\ ParentInv /\ Typed /\ RefTracksPointers
  BY DEF IInv
<1>2. /\ dp'[q] = dp[q] /\ ip'[q] = ip[q] /\ puts'[q] = puts[q] /\ phase'[q] = phase[q]
      /\ pc'[q] = pc[q] /\ args'[q] = args[q] /\ file'[q] = file[q]
  BY DEF Others
<1>3. dp[q] \in Inum \cup {Null} /\ ip[q] \in Inum \cup {Null}
  BY <1>1 DEF Typed, ProcTyped
<1>4. dp[q] # Null => ref[dp[q]] >= 1
  BY <1>1, <1>3, Referenced
<1>5. ip[q] # Null => ref[ip[q]] >= 1
  BY <1>1, <1>3, Referenced
<1>6. pc[q] \in {"parent", "create_new", "unlink_ip"} => dp[q] # Null /\ valid'[dp[q]]
  <2>1. pc[q] \in {"parent", "create_new", "unlink_ip"} => dp[q] # Null /\ valid[dp[q]]
    BY <1>1 DEF Place, DpPC
  <2>2. phase[p] = "free" /\ pc[q] = "parent" => dp[q] # Head(puts[p])
    BY <1>1 DEF ParentInv
  <2>3. phase[p] = "free" /\ pc[q] \in {"create_new", "unlink_ip"} => dp[q] # Head(puts[p])
    BY <1>1 DEF Freeing, Place, DpLocked
  <2> QED
    BY <1>3, <1>4, <2>1, <2>2, <2>3 DEF LockFrame
<1>7. pc[q] = "unlinked" => valid'[ip[q]]
  <2>1. pc[q] = "unlinked" => ip[q] # Null /\ valid[ip[q]]
    BY <1>1 DEF Place, IpPC
  <2>2. phase[p] = "free" /\ pc[q] = "unlinked" => ip[q] # Head(puts[p])
    BY <1>1 DEF Freeing, Place, IpLocked
  <2> QED
    BY <1>3, <1>5, <2>1, <2>2 DEF LockFrame
<1>8. Place(q)'
  BY <1>1, <1>2, <1>3, <1>6, <1>7
     DEF Place, LockFrame, WantsParent, DpPC, IpPC, DpLocked, IpLocked
<1>9. Freeing(q)'
  <2>1. phase[q] = "free" => Head(puts[q]) \in Inum
    <3>1. puts[q] \in Seq(Inum)
      BY <1>1 DEF Typed, ProcTyped
    <3> QED
      BY <1>1, <3>1 DEF Freeing
  <2> QED
    BY <1>1, <1>2, <2>1 DEF Freeing, LockFrame
<1> QED
  BY <1>8, <1>9

\* A step of p that neither comes to "parent" nor begins to free an inode.
LEMMA ParentStays ==
  ASSUME IInv, panicked = "no", NEW p \in Proc, Others(p),
         phase'[p] = "free" => phase[p] = "free" /\ puts'[p] = puts[p],
         pc'[p] = "parent" => pc[p] = "parent" /\ dp'[p] = dp[p]
  PROVE  ParentInv'
<1>1. ParentInv
  BY DEF IInv
<1> QED
  BY <1>1 DEF ParentInv, Others

\* What a step of p has to be shown to do.
LEMMA StepIInv ==
  ASSUME IInv, panicked = "no", NEW p \in Proc, Others(p), LockFrame(p), Typed', CacheInv',
         \A i \in Inum : ref'[i] + Slots(p, i) = ref[i] + Slots(p, i)',
         panicked' = "no" => Place(p)' /\ Freeing(p)',
         panicked' = "no" => ParentInv'
  PROVE  IInv'
<1>1. ASSUME NEW i \in Inum PROVE ref'[i] = Pointers(i)'
  <2>1. ref[i] = Pointers(i)
    BY DEF IInv, RefTracksPointers
  <2>2. /\ Pointers(i) \in Nat /\ Pointers(i)' \in Nat
        /\ Pointers(i)' + Slots(p, i) = Pointers(i) + Slots(p, i)'
    BY PointersStep
  <2>3. ref'[i] \in Nat
    BY DEF Typed, FsTyped
  <2>4. Slots(p, i) \in Nat
    BY OneSlotCounted
  <2>5. ref'[i] + Slots(p, i) = Pointers(i)' + Slots(p, i)
    BY <2>1, <2>2
  <2> QED
    BY <2>2, <2>3, <2>4, <2>5
<1>2. RefTracksPointers'
  BY <1>1 DEF RefTracksPointers, Inum
<1>3. panicked' = "no" => \A q \in Proc : Place(q)' /\ Freeing(q)'
  BY OthersStay
<1> QED
  BY <1>2, <1>3 DEF IInv

-----------------------------------------------------------------------------
(***************************************************************************)
(* The steps of the inode layer                                            *)
(***************************************************************************)
\* ilock() of d: the others' entries stay as they are.
LEMMA IlockFacts ==
  ASSUME Typed, NEW d \in Inum, Ilock(d)
  PROVE  /\ lock[d] = NoProc /\ valid' \in [Inum -> BOOLEAN] /\ valid'[d]
         /\ \A j \in Inum : (valid[j] => valid'[j]) /\ (valid'[j] => valid[j] \/ j = d)
         /\ panicked' = "no" => LockPanic(d) = "no"
BY DEF Typed, FsTyped, ProcTyped, Ilock

\* iget() of i, with the inodes of "held" locked before.
LEMMA IgetFacts ==
  ASSUME Typed, NEW i \in Inum, NEW held \in SUBSET Inum, Iget(i, held)
  PROVE  /\ ref' \in [Inum -> Nat] /\ valid' \in [Inum -> BOOLEAN]
         /\ \A j \in Inum :
              /\ ref'[j] = ref[j] + One(j = i)
              /\ valid[j] /\ ref[j] >= 1 => valid'[j]
              /\ valid'[j] => valid[j] \/ j \in held
              /\ j \in held => valid'[j]
         /\ panicked' = "no" => \A j \in held : LockPanic(j) = "no"
<1>1. \A j \in Inum : ref[j] \in Nat /\ valid[j] \in BOOLEAN
  BY DEF Typed, FsTyped, ProcTyped
<1>2. ref' = [ref EXCEPT ![i] = @ + 1] /\ ref \in [Inum -> Nat]
  BY DEF Iget, Typed, FsTyped, ProcTyped
<1>3. valid' = [j \in Inum |-> j \in held \/ (valid[j] /\ (j # i \/ ref[i] > 0))]
  BY DEF Iget
<1>4. ref' \in [Inum -> Nat] /\ \A j \in Inum : ref'[j] = ref[j] + One(j = i)
  BY <1>1, <1>2 DEF One
<1>5. /\ valid' \in [Inum -> BOOLEAN]
      /\ \A j \in Inum :
           /\ valid[j] /\ ref[j] >= 1 => valid'[j]
           /\ valid'[j] => valid[j] \/ j \in held
           /\ j \in held => valid'[j]
  <2>1. \A j \in Inum : valid'[j] <=> (j \in held \/ (valid[j] /\ (j # i \/ ref[i] > 0)))
    BY <1>3, Zenon
  <2>2. \A j \in Inum : (j \in held \/ (valid[j] /\ (j # i \/ ref[i] > 0))) \in BOOLEAN
    OBVIOUS
  <2>3. valid' \in [Inum -> BOOLEAN]
    BY <1>3, <2>2, Zenon
  <2> QED
    BY <1>1, <2>1, <2>3
<1>6. panicked' = "no" => \A j \in held : LockPanic(j) = "no"
  BY DEF Iget
<1> QED
  BY <1>4, <1>5, <1>6

\* What ilock() finds is what the disk says.
LEMMA LoadedIsDisk ==
  ASSUME IInv, NEW i \in Inum
  PROVE  /\ Loaded(i) = dinode[i] /\ dinode[i] \in Dinode
         /\ LockPanic(i) = "no" /\ panicked = "no" => dinode[i].type # "free"
<1>1. dinode[i] \in Dinode /\ valid[i] \in BOOLEAN
  BY DEF IInv, Typed, FsTyped, ProcTyped
<1>2. valid[i] => inode[i] = dinode[i] /\ (panicked = "no" => dinode[i].type # "free")
  BY DEF IInv, CacheInv
<1> QED
  BY <1>1, <1>2 DEF Loaded, LockPanic

\* An inode that is loaded is what the disk says.
LEMMA LoadCache ==
  ASSUME IInv, panicked = "no", NEW d \in Inum, Load(d), dinode' = dinode,
         \A j \in Inum : valid'[j] => valid[j] \/ j = d,
         panicked' = "no" => LockPanic(d) = "no"
  PROVE  CacheInv' /\ inode' \in [Inum -> Dinode]
<1>1. Loaded(d) = dinode[d] /\ dinode[d] \in Dinode
      /\ (LockPanic(d) = "no" => dinode[d].type # "free")
  BY LoadedIsDisk
<1>2. inode' = [inode EXCEPT ![d] = dinode[d]] /\ inode \in [Inum -> Dinode]
  BY <1>1 DEF Load, IInv, Typed, FsTyped, ProcTyped
<1>3. CacheInv
  BY DEF IInv
<1> QED
  BY <1>1, <1>2, <1>3 DEF CacheInv

\* Steps that leave the cached copies alone, or let go of some.
LEMMA SameCache ==
  ASSUME IInv, panicked = "no", inode' = inode, dinode' = dinode,
         \A j \in Inum : valid'[j] => valid[j]
  PROVE  CacheInv'
<1>1. CacheInv
  BY DEF IInv
<1> QED
  BY <1>1 DEF CacheInv

\* There is no inode 0; the root has number 1.
LEMMA NullInum == Null \notin Inum /\ Root \in Inum /\ Root # Null
BY InodeAssumption DEF Null, Inum, Root

\* namei() and nameiparent() begin with the root or the current directory.
LEMMA BeginIInv ==
  ASSUME IInv, NEW p \in Proc, NEW what, NEW s \in Seq(Elem), NEW t \in Seq(Elem),
         NEW from \in Inum, Begin(p, what, s, t, from),
         what \in {"open", "creat", "mkdir", "unlink", "chdir", "link"}
  PROVE  IInv'
<1>0. /\ pc[p] = "idle" /\ puts[p] = <<>> /\ panicked = "no"
      /\ what \in {"open", "creat"} => file[p] = Null
      /\ args' = [args EXCEPT ![p].call = what, ![p].path = s, ![p].new = t]
      /\ dp' = [dp EXCEPT ![p] = from] /\ pc' = [pc EXCEPT ![p] = "namex"]
      /\ Iget(from, {})
      /\ dinode' = dinode /\ entries' = entries /\ inode' = inode /\ lock' = lock
      /\ cwd' = cwd /\ file' = file /\ ip' = ip /\ puts' = puts /\ phase' = phase
  BY DEF Begin, At, Goto, disk, owned
<1>1. panicked = "no" /\ FsTyped /\ ProcTyped /\ Place(p) /\ Freeing(p)
  BY <1>0 DEF IInv, Typed
<1>2. dp[p] = Null /\ ip[p] = Null /\ phase[p] = "lock" /\ puts[p] = <<>>
  BY <1>0, <1>1, NullInum DEF Place, DpPC, IpPC, DpLocked, IpLocked, ProcTyped
<1>3. /\ ref' \in [Inum -> Nat] /\ valid' \in [Inum -> BOOLEAN]
      /\ \A j \in Inum :
           /\ ref'[j] = ref[j] + One(j = from)
           /\ valid[j] /\ ref[j] >= 1 => valid'[j]
           /\ valid'[j] => valid[j]
  BY <1>0, <1>1, IgetFacts DEF Typed
<1>5. /\ dp'[p] = from /\ ip'[p] = ip[p] /\ cwd'[p] = cwd[p] /\ file'[p] = file[p]
      /\ pc'[p] = "namex" /\ puts'[p] = puts[p] /\ phase'[p] = phase[p]
      /\ args'[p].call = what
  BY <1>0, <1>1, <1>2 DEF ProcTyped, Arg
<1>6. FsTyped'
  BY <1>0, <1>1, <1>3 DEF FsTyped
<1>7. ProcTyped'
  <2>1. args' \in [Proc -> Arg]
    <3>1. args \in [Proc -> Arg]
      BY <1>1 DEF ProcTyped
    <3>2. args' = [args EXCEPT ![p].call = what, ![p].path = s, ![p].new = t]
      BY <1>0
    <3> QED
      BY <3>1, <3>2, ZenonT(60) DEF Arg
  <2> QED
    BY <1>0, <1>1, <2>1 DEF ProcTyped, PC
<1>8. Others(p)
  BY <1>0, <1>1 DEF Others, ProcTyped
<1>9. LockFrame(p)
  BY <1>0, <1>1, <1>2, <1>3, InodeAssumption DEF LockFrame, FsTyped
<1>10. CacheInv'
  BY <1>0, <1>1, <1>3, SameCache
<1>11. ASSUME NEW i \in Inum PROVE ref'[i] + Slots(p, i) = ref[i] + Slots(p, i)'
  <2>1. In(puts[p], 1, i) = 0 /\ In(puts[p], 2, i) = 0 /\ puts'[p] = puts[p]
    BY <1>2, <1>5, InNone, InOne
  <2>2. ref[i] \in Nat /\ ref'[i] = ref[i] + One(i = from)
    BY <1>0, <1>1, <1>3 DEF FsTyped
  <2> QED
    BY <1>2, <1>5, <2>1, <2>2, NullInum DEF Slots, One
<1>12. panicked' = "no" => Place(p)' /\ Freeing(p)'
  BY <1>0, <1>1, <1>2, <1>3, <1>5, NullInum
     DEF Place, Freeing, DpPC, IpPC, DpLocked, IpLocked, WantsParent, FsTyped
<1>13. panicked' = "no" => ParentInv'
  BY <1>0, <1>1, <1>2, <1>5, <1>8, ParentStays
<1> QED
  BY <1>1, <1>6, <1>7, <1>8, <1>9, <1>10, <1>11, <1>12, <1>13, StepIInv DEF Typed

\* namex() and its callers give up: the directory is put (Fail).
LEMMA FailIInv ==
  ASSUME IInv, NEW p \in Proc, panicked = "no", puts[p] = <<>>,
         pc[p] \in {"namex", "found", "parent", "unlink_bad", "link_exists"},
         Fail(p, dp[p]), FsTyped', CacheInv', LockFrame(p), ref' = ref, cwd' = cwd,
         file' = file, ip' = ip, phase' = phase
  PROVE  IInv'
<1>0. /\ panicked = "no" /\ puts' = [puts EXCEPT ![p] = <<dp[p]>>]
      /\ dp' = [dp EXCEPT ![p] = Null]
      /\ \/ args[p].call = "link2" /\ pc' = [pc EXCEPT ![p] = "link_bad"] /\ args' = args
         \/ /\ args[p].call # "link2" /\ pc' = [pc EXCEPT ![p] = "idle"]
            /\ args' = [args EXCEPT ![p] = NoArgs]
  BY DEF Fail, Put, Goto, Return
<1>1. panicked = "no" /\ FsTyped /\ ProcTyped /\ Place(p) /\ Freeing(p)
  BY <1>0 DEF IInv, Typed
<1>2. /\ dp[p] \in Inum /\ phase[p] = "lock" /\ puts[p] = <<>>
      /\ ip[p] # Null <=> args[p].call = "link2"
  BY <1>0, <1>1, NullInum DEF Place, DpPC, IpPC, DpLocked, IpLocked, ProcTyped
<1>4. NoArgs.call = "none"
  BY DEF NoArgs
<1>5. /\ dp'[p] = Null /\ ip'[p] = ip[p] /\ cwd'[p] = cwd[p] /\ file'[p] = file[p]
      /\ puts'[p] = <<dp[p]>> /\ phase'[p] = "lock"
      /\ \/ pc'[p] = "link_bad" /\ args'[p] = args[p] /\ args[p].call = "link2"
         \/ pc'[p] = "idle" /\ args'[p].call = "none" /\ args[p].call # "link2"
  BY <1>0, <1>1, <1>2, <1>4 DEF ProcTyped
<1>6. FsTyped'
  OBVIOUS
<1>7. ProcTyped'
  <2>1. NoArgs \in Arg
    BY EmptySeq DEF NoArgs, Arg, Elem
  <2>2. args' \in [Proc -> Arg] /\ pc' \in [Proc -> PC]
    BY <1>0, <1>1, <2>1, ZenonT(60) DEF ProcTyped, PC
  <2>3. <<dp[p]>> \in Seq(Inum) /\ Len(<<dp[p]>>) <= 2
    BY <1>2
  <2> QED
    BY <1>0, <1>1, <2>2, <2>3 DEF ProcTyped
<1>8. Others(p)
  BY <1>0, <1>1 DEF Others, ProcTyped
<1>9. LockFrame(p)
  OBVIOUS
<1>10. CacheInv'
  OBVIOUS
<1>11. ASSUME NEW i \in Inum PROVE ref'[i] + Slots(p, i) = ref[i] + Slots(p, i)'
  <2>1. /\ In(puts[p], 1, i) = 0 /\ In(puts[p], 2, i) = 0
        /\ In(puts'[p], 1, i) = One(dp[p] = i) /\ In(puts'[p], 2, i) = 0
    BY <1>2, <1>5, InNone, InOne
  <2>2. ref[i] \in Nat /\ ref'[i] = ref[i]
    BY <1>0, <1>1 DEF FsTyped
  <2> QED
    BY <1>2, <1>5, <2>1, <2>2, NullInum DEF Slots, One
<1>12. panicked' = "no" => Place(p)' /\ Freeing(p)'
  BY <1>0, <1>1, <1>2, <1>5, NullInum
     DEF Place, Freeing, DpPC, IpPC, DpLocked, IpLocked, WantsParent, FsTyped
<1>13. panicked' = "no" => ParentInv'
  BY <1>0, <1>1, <1>2, <1>5, <1>8, ParentStays
<1> QED
  BY <1>1, <1>6, <1>7, <1>8, <1>9, <1>10, <1>11, <1>12, <1>13, StepIInv DEF Typed

\* iput() takes the lock, and keeps it if the inode is to be freed.
LEMMA IputLockIInv ==
  ASSUME IInv, NEW p \in Proc, IputLock(p)
  PROVE  IInv'
<1>0. /\ puts[p] # <<>> /\ phase[p] = "lock" /\ panicked = "no" /\ lock[Head(puts[p])] = NoProc
      /\ lock' = [lock EXCEPT ![Head(puts[p])] = IF LastRef(Head(puts[p])) THEN p ELSE NoProc]
      /\ phase' = [phase EXCEPT ![p] = IF LastRef(Head(puts[p])) THEN "free" ELSE "unref"]
      /\ dinode' = dinode /\ entries' = entries /\ ref' = ref /\ valid' = valid /\ inode' = inode
      /\ cwd' = cwd /\ file' = file /\ pc' = pc /\ args' = args /\ dp' = dp /\ ip' = ip
      /\ puts' = puts /\ panicked' = panicked
  BY DEF IputLock, disk, owned
<1>1. panicked = "no" /\ FsTyped /\ ProcTyped /\ Place(p) /\ Freeing(p)
  BY <1>0 DEF IInv, Typed
<1>2. puts[p] \in Seq(Inum) /\ Head(puts[p]) \in Inum
  BY <1>0, <1>1, NullInum DEF Place, DpPC, IpPC, DpLocked, IpLocked, ProcTyped
<1>5. /\ dp'[p] = dp[p] /\ ip'[p] = ip[p] /\ cwd'[p] = cwd[p] /\ file'[p] = file[p]
      /\ puts'[p] = puts[p] /\ pc'[p] = pc[p] /\ args'[p] = args[p]
      /\ \/ phase'[p] = "free" /\ lock' = [lock EXCEPT ![Head(puts[p])] = p]
         \/ phase'[p] = "unref" /\ lock' = [lock EXCEPT ![Head(puts[p])] = NoProc]
  BY <1>0, <1>1, <1>2 DEF ProcTyped
<1>6. FsTyped'
  BY <1>0, <1>1, <1>2 DEF FsTyped
<1>7. ProcTyped'
  BY <1>0, <1>1 DEF ProcTyped
<1>8. Others(p)
  BY <1>0, <1>1 DEF Others, ProcTyped
<1>9. LockFrame(p)
  BY <1>0, <1>1, <1>2, InodeAssumption DEF LockFrame, FsTyped
<1>10. CacheInv'
  BY <1>0, <1>1, SameCache
<1>11. ASSUME NEW i \in Inum PROVE ref'[i] + Slots(p, i) = ref[i] + Slots(p, i)'
  <2>1. puts'[p] = puts[p]
    BY <1>2, <1>5, InNone, InOne
  <2>2. ref[i] \in Nat /\ ref'[i] = ref[i]
    BY <1>0, <1>1 DEF FsTyped
  <2> QED
    BY <1>5, <2>2 DEF Slots
<1>12. panicked' = "no" => Place(p)' /\ Freeing(p)'
  <2>1. pc[p] \in DpLocked => Head(puts[p]) # dp[p] /\ dp[p] \in Inum
    BY <1>0, <1>1, InodeAssumption DEF Place, ProcTyped, DpLocked, DpPC
  <2>2. pc[p] \in IpLocked => Head(puts[p]) # ip[p] /\ ip[p] \in Inum
    BY <1>0, <1>1, InodeAssumption DEF Place, ProcTyped, IpLocked, IpPC
  <2>3. Place(p)'
    BY <1>0, <1>1, <1>2, <1>5, <2>1, <2>2 DEF Place, WantsParent, FsTyped
  <2>4. Freeing(p)'
    BY <1>0, <1>1, <1>2, <1>5, <2>1, <2>2 DEF Freeing, FsTyped
  <2> QED
    BY <2>3, <2>4
<1>13. panicked' = "no" => ParentInv'
  <2> DEFINE i == Head(puts[p])
  <2>1. phase'[p] = "free" => ref[i] = 1
    BY <1>0, <1>1 DEF LastRef, ProcTyped
  <2>2. In(puts[p], 1, i) = 1
    BY <1>0, <1>1, <1>2, InTail DEF ProcTyped, One
  <2>3. ASSUME NEW q \in Proc, phase'[p] = "free" PROVE dp[q] # i
    BY <1>1, <1>2, <2>1, <2>2, <2>3, Sole DEF IInv
  <2>4. ParentInv
    BY <1>0 DEF IInv
  <2> QED
    BY <1>0, <1>5, <1>8, <2>3, <2>4 DEF ParentInv, Others
<1> QED
  BY <1>1, <1>6, <1>7, <1>8, <1>9, <1>10, <1>11, <1>12, <1>13, StepIInv DEF Typed

\* iput() frees the inode and invalidates its copy.
LEMMA IputFreeIInv ==
  ASSUME IInv, NEW p \in Proc, IputFree(p)
  PROVE  IInv'
<1>0. /\ puts[p] # <<>> /\ phase[p] = "free" /\ panicked = "no"
      /\ entries' = [entries EXCEPT ![Head(puts[p])] = NoEntries]
      /\ inode' = [inode EXCEPT ![Head(puts[p])] = FreeInode]
      /\ dinode' = [dinode EXCEPT ![Head(puts[p])] = FreeInode]
      /\ valid' = [valid EXCEPT ![Head(puts[p])] = FALSE]
      /\ lock' = [lock EXCEPT ![Head(puts[p])] = NoProc]
      /\ phase' = [phase EXCEPT ![p] = "unref"]
      /\ ref' = ref /\ cwd' = cwd /\ file' = file /\ pc' = pc /\ args' = args /\ dp' = dp /\ ip' = ip
      /\ puts' = puts /\ panicked' = panicked
  BY DEF IputFree, Invalidate, Unlocked, owned
<1>1. panicked = "no" /\ FsTyped /\ ProcTyped /\ Place(p) /\ Freeing(p)
  BY <1>0 DEF IInv, Typed
<1>2. puts[p] \in Seq(Inum) /\ Head(puts[p]) \in Inum
  BY <1>0, <1>1, NullInum DEF Place, DpPC, IpPC, DpLocked, IpLocked, ProcTyped
<1>5. /\ dp'[p] = dp[p] /\ ip'[p] = ip[p] /\ cwd'[p] = cwd[p] /\ file'[p] = file[p]
      /\ puts'[p] = puts[p] /\ pc'[p] = pc[p] /\ args'[p] = args[p] /\ phase'[p] = "unref"
  BY <1>0, <1>1, <1>2 DEF ProcTyped
<1>6. FsTyped'
  <2>1. NoEntries \in [Elem -> Inum \cup {Null}] /\ FreeInode \in Dinode
    BY DEF NoEntries, FreeInode, Dinode
  <2> QED
    BY <1>0, <1>1, <1>2, <2>1 DEF FsTyped
<1>7. ProcTyped'
  BY <1>0, <1>1 DEF ProcTyped
<1>8. Others(p)
  BY <1>0, <1>1 DEF Others, ProcTyped
<1>9. LockFrame(p)
  BY <1>0, <1>1, <1>2, InodeAssumption DEF LockFrame, FsTyped, Freeing
<1>10. CacheInv'
  <2>1. CacheInv
    BY DEF IInv
  <2> QED
    BY <1>0, <1>1, <1>2, <2>1 DEF CacheInv, FsTyped
<1>11. ASSUME NEW i \in Inum PROVE ref'[i] + Slots(p, i) = ref[i] + Slots(p, i)'
  <2>1. puts'[p] = puts[p]
    BY <1>2, <1>5, InNone, InOne
  <2>2. ref[i] \in Nat /\ ref'[i] = ref[i]
    BY <1>0, <1>1 DEF FsTyped
  <2> QED
    BY <1>5, <2>2 DEF Slots
<1>12. panicked' = "no" => Place(p)' /\ Freeing(p)'
  <2>1. pc[p] \in DpLocked => Head(puts[p]) # dp[p] /\ dp[p] \in Inum
    BY <1>0, <1>1 DEF Place, Freeing, ProcTyped, DpLocked, DpPC
  <2>2. pc[p] \in IpLocked => Head(puts[p]) # ip[p] /\ ip[p] \in Inum
    BY <1>0, <1>1 DEF Place, Freeing, ProcTyped, IpLocked, IpPC
  <2>3. pc[p] = "parent" => Head(puts[p]) # dp[p] /\ dp[p] \in Inum
    BY <1>0, <1>1 DEF IInv, ParentInv, Place, ProcTyped, DpPC
  <2>4. Place(p)'
    BY <1>0, <1>1, <1>2, <1>5, <2>1, <2>2, <2>3 DEF Place, WantsParent, FsTyped, DpLocked, IpLocked
  <2>5. Freeing(p)'
    BY <1>5 DEF Freeing
  <2> QED
    BY <2>4, <2>5
<1>13. panicked' = "no" => ParentInv'
  BY <1>0, <1>1, <1>2, <1>5, <1>8, ParentStays
<1> QED
  BY <1>1, <1>6, <1>7, <1>8, <1>9, <1>10, <1>11, <1>12, <1>13, StepIInv DEF Typed

\* iput() gives up the reference.
LEMMA IputUnrefIInv ==
  ASSUME IInv, NEW p \in Proc, IputUnref(p)
  PROVE  IInv'
<1>0. /\ puts[p] # <<>> /\ phase[p] = "unref" /\ panicked = "no"
      /\ ref' = [ref EXCEPT ![Head(puts[p])] = @ - 1]
      /\ puts' = [puts EXCEPT ![p] = Tail(puts[p])]
      /\ phase' = [phase EXCEPT ![p] = "lock"]
      /\ dinode' = dinode /\ entries' = entries /\ valid' = valid /\ inode' = inode /\ lock' = lock
      /\ cwd' = cwd /\ file' = file /\ pc' = pc /\ args' = args /\ dp' = dp /\ ip' = ip
      /\ panicked' = panicked
  BY DEF IputUnref, Put, disk, owned
<1>1. panicked = "no" /\ FsTyped /\ ProcTyped /\ Place(p) /\ Freeing(p)
  BY <1>0 DEF IInv, Typed
<1>2. puts[p] \in Seq(Inum) /\ puts[p] # <<>> /\ Len(puts[p]) <= 2
  BY <1>0, <1>1, NullInum DEF Place, DpPC, IpPC, DpLocked, IpLocked, ProcTyped
<1>3. /\ Head(puts[p]) \in Inum /\ Tail(puts[p]) \in Seq(Inum) /\ Len(Tail(puts[p])) <= 2
      /\ ref[Head(puts[p])] \in Nat /\ ref[Head(puts[p])] >= 1
  <2>1. Head(puts[p]) \in Inum /\ Tail(puts[p]) \in Seq(Inum) /\ Len(Tail(puts[p])) <= 1
    BY <1>2, InTail
  <2>2. In(puts[p], 1, Head(puts[p])) = 1
    BY <1>2, InTail DEF One
  <2>3. Len(Tail(puts[p])) <= 2
    BY <2>1
  <2> QED
    BY <1>1, <2>1, <2>2, <2>3, Referenced DEF IInv
<1>5. /\ dp'[p] = dp[p] /\ ip'[p] = ip[p] /\ cwd'[p] = cwd[p] /\ file'[p] = file[p]
      /\ puts'[p] = Tail(puts[p]) /\ pc'[p] = pc[p] /\ args'[p] = args[p] /\ phase'[p] = "lock"
  BY <1>0, <1>1, <1>2 DEF ProcTyped
<1>6. FsTyped'
  BY <1>0, <1>1, <1>3 DEF FsTyped
<1>7. ProcTyped'
  BY <1>0, <1>1, <1>3 DEF ProcTyped
<1>8. Others(p)
  BY <1>0, <1>1 DEF Others, ProcTyped
<1>9. LockFrame(p)
  BY <1>0, <1>1, <1>2, <1>3, InodeAssumption DEF LockFrame, FsTyped
<1>10. CacheInv'
  BY <1>0, <1>1, SameCache
<1>11. ASSUME NEW i \in Inum PROVE ref'[i] + Slots(p, i) = ref[i] + Slots(p, i)'
  <2>1. /\ In(puts[p], 1, i) = One(Head(puts[p]) = i)
        /\ In(puts'[p], 1, i) = In(puts[p], 2, i) /\ In(puts'[p], 2, i) = 0
        /\ In(puts[p], 2, i) \in Nat
    BY <1>2, <1>5, InTail DEF In, One
  <2>2. ref[i] \in Nat /\ ref'[i] + One(Head(puts[p]) = i) = ref[i]
    BY <1>0, <1>1, <1>3 DEF FsTyped, One
  <2>3. /\ One(Head(puts[p]) = i) \in Nat /\ One(cwd[p] = i) \in Nat /\ One(file[p] = i) \in Nat
        /\ One(dp[p] = i) \in Nat /\ One(ip[p] = i) \in Nat /\ ref'[i] \in Nat
    BY <1>6 DEF One, FsTyped
  <2> QED
    BY <1>5, <2>1, <2>2, <2>3 DEF Slots
<1>12. panicked' = "no" => Place(p)' /\ Freeing(p)'
  BY <1>0, <1>1, <1>2, <1>5 DEF Place, Freeing, WantsParent
<1>13. panicked' = "no" => ParentInv'
  BY <1>0, <1>1, <1>2, <1>5, <1>8, ParentStays
<1> QED
  BY <1>1, <1>6, <1>7, <1>8, <1>9, <1>10, <1>11, <1>12, <1>13, StepIInv DEF Typed

-----------------------------------------------------------------------------
(***************************************************************************)
(* The walk along a path                                                   *)
(***************************************************************************)
\* namei() has come to the end of the path.
LEMMA NamexFoundIInv ==
  ASSUME IInv, NEW p \in Proc, At(p, "namex"), args[p].path = <<>>, ~WantsParent(p),
         Goto(p, "found"), UNCHANGED <<args, puts, dp, disk, icache, owned, ip, phase, panicked>>
  PROVE  IInv'
<1>0. /\ pc[p] = "namex" /\ puts[p] = <<>> /\ panicked = "no"
      /\ pc' = [pc EXCEPT ![p] = "found"]
      /\ dinode' = dinode /\ entries' = entries /\ inode' = inode /\ lock' = lock /\ ref' = ref
      /\ valid' = valid /\ panicked' = panicked
      /\ cwd' = cwd /\ file' = file /\ args' = args /\ dp' = dp /\ ip' = ip /\ puts' = puts /\ phase' = phase
  BY DEF At, Goto, disk, icache, owned
<1>1. panicked = "no" /\ FsTyped /\ ProcTyped /\ Place(p) /\ Freeing(p)
  BY <1>0 DEF IInv, Typed
<1>2. dp[p] \in Inum /\ phase[p] = "lock"
  BY <1>0, <1>1, NullInum DEF Place, DpPC, IpPC, DpLocked, IpLocked, ProcTyped
<1>5. /\ dp'[p] = dp[p] /\ ip'[p] = ip[p] /\ cwd'[p] = cwd[p] /\ file'[p] = file[p]
      /\ puts'[p] = puts[p] /\ pc'[p] = "found" /\ args'[p] = args[p] /\ phase'[p] = phase[p]
  BY <1>0, <1>1, <1>2 DEF ProcTyped
<1>6. FsTyped'
  BY <1>0, <1>1 DEF FsTyped
<1>7. ProcTyped'
  BY <1>0, <1>1 DEF ProcTyped, PC
<1>8. Others(p)
  BY <1>0, <1>1 DEF Others, ProcTyped
<1>9. LockFrame(p)
  BY <1>0, <1>1, <1>2, InodeAssumption DEF LockFrame, FsTyped
<1>10. CacheInv'
  BY <1>0, <1>1, SameCache
<1>11. ASSUME NEW i \in Inum PROVE ref'[i] + Slots(p, i) = ref[i] + Slots(p, i)'
  <2>1. puts'[p] = puts[p]
    BY <1>2, <1>5, InNone, InOne
  <2>2. ref[i] \in Nat /\ ref'[i] = ref[i]
    BY <1>0, <1>1 DEF FsTyped
  <2> QED
    BY <1>2, <1>5, <2>1, <2>2, NullInum DEF Slots, One
<1>12. panicked' = "no" => Place(p)' /\ Freeing(p)'
  BY <1>0, <1>1, <1>2, <1>5, NullInum
     DEF Place, Freeing, DpPC, IpPC, DpLocked, IpLocked, WantsParent, FsTyped
<1>13. panicked' = "no" => ParentInv'
  BY <1>0, <1>1, <1>2, <1>5, <1>8, ParentStays
<1> QED
  BY <1>1, <1>6, <1>7, <1>8, <1>9, <1>10, <1>11, <1>12, <1>13, StepIInv DEF Typed

\* namex() has no more path elements; nameiparent() fails.
LEMMA NamexEndsIInv ==
  ASSUME IInv, NEW p \in Proc, NamexEnds(p)
  PROVE  IInv'
<1>1. CASE WantsParent(p)
  <2>1. /\ pc[p] = "namex" /\ puts[p] = <<>> /\ panicked = "no" /\ Fail(p, dp[p])
        /\ dinode' = dinode /\ entries' = entries /\ inode' = inode /\ lock' = lock
        /\ ref' = ref /\ valid' = valid /\ panicked' = panicked
        /\ cwd' = cwd /\ file' = file /\ ip' = ip /\ phase' = phase
    BY <1>1 DEF NamexEnds, At, disk, icache, owned
  <2>2. FsTyped' /\ LockFrame(p)
    BY <2>1 DEF IInv, Typed, FsTyped, LockFrame
  <2>3. CacheInv'
    BY <2>1, SameCache
  <2> QED
    BY <2>1, <2>2, <2>3, FailIInv
<1>2. CASE ~WantsParent(p)
  BY <1>2, NamexFoundIInv DEF NamexEnds
<1> QED
  BY <1>1, <1>2

\* nameiparent() stops one element early, in a directory.
LEMMA NamexParentIInv ==
  ASSUME IInv, NEW p \in Proc, At(p, "namex"), args[p].path # <<>>, WantsParent(p), Ilock(dp[p]),
         args' = [args EXCEPT ![p].name = Skipelem(args[p].path), ![p].path = <<>>],
         Goto(p, "parent"), Load(dp[p]),
         UNCHANGED <<ref, dp, puts, disk, lock, owned, ip, phase>>
  PROVE  IInv'
<1>0. /\ pc[p] = "namex" /\ puts[p] = <<>> /\ panicked = "no" /\ args[p].path # <<>>
      /\ args' = [args EXCEPT ![p].name = Head(args[p].path), ![p].path = <<>>]
      /\ pc' = [pc EXCEPT ![p] = "parent"] /\ WantsParent(p)
      /\ Ilock(dp[p]) /\ Load(dp[p])
      /\ dinode' = dinode /\ entries' = entries /\ lock' = lock /\ ref' = ref
      /\ cwd' = cwd /\ file' = file /\ dp' = dp /\ ip' = ip /\ puts' = puts /\ phase' = phase
  BY DEF At, Goto, disk, owned, Skipelem
<1>1. panicked = "no" /\ FsTyped /\ ProcTyped /\ Place(p) /\ Freeing(p)
  BY <1>0 DEF IInv, Typed
<1>2. dp[p] \in Inum /\ phase[p] = "lock"
  BY <1>0, <1>1, NullInum DEF Place, DpPC, IpPC, DpLocked, IpLocked, ProcTyped
<1>3. /\ lock[dp[p]] = NoProc /\ valid' \in [Inum -> BOOLEAN] /\ valid'[dp[p]]
      /\ \A j \in Inum : (valid[j] => valid'[j]) /\ (valid'[j] => valid[j] \/ j = dp[p])
      /\ panicked' = "no" => LockPanic(dp[p]) = "no"
  BY <1>0, <1>1, <1>2, IlockFacts DEF Typed
<1>4. CacheInv' /\ inode' \in [Inum -> Dinode]
  BY <1>0, <1>1, <1>2, <1>3, LoadCache
<1>5. /\ dp'[p] = dp[p] /\ ip'[p] = ip[p] /\ cwd'[p] = cwd[p] /\ file'[p] = file[p]
      /\ puts'[p] = puts[p] /\ pc'[p] = "parent" /\ args'[p].call = args[p].call /\ phase'[p] = phase[p]
  BY <1>0, <1>1, <1>2 DEF ProcTyped, Arg
<1>6. FsTyped'
  BY <1>0, <1>1, <1>2, <1>3, <1>4 DEF FsTyped
<1>7. ProcTyped'
  <2>1. args' \in [Proc -> Arg]
    <3>1. args \in [Proc -> Arg] /\ args[p].path \in Seq(Elem)
      BY <1>1 DEF ProcTyped, Arg
    <3>2. args' = [args EXCEPT ![p].name = Head(args[p].path), ![p].path = <<>>]
      BY <1>0
    <3>3. Head(args[p].path) \in Elem /\ <<>> \in Seq(Elem)
      BY <1>0, <3>1
    <3> QED
      BY <3>1, <3>2, <3>3 DEF Arg
  <2> QED
    BY <1>0, <1>1, <2>1 DEF ProcTyped, PC
<1>8. Others(p)
  BY <1>0, <1>1 DEF Others, ProcTyped
<1>9. LockFrame(p)
  BY <1>0, <1>1, <1>2, <1>3, InodeAssumption DEF LockFrame, FsTyped
<1>10. CacheInv'
  BY <1>4
<1>11. ASSUME NEW i \in Inum PROVE ref'[i] + Slots(p, i) = ref[i] + Slots(p, i)'
  <2>1. puts'[p] = puts[p]
    BY <1>2, <1>5, InNone, InOne
  <2>2. ref[i] \in Nat /\ ref'[i] = ref[i]
    BY <1>0, <1>1 DEF FsTyped
  <2> QED
    BY <1>2, <1>5, <2>1, <2>2, NullInum DEF Slots, One
<1>12. panicked' = "no" => Place(p)' /\ Freeing(p)'
  BY <1>0, <1>1, <1>2, <1>3, <1>5, NullInum
     DEF Place, Freeing, DpPC, IpPC, DpLocked, IpLocked, WantsParent, FsTyped
<1>13. panicked' = "no" => ParentInv'
  <2>1. \A q \in Proc : phase[q] = "free" => Head(puts[q]) # dp[p]
    BY <1>0, <1>3, InodeAssumption DEF IInv, Freeing
  <2>2. ParentInv
    BY <1>0 DEF IInv
  <2> QED
    BY <1>0, <1>2, <1>5, <1>8, <2>1, <2>2 DEF ParentInv, Others
<1> QED
  BY <1>1, <1>6, <1>7, <1>8, <1>9, <1>10, <1>11, <1>12, <1>13, StepIInv DEF Typed

\* namex() goes from one directory to the next.
LEMMA NamexNextIInv ==
  ASSUME IInv, NEW p \in Proc, At(p, "namex"), args[p].path # <<>>, NEW next \in Inum,
         Iget(next, {dp[p]}), args' = [args EXCEPT ![p].path = Tail(@)],
         dp' = [dp EXCEPT ![p] = next], Put(p, <<dp[p]>>), Goto(p, "namex"), Load(dp[p]),
         UNCHANGED <<disk, lock, owned, ip, phase>>
  PROVE  IInv'
<1>0. /\ pc[p] = "namex" /\ puts[p] = <<>> /\ panicked = "no" /\ args[p].path # <<>>
      /\ args' = [args EXCEPT ![p].path = Tail(args[p].path)]
      /\ pc' = [pc EXCEPT ![p] = "namex"] /\ dp' = [dp EXCEPT ![p] = next]
      /\ Iget(next, {dp[p]}) /\ Load(dp[p]) /\ puts' = [puts EXCEPT ![p] = <<dp[p]>>]
      /\ dinode' = dinode /\ entries' = entries /\ lock' = lock
      /\ cwd' = cwd /\ file' = file /\ ip' = ip /\ phase' = phase
  BY DEF At, Goto, disk, owned, Put
<1>1. panicked = "no" /\ FsTyped /\ ProcTyped /\ Place(p) /\ Freeing(p)
  BY <1>0 DEF IInv, Typed
<1>2. dp[p] \in Inum /\ phase[p] = "lock" /\ puts[p] = <<>>
  BY <1>0, <1>1, NullInum DEF Place, DpPC, IpPC, DpLocked, IpLocked, ProcTyped
<1>3. /\ ref' \in [Inum -> Nat] /\ valid' \in [Inum -> BOOLEAN]
      /\ \A j \in Inum :
           /\ ref'[j] = ref[j] + One(j = next)
           /\ valid[j] /\ ref[j] >= 1 => valid'[j]
           /\ valid'[j] => valid[j] \/ j = dp[p]
      /\ valid'[dp[p]] /\ (panicked' = "no" => LockPanic(dp[p]) = "no")
  BY <1>0, <1>1, <1>2, IgetFacts DEF Typed
<1>4. CacheInv' /\ inode' \in [Inum -> Dinode]
  BY <1>0, <1>1, <1>2, <1>3, LoadCache
<1>5. /\ dp'[p] = next /\ ip'[p] = ip[p] /\ cwd'[p] = cwd[p] /\ file'[p] = file[p]
      /\ puts'[p] = <<dp[p]>> /\ pc'[p] = "namex" /\ args'[p].call = args[p].call /\ phase'[p] = phase[p]
  BY <1>0, <1>1, <1>2 DEF ProcTyped, Arg
<1>6. FsTyped'
  BY <1>0, <1>1, <1>2, <1>3, <1>4 DEF FsTyped
<1>7. ProcTyped'
  <2>1. args' \in [Proc -> Arg]
    <3>1. args \in [Proc -> Arg] /\ args[p].path \in Seq(Elem)
      BY <1>1 DEF ProcTyped, Arg
    <3>2. args' = [args EXCEPT ![p].path = Tail(args[p].path)]
      BY <1>0
    <3>3. Tail(args[p].path) \in Seq(Elem)
      BY <1>0, <3>1
    <3> QED
      BY <3>1, <3>2, <3>3 DEF Arg
  <2>2. <<dp[p]>> \in Seq(Inum) /\ Len(<<dp[p]>>) <= 2
    BY <1>2
  <2> QED
    BY <1>0, <1>1, <2>1, <2>2 DEF ProcTyped, PC
<1>8. Others(p)
  BY <1>0, <1>1 DEF Others, ProcTyped
<1>9. LockFrame(p)
  BY <1>0, <1>1, <1>2, <1>3, InodeAssumption DEF LockFrame, FsTyped
<1>10. CacheInv'
  BY <1>4
<1>11. ASSUME NEW i \in Inum PROVE ref'[i] + Slots(p, i) = ref[i] + Slots(p, i)'
  <2>1. /\ In(puts[p], 1, i) = 0 /\ In(puts[p], 2, i) = 0
        /\ In(puts'[p], 1, i) = One(dp[p] = i) /\ In(puts'[p], 2, i) = 0
    BY <1>2, <1>5, InNone, InOne
  <2>2. ref[i] \in Nat /\ ref'[i] = ref[i] + One(i = next)
    BY <1>0, <1>1, <1>3 DEF FsTyped
  <2> QED
    BY <1>2, <1>5, <2>1, <2>2, NullInum DEF Slots, One
<1>12. panicked' = "no" => Place(p)' /\ Freeing(p)'
  BY <1>0, <1>1, <1>2, <1>3, <1>5, NullInum
     DEF Place, Freeing, DpPC, IpPC, DpLocked, IpLocked, WantsParent, FsTyped
<1>13. panicked' = "no" => ParentInv'
  BY <1>0, <1>1, <1>2, <1>5, <1>8, ParentStays
<1> QED
  BY <1>1, <1>6, <1>7, <1>8, <1>9, <1>10, <1>11, <1>12, <1>13, StepIInv DEF Typed

\* What ilock() does to the cache does not depend on how the caller goes on.
LEMMA IlockFails ==
  ASSUME IInv, NEW p \in Proc, panicked = "no", puts[p] = <<>>,
         pc[p] \in {"namex", "found", "parent"}, Ilock(dp[p]), Load(dp[p]), Fail(p, dp[p]),
         UNCHANGED <<disk, ref, lock, owned, ip, phase>>
  PROVE  IInv'
<1>1. dp[p] \in Inum /\ FsTyped /\ Typed
  BY DEF IInv, Typed, ProcTyped, Place, DpPC
<1>2. /\ dinode' = dinode /\ entries' = entries /\ ref' = ref /\ lock' = lock
      /\ cwd' = cwd /\ file' = file /\ ip' = ip /\ phase' = phase
  BY DEF disk, owned
<1>3. /\ valid' \in [Inum -> BOOLEAN]
      /\ \A j \in Inum : (valid[j] => valid'[j]) /\ (valid'[j] => valid[j] \/ j = dp[p])
      /\ panicked' = "no" => LockPanic(dp[p]) = "no"
  BY <1>1, IlockFacts
<1>4. CacheInv' /\ inode' \in [Inum -> Dinode]
  BY <1>1, <1>2, <1>3, LoadCache
<1>5. FsTyped' /\ LockFrame(p)
  BY <1>1, <1>2, <1>3, <1>4 DEF FsTyped, LockFrame
<1> QED
  BY <1>2, <1>4, <1>5, FailIInv

\* namex(): one path element.
LEMMA NamexStepIInv ==
  ASSUME IInv, NEW p \in Proc, NamexStep(p)
  PROVE  IInv'
<1> DEFINE next == Dirlookup(dp[p], Skipelem(args[p].path))
<1>1. At(p, "namex") /\ args[p].path # <<>> /\ Load(dp[p]) /\ panicked = "no"
      /\ pc[p] = "namex" /\ puts[p] = <<>> /\ UNCHANGED <<disk, lock, owned, ip, phase>>
  BY DEF NamexStep, At
<1>2. \/ /\ WantsParent(p) /\ Ilock(dp[p])
         /\ args' = [args EXCEPT ![p].name = Skipelem(args[p].path), ![p].path = <<>>]
         /\ Goto(p, "parent") /\ UNCHANGED <<ref, dp, puts>>
      \/ /\ next # Null /\ Iget(next, {dp[p]})
         /\ args' = [args EXCEPT ![p].path = Tail(@)]
         /\ dp' = [dp EXCEPT ![p] = next] /\ Put(p, <<dp[p]>>) /\ Goto(p, "namex")
      \/ Ilock(dp[p]) /\ Fail(p, dp[p]) /\ UNCHANGED ref
  BY DEF NamexStep
<1>3. next \in Inum \cup {Null}
  <2>1. dp[p] \in Inum /\ entries \in [Inum -> [Elem -> Inum \cup {Null}]] /\ args[p].path \in Seq(Elem)
    BY <1>1 DEF IInv, Typed, FsTyped, ProcTyped, Place, DpPC, Arg
  <2>2. Skipelem(args[p].path) \in Elem
    BY <1>1, <2>1 DEF Skipelem
  <2> QED
    BY <2>1, <2>2 DEF Dirlookup
<1> HIDE DEF next
<1>4. CASE Ilock(dp[p]) /\ Fail(p, dp[p]) /\ UNCHANGED ref
  BY <1>1, <1>4, IlockFails DEF disk, owned
<1>5. CASE /\ WantsParent(p) /\ Ilock(dp[p])
           /\ args' = [args EXCEPT ![p].name = Skipelem(args[p].path), ![p].path = <<>>]
           /\ Goto(p, "parent") /\ UNCHANGED <<ref, dp, puts>>
  BY <1>1, <1>5, NamexParentIInv DEF disk, owned
<1>6. CASE /\ next # Null /\ Iget(next, {dp[p]})
           /\ args' = [args EXCEPT ![p].path = Tail(@)]
           /\ dp' = [dp EXCEPT ![p] = next] /\ Put(p, <<dp[p]>>) /\ Goto(p, "namex")
  BY <1>1, <1>3, <1>6, NamexNextIInv
<1> QED
  BY <1>2, <1>4, <1>5, <1>6

-----------------------------------------------------------------------------
(***************************************************************************)
(* open(), chdir(), and the use of an open file                            *)
(***************************************************************************)
\* open() of a file that exists.
LEMMA OpenIInv ==
  ASSUME IInv, NEW p \in Proc, NEW ok \in BOOLEAN, Open(p, ok)
  PROVE  IInv'
<1>0. /\ pc[p] = "found" /\ puts[p] = <<>> /\ panicked = "no" /\ args[p].call = "open"
      /\ Ilock(dp[p]) /\ Load(dp[p])
      /\ file' = [file EXCEPT ![p] = IF ok THEN dp[p] ELSE file[p]]
      /\ puts' = [puts EXCEPT ![p] = IF ok THEN <<>> ELSE <<dp[p]>>]
      /\ pc' = [pc EXCEPT ![p] = "idle"] /\ args' = [args EXCEPT ![p] = NoArgs]
      /\ dp' = [dp EXCEPT ![p] = Null]
      /\ dinode' = dinode /\ entries' = entries /\ lock' = lock /\ ref' = ref
      /\ cwd' = cwd /\ ip' = ip /\ phase' = phase
  BY DEF Open, Opened, Put, Return, At, Goto, disk
<1>1. panicked = "no" /\ FsTyped /\ ProcTyped /\ Place(p) /\ Freeing(p)
  BY <1>0 DEF IInv, Typed
<1>2. dp[p] \in Inum /\ phase[p] = "lock" /\ puts[p] = <<>> /\ ip[p] = Null /\ file[p] = Null
  BY <1>0, <1>1, NullInum DEF Place, DpPC, IpPC, DpLocked, IpLocked, ProcTyped
<1>3. /\ lock[dp[p]] = NoProc /\ valid' \in [Inum -> BOOLEAN] /\ valid'[dp[p]]
      /\ \A j \in Inum : (valid[j] => valid'[j]) /\ (valid'[j] => valid[j] \/ j = dp[p])
      /\ panicked' = "no" => LockPanic(dp[p]) = "no"
  BY <1>0, <1>1, <1>2, IlockFacts DEF Typed
<1>4. CacheInv' /\ inode' \in [Inum -> Dinode]
  BY <1>0, <1>1, <1>2, <1>3, LoadCache
<1>5a. NoArgs.call = "none"
  BY DEF NoArgs
<1>5. /\ dp'[p] = Null /\ ip'[p] = Null /\ cwd'[p] = cwd[p] /\ file'[p] = (IF ok THEN dp[p] ELSE Null)
      /\ puts'[p] = (IF ok THEN <<>> ELSE <<dp[p]>>) /\ pc'[p] = "idle" /\ args'[p].call = "none" /\ phase'[p] = "lock"
  BY <1>0, <1>1, <1>2, <1>5a DEF ProcTyped
<1>6. FsTyped'
  BY <1>0, <1>1, <1>2, <1>3, <1>4 DEF FsTyped
<1>7. ProcTyped'
  <2>1. NoArgs \in Arg
    BY EmptySeq DEF NoArgs, Arg, Elem
  <2>2. <<dp[p]>> \in Seq(Inum) /\ Len(<<dp[p]>>) <= 2 /\ <<>> \in Seq(Inum) /\ Len(<<>>) <= 2
    BY <1>2, EmptySeq
  <2> QED
    BY <1>0, <1>1, <1>2, <2>1, <2>2 DEF ProcTyped, PC
<1>8. Others(p)
  BY <1>0, <1>1 DEF Others, ProcTyped
<1>9. LockFrame(p)
  BY <1>0, <1>1, <1>2, <1>3, InodeAssumption DEF LockFrame, FsTyped
<1>10. CacheInv'
  BY <1>4
<1>11. ASSUME NEW i \in Inum PROVE ref'[i] + Slots(p, i) = ref[i] + Slots(p, i)'
  <2>1. /\ In(puts[p], 1, i) = 0 /\ In(puts[p], 2, i) = 0
        /\ In(puts'[p], 1, i) = (IF ok THEN 0 ELSE One(dp[p] = i)) /\ In(puts'[p], 2, i) = 0
    BY <1>2, <1>5, InNone, InOne
  <2>2. ref[i] \in Nat /\ ref'[i] = ref[i]
    BY <1>0, <1>1 DEF FsTyped
  <2> QED
    BY <1>2, <1>5, <2>1, <2>2, NullInum DEF Slots, One
<1>12. panicked' = "no" => Place(p)' /\ Freeing(p)'
  BY <1>0, <1>1, <1>2, <1>3, <1>5, NullInum
     DEF Place, Freeing, DpPC, IpPC, DpLocked, IpLocked, WantsParent, FsTyped
<1>13. panicked' = "no" => ParentInv'
  BY <1>0, <1>1, <1>2, <1>5, <1>8, ParentStays
<1> QED
  BY <1>1, <1>6, <1>7, <1>8, <1>9, <1>10, <1>11, <1>12, <1>13, StepIInv DEF Typed

\* open(O_CREATE) and mkdir() of a name that exists.
LEMMA CreateExistsIInv ==
  ASSUME IInv, NEW p \in Proc, NEW ok \in BOOLEAN, CreateExists(p, ok)
  PROVE  IInv'
<1>0. /\ pc[p] = "exists" /\ puts[p] = <<>> /\ panicked = "no"
      /\ ok => args[p].call = "creat"
      /\ Ilock(ip[p]) /\ Load(ip[p])
      /\ file' = [file EXCEPT ![p] = IF ok THEN ip[p] ELSE file[p]]
      /\ puts' = [puts EXCEPT ![p] = IF ok THEN <<>> ELSE <<ip[p]>>]
      /\ pc' = [pc EXCEPT ![p] = "idle"] /\ args' = [args EXCEPT ![p] = NoArgs]
      /\ ip' = [ip EXCEPT ![p] = Null]
      /\ dinode' = dinode /\ entries' = entries /\ lock' = lock /\ ref' = ref
      /\ cwd' = cwd /\ dp' = dp /\ phase' = phase
  BY DEF CreateExists, Opened, Put, Return, At, Goto, disk
<1>1. panicked = "no" /\ FsTyped /\ ProcTyped /\ Place(p) /\ Freeing(p)
  BY <1>0 DEF IInv, Typed
<1>2. /\ ip[p] \in Inum /\ phase[p] = "lock" /\ puts[p] = <<>> /\ dp[p] = Null
      /\ ok => file[p] = Null
  BY <1>0, <1>1, NullInum DEF Place, DpPC, IpPC, DpLocked, IpLocked, ProcTyped
<1>3. /\ lock[ip[p]] = NoProc /\ valid' \in [Inum -> BOOLEAN] /\ valid'[ip[p]]
      /\ \A j \in Inum : (valid[j] => valid'[j]) /\ (valid'[j] => valid[j] \/ j = ip[p])
      /\ panicked' = "no" => LockPanic(ip[p]) = "no"
  BY <1>0, <1>1, <1>2, IlockFacts DEF Typed
<1>4. CacheInv' /\ inode' \in [Inum -> Dinode]
  BY <1>0, <1>1, <1>2, <1>3, LoadCache
<1>5a. NoArgs.call = "none"
  BY DEF NoArgs
<1>5. /\ dp'[p] = Null /\ ip'[p] = Null /\ cwd'[p] = cwd[p] /\ file'[p] = (IF ok THEN ip[p] ELSE file[p])
      /\ puts'[p] = (IF ok THEN <<>> ELSE <<ip[p]>>) /\ pc'[p] = "idle" /\ args'[p].call = "none" /\ phase'[p] = "lock"
  BY <1>0, <1>1, <1>2, <1>5a DEF ProcTyped
<1>6. FsTyped'
  BY <1>0, <1>1, <1>2, <1>3, <1>4 DEF FsTyped
<1>7. ProcTyped'
  <2>1. NoArgs \in Arg
    BY EmptySeq DEF NoArgs, Arg, Elem
  <2>2. <<ip[p]>> \in Seq(Inum) /\ Len(<<ip[p]>>) <= 2 /\ <<>> \in Seq(Inum) /\ Len(<<>>) <= 2
    BY <1>2, EmptySeq
  <2> QED
    BY <1>0, <1>1, <1>2, <2>1, <2>2 DEF ProcTyped, PC
<1>8. Others(p)
  BY <1>0, <1>1 DEF Others, ProcTyped
<1>9. LockFrame(p)
  BY <1>0, <1>1, <1>2, <1>3, InodeAssumption DEF LockFrame, FsTyped
<1>10. CacheInv'
  BY <1>4
<1>11. ASSUME NEW i \in Inum PROVE ref'[i] + Slots(p, i) = ref[i] + Slots(p, i)'
  <2>1. /\ In(puts[p], 1, i) = 0 /\ In(puts[p], 2, i) = 0
        /\ In(puts'[p], 1, i) = (IF ok THEN 0 ELSE One(ip[p] = i)) /\ In(puts'[p], 2, i) = 0
    BY <1>2, <1>5, InNone, InOne
  <2>2. ref[i] \in Nat /\ ref'[i] = ref[i]
    BY <1>0, <1>1 DEF FsTyped
  <2> QED
    BY <1>2, <1>5, <2>1, <2>2, NullInum DEF Slots, One
<1>12. panicked' = "no" => Place(p)' /\ Freeing(p)'
  BY <1>0, <1>1, <1>2, <1>3, <1>5, NullInum
     DEF Place, Freeing, DpPC, IpPC, DpLocked, IpLocked, WantsParent, FsTyped
<1>13. panicked' = "no" => ParentInv'
  BY <1>0, <1>1, <1>2, <1>5, <1>8, ParentStays
<1> QED
  BY <1>1, <1>6, <1>7, <1>8, <1>9, <1>10, <1>11, <1>12, <1>13, StepIInv DEF Typed

\* The end of create(): open() keeps the new inode, mkdir() puts it.
LEMMA CreatedIInv ==
  ASSUME IInv, NEW p \in Proc, NEW ok \in BOOLEAN, Created(p, ok)
  PROVE  IInv'
<1>0. /\ pc[p] = "created" /\ puts[p] = <<>> /\ panicked = "no"
      /\ ok => args[p].call = "creat"
      /\ file' = [file EXCEPT ![p] = IF ok THEN ip[p] ELSE file[p]]
      /\ puts' = [puts EXCEPT ![p] = IF ok THEN <<>> ELSE <<ip[p]>>]
      /\ pc' = [pc EXCEPT ![p] = "idle"] /\ args' = [args EXCEPT ![p] = NoArgs]
      /\ ip' = [ip EXCEPT ![p] = Null] /\ lock' = [lock EXCEPT ![ip[p]] = NoProc]
      /\ dinode' = dinode /\ entries' = entries /\ inode' = inode /\ ref' = ref
      /\ valid' = valid /\ panicked' = panicked
      /\ cwd' = cwd /\ dp' = dp /\ phase' = phase
  BY DEF Created, Opened, Put, Return, At, Goto, disk, Unlocked
<1>1. panicked = "no" /\ FsTyped /\ ProcTyped /\ Place(p) /\ Freeing(p)
  BY <1>0 DEF IInv, Typed
<1>2. /\ ip[p] \in Inum /\ phase[p] = "lock" /\ puts[p] = <<>> /\ dp[p] = Null
      /\ (ok => file[p] = Null) /\ lock[ip[p]] = p
  BY <1>0, <1>1, NullInum DEF Place, DpPC, IpPC, DpLocked, IpLocked, ProcTyped
<1>5a. NoArgs.call = "none"
  BY DEF NoArgs
<1>5. /\ dp'[p] = Null /\ ip'[p] = Null /\ cwd'[p] = cwd[p] /\ file'[p] = (IF ok THEN ip[p] ELSE file[p])
      /\ puts'[p] = (IF ok THEN <<>> ELSE <<ip[p]>>) /\ pc'[p] = "idle" /\ args'[p].call = "none" /\ phase'[p] = "lock"
  BY <1>0, <1>1, <1>2, <1>5a DEF ProcTyped
<1>6. FsTyped'
  BY <1>0, <1>1, <1>2 DEF FsTyped
<1>7. ProcTyped'
  <2>1. NoArgs \in Arg
    BY EmptySeq DEF NoArgs, Arg, Elem
  <2>2. <<ip[p]>> \in Seq(Inum) /\ Len(<<ip[p]>>) <= 2 /\ <<>> \in Seq(Inum) /\ Len(<<>>) <= 2
    BY <1>2, EmptySeq
  <2> QED
    BY <1>0, <1>1, <1>2, <2>1, <2>2 DEF ProcTyped, PC
<1>8. Others(p)
  BY <1>0, <1>1 DEF Others, ProcTyped
<1>9. LockFrame(p)
  BY <1>0, <1>1, <1>2, InodeAssumption DEF LockFrame, FsTyped
<1>10. CacheInv'
  BY <1>0, <1>1, SameCache
<1>11. ASSUME NEW i \in Inum PROVE ref'[i] + Slots(p, i) = ref[i] + Slots(p, i)'
  <2>1. /\ In(puts[p], 1, i) = 0 /\ In(puts[p], 2, i) = 0
        /\ In(puts'[p], 1, i) = (IF ok THEN 0 ELSE One(ip[p] = i)) /\ In(puts'[p], 2, i) = 0
    BY <1>2, <1>5, InNone, InOne
  <2>2. ref[i] \in Nat /\ ref'[i] = ref[i]
    BY <1>0, <1>1 DEF FsTyped
  <2> QED
    BY <1>2, <1>5, <2>1, <2>2, NullInum DEF Slots, One
<1>12. panicked' = "no" => Place(p)' /\ Freeing(p)'
  BY <1>0, <1>1, <1>2, <1>5, NullInum
     DEF Place, Freeing, DpPC, IpPC, DpLocked, IpLocked, WantsParent, FsTyped
<1>13. panicked' = "no" => ParentInv'
  BY <1>0, <1>1, <1>2, <1>5, <1>8, ParentStays
<1> QED
  BY <1>1, <1>6, <1>7, <1>8, <1>9, <1>10, <1>11, <1>12, <1>13, StepIInv DEF Typed

\* chdir(): the old current directory is put, or the new one.
LEMMA ChdirIInv ==
  ASSUME IInv, NEW p \in Proc, Chdir(p)
  PROVE  IInv'
<1> DEFINE ok == Loaded(dp[p]).type = "dir"
<1>0. /\ pc[p] = "found" /\ puts[p] = <<>> /\ panicked = "no" /\ args[p].call = "chdir"
      /\ Ilock(dp[p]) /\ Load(dp[p])
      /\ cwd' = [cwd EXCEPT ![p] = IF ok THEN dp[p] ELSE @]
      /\ puts' = [puts EXCEPT ![p] = <<IF ok THEN cwd[p] ELSE dp[p]>>]
      /\ pc' = [pc EXCEPT ![p] = "idle"] /\ args' = [args EXCEPT ![p] = NoArgs]
      /\ dp' = [dp EXCEPT ![p] = Null]
      /\ dinode' = dinode /\ entries' = entries /\ lock' = lock /\ ref' = ref
      /\ file' = file /\ ip' = ip /\ phase' = phase
  BY DEF Chdir, Put, Return, At, Goto, disk
<1> HIDE DEF ok
<1>1. panicked = "no" /\ FsTyped /\ ProcTyped /\ Place(p) /\ Freeing(p)
  BY <1>0 DEF IInv, Typed
<1>2. dp[p] \in Inum /\ cwd[p] \in Inum /\ phase[p] = "lock" /\ puts[p] = <<>> /\ ip[p] = Null
  BY <1>0, <1>1, NullInum DEF Place, DpPC, IpPC, DpLocked, IpLocked, ProcTyped
<1>3. /\ lock[dp[p]] = NoProc /\ valid' \in [Inum -> BOOLEAN] /\ valid'[dp[p]]
      /\ \A j \in Inum : (valid[j] => valid'[j]) /\ (valid'[j] => valid[j] \/ j = dp[p])
      /\ panicked' = "no" => LockPanic(dp[p]) = "no"
  BY <1>0, <1>1, <1>2, IlockFacts DEF Typed
<1>4. CacheInv' /\ inode' \in [Inum -> Dinode]
  BY <1>0, <1>1, <1>2, <1>3, LoadCache
<1>5a. NoArgs.call = "none"
  BY DEF NoArgs
<1>5. /\ dp'[p] = Null /\ ip'[p] = Null /\ file'[p] = file[p]
      /\ cwd'[p] = (IF ok THEN dp[p] ELSE cwd[p]) /\ puts'[p] = <<IF ok THEN cwd[p] ELSE dp[p]>>
      /\ pc'[p] = "idle" /\ args'[p].call = "none" /\ phase'[p] = "lock"
  BY <1>0, <1>1, <1>2, <1>5a DEF ProcTyped
<1>6. FsTyped'
  BY <1>0, <1>1, <1>2, <1>3, <1>4 DEF FsTyped
<1>7. ProcTyped'
  <2>1. NoArgs \in Arg
    BY EmptySeq DEF NoArgs, Arg, Elem
  <2>2. /\ <<IF ok THEN cwd[p] ELSE dp[p]>> \in Seq(Inum)
        /\ Len(<<IF ok THEN cwd[p] ELSE dp[p]>>) <= 2
    BY <1>2
  <2> QED
    BY <1>0, <1>1, <1>2, <2>1, <2>2 DEF ProcTyped, PC
<1>8. Others(p)
  BY <1>0, <1>1 DEF Others, ProcTyped
<1>9. LockFrame(p)
  BY <1>0, <1>1, <1>2, <1>3, InodeAssumption DEF LockFrame, FsTyped
<1>10. CacheInv'
  BY <1>4
<1>11. ASSUME NEW i \in Inum PROVE ref'[i] + Slots(p, i) = ref[i] + Slots(p, i)'
  <2>1. /\ In(puts[p], 1, i) = 0 /\ In(puts[p], 2, i) = 0
        /\ In(puts'[p], 1, i) = One((IF ok THEN cwd[p] ELSE dp[p]) = i) /\ In(puts'[p], 2, i) = 0
    BY <1>2, <1>5, InNone, InOne
  <2>2. ref[i] \in Nat /\ ref'[i] = ref[i]
    BY <1>0, <1>1 DEF FsTyped
  <2> QED
    BY <1>2, <1>5, <2>1, <2>2, NullInum DEF Slots, One
<1>12. panicked' = "no" => Place(p)' /\ Freeing(p)'
  BY <1>0, <1>1, <1>2, <1>3, <1>5, NullInum
     DEF Place, Freeing, DpPC, IpPC, DpLocked, IpLocked, WantsParent, FsTyped
<1>13. panicked' = "no" => ParentInv'
  BY <1>0, <1>1, <1>2, <1>5, <1>8, ParentStays
<1> QED
  BY <1>1, <1>6, <1>7, <1>8, <1>9, <1>10, <1>11, <1>12, <1>13, StepIInv DEF Typed

\* read(), write() and fstat() of an open file.
LEMMA UseFileIInv ==
  ASSUME IInv, NEW p \in Proc, UseFile(p)
  PROVE  IInv'
<1>0. /\ pc[p] = "idle" /\ puts[p] = <<>> /\ panicked = "no" /\ file[p] # Null
      /\ Ilock(file[p]) /\ Load(file[p])
      /\ dinode' = dinode /\ entries' = entries /\ lock' = lock /\ ref' = ref
      /\ cwd' = cwd /\ file' = file /\ pc' = pc /\ args' = args /\ dp' = dp /\ ip' = ip /\ puts' = puts /\ phase' = phase
  BY DEF UseFile, At, disk, owned
<1>1. panicked = "no" /\ FsTyped /\ ProcTyped /\ Place(p) /\ Freeing(p)
  BY <1>0 DEF IInv, Typed
<1>2. file[p] \in Inum
  BY <1>0, <1>1, NullInum DEF Place, DpPC, IpPC, DpLocked, IpLocked, ProcTyped
<1>3. /\ lock[file[p]] = NoProc /\ valid' \in [Inum -> BOOLEAN] /\ valid'[file[p]]
      /\ \A j \in Inum : (valid[j] => valid'[j]) /\ (valid'[j] => valid[j] \/ j = file[p])
      /\ panicked' = "no" => LockPanic(file[p]) = "no"
  BY <1>0, <1>1, <1>2, IlockFacts DEF Typed
<1>4. CacheInv' /\ inode' \in [Inum -> Dinode]
  BY <1>0, <1>1, <1>2, <1>3, LoadCache
<1>5. /\ dp'[p] = dp[p] /\ ip'[p] = ip[p] /\ file'[p] = file[p] /\ cwd'[p] = cwd[p]
      /\ puts'[p] = puts[p] /\ pc'[p] = pc[p] /\ args'[p] = args[p] /\ phase'[p] = phase[p]
  BY <1>0, <1>1, <1>2 DEF ProcTyped
<1>6. FsTyped'
  BY <1>0, <1>1, <1>2, <1>3, <1>4 DEF FsTyped
<1>7. ProcTyped'
  BY <1>0, <1>1 DEF ProcTyped
<1>8. Others(p)
  BY <1>0, <1>1 DEF Others, ProcTyped
<1>9. LockFrame(p)
  BY <1>0, <1>1, <1>2, <1>3, InodeAssumption DEF LockFrame, FsTyped
<1>10. CacheInv'
  BY <1>4
<1>11. ASSUME NEW i \in Inum PROVE ref'[i] + Slots(p, i) = ref[i] + Slots(p, i)'
  <2>1. puts'[p] = puts[p]
    BY <1>2, <1>5, InNone, InOne
  <2>2. ref[i] \in Nat /\ ref'[i] = ref[i]
    BY <1>0, <1>1 DEF FsTyped
  <2> QED
    BY <1>2, <1>5, <2>1, <2>2, NullInum DEF Slots, One
<1>12. panicked' = "no" => Place(p)' /\ Freeing(p)'
  BY <1>0, <1>1, <1>2, <1>3, <1>5, NullInum
     DEF Place, Freeing, DpPC, IpPC, DpLocked, IpLocked, WantsParent, FsTyped
<1>13. panicked' = "no" => ParentInv'
  BY <1>0, <1>1, <1>2, <1>5, <1>8, ParentStays
<1> QED
  BY <1>1, <1>6, <1>7, <1>8, <1>9, <1>10, <1>11, <1>12, <1>13, StepIInv DEF Typed

\* close() of the open file.
LEMMA CloseFileIInv ==
  ASSUME IInv, NEW p \in Proc, CloseFile(p)
  PROVE  IInv'
<1>0. /\ pc[p] = "idle" /\ puts[p] = <<>> /\ panicked = "no" /\ file[p] # Null
      /\ puts' = [puts EXCEPT ![p] = <<file[p]>>] /\ file' = [file EXCEPT ![p] = Null]
      /\ dinode' = dinode /\ entries' = entries /\ lock' = lock /\ ref' = ref
      /\ valid' = valid /\ inode' = inode /\ panicked' = panicked
      /\ cwd' = cwd /\ pc' = pc /\ args' = args /\ dp' = dp /\ ip' = ip /\ phase' = phase
  BY DEF CloseFile, At, disk, icache, Put
<1>1. panicked = "no" /\ FsTyped /\ ProcTyped /\ Place(p) /\ Freeing(p)
  BY <1>0 DEF IInv, Typed
<1>2. file[p] \in Inum /\ puts[p] = <<>> /\ phase[p] = "lock"
  BY <1>0, <1>1, NullInum DEF Place, DpPC, IpPC, DpLocked, IpLocked, ProcTyped
<1>5. /\ dp'[p] = dp[p] /\ ip'[p] = ip[p] /\ file'[p] = Null /\ cwd'[p] = cwd[p]
      /\ puts'[p] = <<file[p]>> /\ pc'[p] = pc[p] /\ args'[p] = args[p] /\ phase'[p] = "lock"
  BY <1>0, <1>1, <1>2 DEF ProcTyped
<1>6. FsTyped'
  BY <1>0, <1>1 DEF FsTyped
<1>7. ProcTyped'
  <2>1. <<file[p]>> \in Seq(Inum) /\ Len(<<file[p]>>) <= 2
    BY <1>2
  <2> QED
    BY <1>0, <1>1, <1>2, <2>1 DEF ProcTyped
<1>8. Others(p)
  BY <1>0, <1>1 DEF Others, ProcTyped
<1>9. LockFrame(p)
  BY <1>0, <1>1, <1>2, InodeAssumption DEF LockFrame, FsTyped
<1>10. CacheInv'
  BY <1>0, <1>1, SameCache
<1>11. ASSUME NEW i \in Inum PROVE ref'[i] + Slots(p, i) = ref[i] + Slots(p, i)'
  <2>1. /\ In(puts[p], 1, i) = 0 /\ In(puts[p], 2, i) = 0
        /\ In(puts'[p], 1, i) = One(file[p] = i) /\ In(puts'[p], 2, i) = 0
    BY <1>2, <1>5, InNone, InOne
  <2>2. ref[i] \in Nat /\ ref'[i] = ref[i]
    BY <1>0, <1>1 DEF FsTyped
  <2> QED
    BY <1>2, <1>5, <2>1, <2>2, NullInum DEF Slots, One
<1>12. panicked' = "no" => Place(p)' /\ Freeing(p)'
  BY <1>0, <1>1, <1>2, <1>5, NullInum
     DEF Place, Freeing, DpPC, IpPC, DpLocked, IpLocked, WantsParent, FsTyped
<1>13. panicked' = "no" => ParentInv'
  BY <1>0, <1>1, <1>2, <1>5, <1>8, ParentStays
<1> QED
  BY <1>1, <1>6, <1>7, <1>8, <1>9, <1>10, <1>11, <1>12, <1>13, StepIInv DEF Typed

-----------------------------------------------------------------------------
(***************************************************************************)
(* create()                                                                *)
(***************************************************************************)
\* dirlookup() in the directory that nameiparent() returned.
LEMMA LookupType ==
  ASSUME IInv, panicked = "no", NEW p \in Proc, pc[p] = "parent"
  PROVE  dp[p] \in Inum /\ Dirlookup(dp[p], args[p].name) \in Inum \cup {Null}
<1>1. dp[p] \in Inum
  BY DEF IInv, Typed, ProcTyped, Place, DpPC
<1>2. args[p].name \in Elem /\ entries \in [Inum -> [Elem -> Inum \cup {Null}]]
  BY DEF IInv, Typed, FsTyped, ProcTyped, Arg
<1> QED
  BY <1>1, <1>2 DEF Dirlookup

\* create() finds the name.
LEMMA CreateFoundIInv ==
  ASSUME IInv, NEW p \in Proc, CreateFound(p)
  PROVE  IInv'
<1> DEFINE f == Dirlookup(dp[p], args[p].name)
<1>f. f \in Inum \cup {Null}
  BY LookupType DEF CreateFound, At
<1>0. /\ pc[p] = "parent" /\ puts[p] = <<>> /\ panicked = "no" /\ f # Null
      /\ args[p].call \in {"creat", "mkdir"}
      /\ Iget(f, {dp[p]}) /\ Load(dp[p])
      /\ ip' = [ip EXCEPT ![p] = f] /\ dp' = [dp EXCEPT ![p] = Null]
      /\ puts' = [puts EXCEPT ![p] = <<dp[p]>>] /\ pc' = [pc EXCEPT ![p] = "exists"]
      /\ dinode' = dinode /\ entries' = entries /\ lock' = lock
      /\ cwd' = cwd /\ file' = file /\ args' = args /\ phase' = phase
  BY DEF CreateFound, At, Put, Goto, disk, owned
<1> HIDE DEF f
<1>1. panicked = "no" /\ FsTyped /\ ProcTyped /\ Place(p) /\ Freeing(p)
  BY <1>0 DEF IInv, Typed
<1>2. dp[p] \in Inum /\ ip[p] = Null /\ puts[p] = <<>> /\ phase[p] = "lock"
  BY <1>0, <1>1, NullInum DEF Place, DpPC, IpPC, DpLocked, IpLocked, ProcTyped
<1>3. /\ ref' \in [Inum -> Nat] /\ valid' \in [Inum -> BOOLEAN]
      /\ \A j \in Inum :
           /\ ref'[j] = ref[j] + One(j = f)
           /\ valid[j] /\ ref[j] >= 1 => valid'[j]
           /\ valid'[j] => valid[j] \/ j = dp[p]
      /\ valid'[dp[p]] /\ (panicked' = "no" => LockPanic(dp[p]) = "no")
  BY <1>0, <1>1, <1>2, <1>f, IgetFacts DEF Typed
<1>4. CacheInv' /\ inode' \in [Inum -> Dinode]
  BY <1>0, <1>1, <1>2, <1>3, LoadCache
<1>5. /\ dp'[p] = Null /\ ip'[p] = f /\ cwd'[p] = cwd[p] /\ file'[p] = file[p]
      /\ puts'[p] = <<dp[p]>> /\ pc'[p] = "exists" /\ args'[p] = args[p] /\ phase'[p] = "lock"
  BY <1>0, <1>1, <1>2 DEF ProcTyped
<1>6. FsTyped'
  BY <1>0, <1>1, <1>2, <1>3, <1>4 DEF FsTyped
<1>7. ProcTyped'
  <2>1. <<dp[p]>> \in Seq(Inum) /\ Len(<<dp[p]>>) <= 2
    BY <1>2
  <2> QED
    BY <1>0, <1>1, <1>f, <2>1 DEF ProcTyped, PC
<1>8. Others(p)
  BY <1>0, <1>1 DEF Others, ProcTyped
<1>9. LockFrame(p)
  BY <1>0, <1>1, <1>2, <1>3, InodeAssumption DEF LockFrame, FsTyped
<1>10. CacheInv'
  BY <1>4
<1>11. ASSUME NEW i \in Inum PROVE ref'[i] + Slots(p, i) = ref[i] + Slots(p, i)'
  <2>1. /\ In(puts[p], 1, i) = 0 /\ In(puts[p], 2, i) = 0
        /\ In(puts'[p], 1, i) = One(dp[p] = i) /\ In(puts'[p], 2, i) = 0
    BY <1>2, <1>5, InNone, InOne
  <2>2. ref[i] \in Nat /\ ref'[i] = ref[i] + One(i = f)
    BY <1>0, <1>1, <1>3 DEF FsTyped
  <2> QED
    BY <1>2, <1>5, <2>1, <2>2, NullInum, <1>f, <1>0 DEF Slots, One
<1>12. panicked' = "no" => Place(p)' /\ Freeing(p)'
  BY <1>0, <1>1, <1>2, <1>3, <1>5, NullInum
     DEF Place, Freeing, DpPC, IpPC, DpLocked, IpLocked, WantsParent, FsTyped
<1>13. panicked' = "no" => ParentInv'
  BY <1>0, <1>1, <1>2, <1>5, <1>8, ParentStays
<1> QED
  BY <1>1, <1>6, <1>7, <1>8, <1>9, <1>10, <1>11, <1>12, <1>13, StepIInv DEF Typed

\* ialloc() takes the first free inode.
LEMMA FirstInum ==
  ASSUME NEW S \in SUBSET Inum, S # {}
  PROVE  (CHOOSE j \in S : \A k \in S : j <= k) \in S
<1>1. S \in SUBSET Nat
  BY InodeAssumption DEF Inum
<1>2. PICK i \in S : \A j \in S : <<j, i>> \notin OpToRel(<, Nat)
  BY <1>1, NatLessThanWellFounded, WFMin
<1>3. ASSUME NEW j \in S PROVE i <= j
  <2>1. i \in Nat /\ j \in Nat
    BY <1>1
  <2>2. ~(j < i)
    BY <1>2, <2>1 DEF OpToRel
  <2> QED
    BY <2>1, <2>2
<1> QED
  BY <1>3

\* ialloc() finds no free inode.
LEMMA IallocFullIInv ==
  ASSUME IInv, NEW p \in Proc, At(p, "parent"), args[p].call \in {"creat", "mkdir"},
         lock[dp[p]] = NoProc, lock' = [lock EXCEPT ![dp[p]] = p], Load(dp[p]),
         panicked' = "ialloc: no inodes", UNCHANGED <<dinode, ref, valid, ip>>,
         Goto(p, "create_new"), UNCHANGED <<entries, owned, args, dp, puts, phase>>
  PROVE  IInv'
<1>0. /\ pc[p] = "parent" /\ puts[p] = <<>> /\ panicked = "no"
      /\ lock' = [lock EXCEPT ![dp[p]] = p] /\ lock[dp[p]] = NoProc
      /\ Load(dp[p]) /\ pc' = [pc EXCEPT ![p] = "create_new"]
      /\ dinode' = dinode /\ entries' = entries /\ ref' = ref /\ valid' = valid
      /\ cwd' = cwd /\ file' = file /\ args' = args /\ dp' = dp /\ ip' = ip /\ puts' = puts /\ phase' = phase
  BY DEF At, Goto, owned
<1>1. panicked = "no" /\ FsTyped /\ ProcTyped /\ Place(p) /\ Freeing(p)
  BY <1>0 DEF IInv, Typed
<1>2. dp[p] \in Inum
  BY <1>0, <1>1, NullInum DEF Place, DpPC, IpPC, DpLocked, IpLocked, ProcTyped
<1>4. CacheInv' /\ inode' \in [Inum -> Dinode]
  BY <1>0, <1>1, <1>2, LoadCache
<1>5. /\ dp'[p] = dp[p] /\ ip'[p] = ip[p] /\ cwd'[p] = cwd[p] /\ file'[p] = file[p]
      /\ puts'[p] = puts[p] /\ phase'[p] = phase[p] /\ pc'[p] = "create_new"
  BY <1>0, <1>1, <1>2 DEF ProcTyped
<1>6. FsTyped'
  BY <1>0, <1>1, <1>2, <1>4 DEF FsTyped
<1>7. ProcTyped'
  BY <1>0, <1>1 DEF ProcTyped, PC
<1>8. Others(p)
  BY <1>0, <1>1 DEF Others, ProcTyped
<1>9. LockFrame(p)
  BY <1>0, <1>1, <1>2, InodeAssumption DEF LockFrame, FsTyped
<1>10. CacheInv'
  BY <1>4
<1>11. ASSUME NEW i \in Inum PROVE ref'[i] + Slots(p, i) = ref[i] + Slots(p, i)'
  <2>1. puts'[p] = puts[p]
    BY <1>2, <1>5, InNone, InOne
  <2>2. ref[i] \in Nat /\ ref'[i] = ref[i]
    BY <1>0, <1>1 DEF FsTyped
  <2> QED
    BY <1>2, <1>5, <2>1, <2>2, NullInum DEF Slots, One
<1>12. panicked' = "no" => Place(p)' /\ Freeing(p)'
  OBVIOUS
<1>13. panicked' = "no" => ParentInv'
  OBVIOUS
<1> QED
  BY <1>1, <1>6, <1>7, <1>8, <1>9, <1>10, <1>11, <1>12, <1>13, StepIInv DEF Typed

\* ialloc() marks the inode as allocated and gets it, with dp locked.
LEMMA IallocNewIInv ==
  ASSUME IInv, NEW p \in Proc, At(p, "parent"), args[p].call \in {"creat", "mkdir"},
         lock[dp[p]] = NoProc, lock' = [lock EXCEPT ![dp[p]] = p], Load(dp[p]),
         NEW f \in Inum, dinode[f].type = "free", NEW x \in Dinode, x.type # "free",
         dinode' = [dinode EXCEPT ![f] = x], Iget(f, {dp[p]}), ip' = [ip EXCEPT ![p] = f],
         Goto(p, "create_new"), UNCHANGED <<entries, owned, args, dp, puts, phase>>
  PROVE  IInv'
<1>0. /\ pc[p] = "parent" /\ puts[p] = <<>> /\ panicked = "no"
      /\ lock' = [lock EXCEPT ![dp[p]] = p] /\ lock[dp[p]] = NoProc
      /\ Load(dp[p]) /\ pc' = [pc EXCEPT ![p] = "create_new"] /\ ip' = [ip EXCEPT ![p] = f]
      /\ dinode' = [dinode EXCEPT ![f] = x] /\ entries' = entries /\ Iget(f, {dp[p]})
      /\ cwd' = cwd /\ file' = file /\ args' = args /\ dp' = dp /\ puts' = puts /\ phase' = phase
  BY DEF At, Goto, owned
<1>1. panicked = "no" /\ FsTyped /\ ProcTyped /\ Place(p) /\ Freeing(p)
  BY <1>0 DEF IInv, Typed
<1>2. /\ dp[p] \in Inum /\ ip[p] = Null /\ valid[dp[p]] /\ puts[p] = <<>> /\ phase[p] = "lock"
      /\ args[p].call \in {"creat", "mkdir"}
  BY <1>0, <1>1, NullInum DEF Place, DpPC, IpPC, DpLocked, IpLocked, ProcTyped
<1>3. /\ ref' \in [Inum -> Nat] /\ valid' \in [Inum -> BOOLEAN]
      /\ \A j \in Inum :
           /\ ref'[j] = ref[j] + One(j = f)
           /\ valid[j] /\ ref[j] >= 1 => valid'[j]
           /\ valid'[j] => valid[j] \/ j = dp[p]
      /\ valid'[dp[p]] /\ (panicked' = "no" => LockPanic(dp[p]) = "no")
  BY <1>0, <1>1, <1>2, IgetFacts DEF Typed
<1>4. CacheInv' /\ inode' \in [Inum -> Dinode]
  <2>1. Loaded(dp[p]) = dinode[dp[p]] /\ CacheInv
    BY <1>2, LoadedIsDisk DEF IInv
  <2>2. inode' = [inode EXCEPT ![dp[p]] = dinode[dp[p]]]
    BY <1>0, <2>1 DEF Load
  <2>3. ~valid[f] /\ f # dp[p]
    BY <1>0, <1>2, <2>1 DEF CacheInv
  <2> QED
    BY <1>0, <1>1, <1>2, <1>3, <2>1, <2>2, <2>3 DEF CacheInv, FsTyped
<1>5. /\ dp'[p] = dp[p] /\ ip'[p] = f /\ cwd'[p] = cwd[p] /\ file'[p] = file[p]
      /\ puts'[p] = puts[p] /\ phase'[p] = phase[p] /\ pc'[p] = "create_new" /\ args'[p] = args[p]
  BY <1>0, <1>1, <1>2 DEF ProcTyped
<1>6. FsTyped'
  BY <1>0, <1>1, <1>2, <1>3, <1>4 DEF FsTyped
<1>7. ProcTyped'
  BY <1>0, <1>1 DEF ProcTyped, PC
<1>8. Others(p)
  BY <1>0, <1>1 DEF Others, ProcTyped
<1>9. LockFrame(p)
  BY <1>0, <1>1, <1>2, <1>3, InodeAssumption DEF LockFrame, FsTyped
<1>10. CacheInv'
  BY <1>4
<1>11. ASSUME NEW i \in Inum PROVE ref'[i] + Slots(p, i) = ref[i] + Slots(p, i)'
  <2>1. In(puts[p], 1, i) = 0 /\ In(puts[p], 2, i) = 0 /\ puts'[p] = puts[p]
    BY <1>2, <1>5, InNone, InOne
  <2>2. ref[i] \in Nat /\ ref'[i] = ref[i] + One(i = f)
    BY <1>0, <1>1, <1>3 DEF FsTyped
  <2> QED
    BY <1>2, <1>5, <2>1, <2>2, NullInum DEF Slots, One
<1>12. panicked' = "no" => Place(p)' /\ Freeing(p)'
  BY <1>0, <1>1, <1>2, <1>3, <1>5, NullInum
     DEF Place, Freeing, DpPC, IpPC, DpLocked, IpLocked, WantsParent, FsTyped
<1>13. panicked' = "no" => ParentInv'
  BY <1>0, <1>1, <1>2, <1>5, <1>8, ParentStays
<1> QED
  BY <1>1, <1>6, <1>7, <1>8, <1>9, <1>10, <1>11, <1>12, <1>13, StepIInv DEF Typed

\* create(): the name is new.
LEMMA IallocIInv ==
  ASSUME IInv, NEW p \in Proc, Ialloc(p)
  PROVE  IInv'
<1> DEFINE free == {i \in Inum : dinode[i].type = "free"}
           f == CHOOSE j \in free : \A k \in free : j <= k
           x == [type |-> IF args[p].call = "mkdir" THEN "dir" ELSE "file", nlink |-> 0]
<1>1. /\ At(p, "parent") /\ args[p].call \in {"creat", "mkdir"}
      /\ lock[dp[p]] = NoProc /\ lock' = [lock EXCEPT ![dp[p]] = p] /\ Load(dp[p])
      /\ Goto(p, "create_new") /\ UNCHANGED <<entries, owned, args, dp, puts, phase>>
  BY DEF Ialloc
<1>2. CASE free = {}
  <2>1. panicked' = "ialloc: no inodes" /\ UNCHANGED <<dinode, ref, valid, ip>>
    BY <1>2 DEF Ialloc
  <2> QED
    BY <1>1, <2>1, IallocFullIInv
<1>3. CASE free # {}
  <2>1. f \in free
    BY <1>3, FirstInum
  <2>2. dinode' = [dinode EXCEPT ![f] = x] /\ Iget(f, {dp[p]}) /\ ip' = [ip EXCEPT ![p] = f]
    BY <1>3 DEF Ialloc
  <2>3. x \in Dinode /\ x.type # "free"
    BY DEF Dinode
  <2>4. f \in Inum /\ dinode[f].type = "free"
    BY <2>1
  <2> HIDE DEF f, x
  <2> QED
    BY <1>1, <2>2, <2>3, <2>4, IallocNewIInv
<1> QED
  BY <1>2, <1>3

\* create() links the new inode, and a new directory to its parent.
LEMMA CreateNewIInv ==
  ASSUME IInv, NEW p \in Proc, CreateNew(p)
  PROVE  IInv'
<1> DEFINE x == [Loaded(ip[p]) EXCEPT !.nlink = 1]
           y == [inode[dp[p]] EXCEPT !.nlink = IF args[p].call = "mkdir" THEN @ + 1 ELSE @]
<1>0. /\ pc[p] = "create_new" /\ puts[p] = <<>> /\ panicked = "no" /\ Ilock(ip[p])
      /\ lock' = [lock EXCEPT ![ip[p]] = p, ![dp[p]] = NoProc]
      /\ inode' = [inode EXCEPT ![ip[p]] = x, ![dp[p]] = y] /\ dinode' = [dinode EXCEPT ![ip[p]] = x, ![dp[p]] = y]
      /\ entries' = [entries EXCEPT ![dp[p]][args[p].name] = ip[p], ![ip[p]] = IF args[p].call = "mkdir" THEN [@ EXCEPT !["."] = ip[p], ![".."] = dp[p]] ELSE @]
      /\ puts' = [puts EXCEPT ![p] = <<dp[p]>>] /\ dp' = [dp EXCEPT ![p] = Null] /\ pc' = [pc EXCEPT ![p] = "created"]
      /\ ref' = ref /\ cwd' = cwd /\ file' = file /\ args' = args /\ ip' = ip /\ phase' = phase
  BY DEF CreateNew, At, Goto, Put, owned
<1> HIDE DEF x, y
<1>1. panicked = "no" /\ FsTyped /\ ProcTyped /\ Place(p) /\ Freeing(p)
  BY <1>0 DEF IInv, Typed
<1>2. /\ dp[p] \in Inum /\ ip[p] \in Inum /\ valid[dp[p]] /\ puts[p] = <<>> /\ phase[p] = "lock" /\ lock[dp[p]] = p
      /\ args[p].call # "link2"
  BY <1>0, <1>1, NullInum DEF Place, DpPC, IpPC, DpLocked, IpLocked, ProcTyped
<1>3. /\ lock[ip[p]] = NoProc /\ valid' \in [Inum -> BOOLEAN] /\ valid'[ip[p]]
      /\ \A j \in Inum : (valid[j] => valid'[j]) /\ (valid'[j] => valid[j] \/ j = ip[p])
      /\ panicked' = "no" => LockPanic(ip[p]) = "no"
  BY <1>0, <1>1, <1>2, IlockFacts DEF Typed
<1>4. CacheInv' /\ inode' \in [Inum -> Dinode] /\ dinode' \in [Inum -> Dinode]
  <2>1. /\ Loaded(ip[p]) = dinode[ip[p]] /\ dinode[ip[p]] \in Dinode /\ CacheInv
        /\ LockPanic(ip[p]) = "no" => dinode[ip[p]].type # "free"
    BY <1>1, <1>2, LoadedIsDisk DEF IInv
  <2>2. inode[dp[p]] \in Dinode /\ inode[dp[p]].type # "free"
    BY <1>1, <1>2, <2>1 DEF CacheInv, FsTyped
  <2>3. x \in Dinode /\ y \in Dinode /\ y.type # "free" /\ (panicked' = "no" => x.type # "free")
    BY <1>3, <2>1, <2>2 DEF Dinode, x, y
  <2> QED
    BY <1>0, <1>1, <1>2, <1>3, <2>1, <2>3 DEF CacheInv, FsTyped
<1>5. /\ dp'[p] = Null /\ ip'[p] = ip[p] /\ cwd'[p] = cwd[p] /\ file'[p] = file[p]
      /\ puts'[p] = <<dp[p]>> /\ phase'[p] = "lock" /\ pc'[p] = "created" /\ args'[p] = args[p]
  BY <1>0, <1>1, <1>2 DEF ProcTyped
<1>6. FsTyped'
  <2>1. entries' \in [Inum -> [Elem -> Inum \cup {Null}]]
    <3>1. args[p].name \in Elem /\ "." \in Elem /\ ".." \in Elem
      BY <1>1 DEF ProcTyped, Arg, Elem
    <3>2. entries \in [Inum -> [Elem -> Inum \cup {Null}]]
      BY <1>1 DEF FsTyped
    <3>3. entries' = [entries EXCEPT ![dp[p]][args[p].name] = ip[p], ![ip[p]] =
            IF args[p].call = "mkdir" THEN [@ EXCEPT !["."] = ip[p], ![".."] = dp[p]] ELSE @]
      BY <1>0
    <3> QED
      BY <1>2, <3>1, <3>2, <3>3
  <2> QED
    BY <1>0, <1>1, <1>2, <1>3, <1>4, <2>1 DEF FsTyped
<1>7. ProcTyped'
  <2>1. <<dp[p]>> \in Seq(Inum) /\ Len(<<dp[p]>>) <= 2
    BY <1>2
  <2> QED
    BY <1>0, <1>1, <1>2, <2>1 DEF ProcTyped, PC
<1>8. Others(p)
  BY <1>0, <1>1 DEF Others, ProcTyped
<1>9. LockFrame(p)
  BY <1>0, <1>1, <1>2, <1>3, InodeAssumption DEF LockFrame, FsTyped
<1>10. CacheInv'
  BY <1>4
<1>11. ASSUME NEW i \in Inum PROVE ref'[i] + Slots(p, i) = ref[i] + Slots(p, i)'
  <2>1. /\ In(puts[p], 1, i) = 0 /\ In(puts[p], 2, i) = 0
        /\ In(puts'[p], 1, i) = One(dp[p] = i) /\ In(puts'[p], 2, i) = 0
    BY <1>2, <1>5, InNone, InOne
  <2>2. ref[i] \in Nat /\ ref'[i] = ref[i]
    BY <1>0, <1>1 DEF FsTyped
  <2> QED
    BY <1>2, <1>5, <2>1, <2>2, NullInum DEF Slots, One
<1>12. panicked' = "no" => Place(p)' /\ Freeing(p)'
  BY <1>0, <1>1, <1>2, <1>3, <1>5, NullInum
     DEF Place, Freeing, DpPC, IpPC, DpLocked, IpLocked, WantsParent, FsTyped
<1>13. panicked' = "no" => ParentInv'
  BY <1>0, <1>1, <1>2, <1>5, <1>8, ParentStays
<1> QED
  BY <1>1, <1>6, <1>7, <1>8, <1>9, <1>10, <1>11, <1>12, <1>13, StepIInv DEF Typed

-----------------------------------------------------------------------------
(***************************************************************************)
(* unlink()                                                                *)
(***************************************************************************)
\* unlink() finds the name and keeps dp locked.
LEMMA UnlinkHoldIInv ==
  ASSUME IInv, NEW p \in Proc, At(p, "parent"), args[p].call = "unlink", lock[dp[p]] = NoProc, Load(dp[p]),
         NEW f \in Inum, Iget(f, {dp[p]}), ip' = [ip EXCEPT ![p] = f],
         lock' = [lock EXCEPT ![dp[p]] = p], Goto(p, "unlink_ip"),
         UNCHANGED <<args, puts, dp>>, UNCHANGED <<disk, owned, phase>>
  PROVE  IInv'
<1>0. /\ pc[p] = "parent" /\ puts[p] = <<>> /\ panicked = "no" /\ args[p].call = "unlink"
      /\ lock' = [lock EXCEPT ![dp[p]] = p] /\ lock[dp[p]] = NoProc
      /\ Iget(f, {dp[p]}) /\ Load(dp[p])
      /\ ip' = [ip EXCEPT ![p] = f] /\ pc' = [pc EXCEPT ![p] = "unlink_ip"]
      /\ dinode' = dinode /\ entries' = entries
      /\ cwd' = cwd /\ file' = file /\ args' = args /\ puts' = puts /\ dp' = dp /\ phase' = phase
  BY DEF At, Goto, disk, owned
<1>1. panicked = "no" /\ FsTyped /\ ProcTyped /\ Place(p) /\ Freeing(p)
  BY <1>0 DEF IInv, Typed
<1>2. dp[p] \in Inum /\ ip[p] = Null /\ puts[p] = <<>> /\ phase[p] = "lock"
  BY <1>0, <1>1, NullInum DEF Place, DpPC, IpPC, DpLocked, IpLocked, ProcTyped
<1>3. /\ ref' \in [Inum -> Nat] /\ valid' \in [Inum -> BOOLEAN]
      /\ \A j \in Inum :
           /\ ref'[j] = ref[j] + One(j = f)
           /\ valid[j] /\ ref[j] >= 1 => valid'[j]
           /\ valid'[j] => valid[j] \/ j = dp[p]
      /\ valid'[dp[p]] /\ (panicked' = "no" => LockPanic(dp[p]) = "no")
  BY <1>0, <1>1, <1>2, IgetFacts DEF Typed
<1>4. CacheInv' /\ inode' \in [Inum -> Dinode]
  BY <1>0, <1>1, <1>2, <1>3, LoadCache
<1>5. /\ dp'[p] = dp[p] /\ ip'[p] = f /\ cwd'[p] = cwd[p] /\ file'[p] = file[p]
      /\ puts'[p] = puts[p] /\ pc'[p] = "unlink_ip" /\ args'[p] = args[p] /\ phase'[p] = "lock"
  BY <1>0, <1>1, <1>2 DEF ProcTyped
<1>6. FsTyped'
  BY <1>0, <1>1, <1>2, <1>3, <1>4 DEF FsTyped
<1>7. ProcTyped'
  BY <1>0, <1>1 DEF ProcTyped, PC
<1>8. Others(p)
  BY <1>0, <1>1 DEF Others, ProcTyped
<1>9. LockFrame(p)
  BY <1>0, <1>1, <1>2, <1>3, InodeAssumption DEF LockFrame, FsTyped
<1>10. CacheInv'
  BY <1>4
<1>11. ASSUME NEW i \in Inum PROVE ref'[i] + Slots(p, i) = ref[i] + Slots(p, i)'
  <2>1. In(puts[p], 1, i) = 0 /\ In(puts[p], 2, i) = 0 /\ puts'[p] = puts[p]
    BY <1>2, <1>5, InNone, InOne
  <2>2. ref[i] \in Nat /\ ref'[i] = ref[i] + One(i = f)
    BY <1>0, <1>1, <1>3 DEF FsTyped
  <2> QED
    BY <1>2, <1>5, <2>1, <2>2, NullInum DEF Slots, One
<1>12. panicked' = "no" => Place(p)' /\ Freeing(p)'
  BY <1>0, <1>1, <1>2, <1>3, <1>5, NullInum
     DEF Place, Freeing, DpPC, IpPC, DpLocked, IpLocked, WantsParent, FsTyped
<1>13. panicked' = "no" => ParentInv'
  BY <1>0, <1>1, <1>2, <1>5, <1>8, ParentStays
<1> QED
  BY <1>1, <1>6, <1>7, <1>8, <1>9, <1>10, <1>11, <1>12, <1>13, StepIInv DEF Typed

\* unlink() looks the name up.
LEMMA UnlinkLookupIInv ==
  ASSUME IInv, NEW p \in Proc, UnlinkLookup(p)
  PROVE  IInv'
<1> DEFINE f == Dirlookup(dp[p], args[p].name)
<1>1. /\ At(p, "parent") /\ args[p].call = "unlink" /\ lock[dp[p]] = NoProc /\ Load(dp[p])
      /\ pc[p] = "parent" /\ puts[p] = <<>> /\ panicked = "no"
      /\ UNCHANGED <<disk, owned, phase>>
  BY DEF UnlinkLookup, At
<1>2. \/ Ilock(dp[p]) /\ Fail(p, dp[p]) /\ UNCHANGED <<ref, lock, ip>>
      \/ /\ f # Null /\ Iget(f, {dp[p]}) /\ ip' = [ip EXCEPT ![p] = f]
         /\ lock' = [lock EXCEPT ![dp[p]] = p] /\ Goto(p, "unlink_ip")
         /\ UNCHANGED <<args, puts, dp>>
  BY DEF UnlinkLookup
<1>3. f \in Inum \cup {Null}
  BY <1>1, LookupType
<1> HIDE DEF f
<1>4. CASE Ilock(dp[p]) /\ Fail(p, dp[p]) /\ UNCHANGED <<ref, lock, ip>>
  BY <1>1, <1>4, IlockFails DEF disk, owned
<1>5. CASE /\ f # Null /\ Iget(f, {dp[p]}) /\ ip' = [ip EXCEPT ![p] = f]
           /\ lock' = [lock EXCEPT ![dp[p]] = p] /\ Goto(p, "unlink_ip")
           /\ UNCHANGED <<args, puts, dp>>
  BY <1>1, <1>3, <1>5, UnlinkHoldIInv
<1> QED
  BY <1>2, <1>4, <1>5

\* unlink() of a directory that is not empty.
LEMMA UnlinkNotEmptyIInv ==
  ASSUME IInv, NEW p \in Proc, At(p, "unlink_ip"), lock[ip[p]] = NoProc,
         valid' = [valid EXCEPT ![ip[p]] = TRUE], panicked' = "no" => LockPanic(ip[p]) = "no",
         Load(ip[p]), Put(p, <<ip[p]>>), ip' = [ip EXCEPT ![p] = Null], Goto(p, "unlink_bad"),
         UNCHANGED <<disk, lock, dp>>, UNCHANGED <<ref, owned, args, phase>>
  PROVE  IInv'
<1>0. /\ pc[p] = "unlink_ip" /\ puts[p] = <<>> /\ panicked = "no" /\ lock[ip[p]] = NoProc
      /\ valid' = [valid EXCEPT ![ip[p]] = TRUE] /\ (panicked' = "no" => LockPanic(ip[p]) = "no")
      /\ Load(ip[p]) /\ puts' = [puts EXCEPT ![p] = <<ip[p]>>] /\ ip' = [ip EXCEPT ![p] = Null]
      /\ pc' = [pc EXCEPT ![p] = "unlink_bad"] /\ dinode' = dinode /\ entries' = entries /\ lock' = lock /\ ref' = ref
      /\ cwd' = cwd /\ file' = file /\ args' = args /\ dp' = dp /\ phase' = phase
  BY DEF At, Goto, disk, owned, Put
<1>1. panicked = "no" /\ FsTyped /\ ProcTyped /\ Place(p) /\ Freeing(p)
  BY <1>0 DEF IInv, Typed
<1>2. /\ dp[p] \in Inum /\ ip[p] \in Inum /\ valid[dp[p]] /\ puts[p] = <<>> /\ phase[p] = "lock" /\ lock[dp[p]] = p
      /\ args[p].call \notin {"link2", "none"} /\ ip[p] # dp[p]
  BY <1>0, <1>1, NullInum, InodeAssumption DEF Place, DpPC, IpPC, DpLocked, IpLocked, ProcTyped
<1>3. /\ valid' \in [Inum -> BOOLEAN] /\ valid'[ip[p]]
      /\ \A j \in Inum : (valid[j] => valid'[j]) /\ (valid'[j] => valid[j] \/ j = ip[p])
  BY <1>0, <1>1, <1>2 DEF FsTyped
<1>4. CacheInv' /\ inode' \in [Inum -> Dinode]
  BY <1>0, <1>1, <1>2, <1>3, LoadCache
<1>5. /\ dp'[p] = dp[p] /\ ip'[p] = Null /\ cwd'[p] = cwd[p] /\ file'[p] = file[p]
      /\ puts'[p] = <<ip[p]>> /\ pc'[p] = "unlink_bad" /\ args'[p] = args[p] /\ phase'[p] = "lock"
  BY <1>0, <1>1, <1>2 DEF ProcTyped
<1>6. FsTyped'
  BY <1>0, <1>1, <1>2, <1>3, <1>4 DEF FsTyped
<1>7. ProcTyped'
  <2>1. <<ip[p]>> \in Seq(Inum) /\ Len(<<ip[p]>>) <= 2
    BY <1>2
  <2> QED
    BY <1>0, <1>1, <1>2, <2>1 DEF ProcTyped, PC
<1>8. Others(p)
  BY <1>0, <1>1 DEF Others, ProcTyped
<1>9. LockFrame(p)
  BY <1>0, <1>1, <1>2, <1>3, InodeAssumption DEF LockFrame, FsTyped
<1>10. CacheInv'
  BY <1>4
<1>11. ASSUME NEW i \in Inum PROVE ref'[i] + Slots(p, i) = ref[i] + Slots(p, i)'
  <2>1. /\ In(puts[p], 1, i) = 0 /\ In(puts[p], 2, i) = 0
        /\ In(puts'[p], 1, i) = One(ip[p] = i) /\ In(puts'[p], 2, i) = 0
    BY <1>2, <1>5, InNone, InOne
  <2>2. ref[i] \in Nat /\ ref'[i] = ref[i]
    BY <1>0, <1>1 DEF FsTyped
  <2> QED
    BY <1>2, <1>5, <2>1, <2>2, NullInum DEF Slots, One
<1>12. panicked' = "no" => Place(p)' /\ Freeing(p)'
  BY <1>0, <1>1, <1>2, <1>3, <1>5, NullInum
     DEF Place, Freeing, DpPC, IpPC, DpLocked, IpLocked, WantsParent, FsTyped
<1>13. panicked' = "no" => ParentInv'
  BY <1>0, <1>1, <1>2, <1>5, <1>8, ParentStays
<1> QED
  BY <1>1, <1>6, <1>7, <1>8, <1>9, <1>10, <1>11, <1>12, <1>13, StepIInv DEF Typed

\* unlink() clears the entry.
LEMMA UnlinkEntryIInv ==
  ASSUME IInv, NEW p \in Proc, At(p, "unlink_ip"), lock[ip[p]] = NoProc,
         valid' = [valid EXCEPT ![ip[p]] = TRUE], panicked' = "no" => LockPanic(ip[p]) = "no",
         lock' = [lock EXCEPT ![ip[p]] = p, ![dp[p]] = NoProc],
         entries' = [entries EXCEPT ![dp[p]][args[p].name] = Null],
         NEW x, x \in Dinode /\ (inode[dp[p]].type # "free" => x.type # "free"),
         inode' = [inode EXCEPT ![ip[p]] = Loaded(ip[p]), ![dp[p]] = x],
         dinode' = [dinode EXCEPT ![dp[p]] = x], Put(p, <<dp[p]>>),
         dp' = [dp EXCEPT ![p] = Null], Goto(p, "unlinked"), UNCHANGED ip,
         UNCHANGED <<ref, owned, args, phase>>
  PROVE  IInv'
<1>0. /\ pc[p] = "unlink_ip" /\ puts[p] = <<>> /\ panicked = "no" /\ lock[ip[p]] = NoProc
      /\ valid' = [valid EXCEPT ![ip[p]] = TRUE] /\ (panicked' = "no" => LockPanic(ip[p]) = "no")
      /\ lock' = [lock EXCEPT ![ip[p]] = p, ![dp[p]] = NoProc] /\ entries' = [entries EXCEPT ![dp[p]][args[p].name] = Null]
      /\ x \in Dinode /\ (inode[dp[p]].type # "free" => x.type # "free")
      /\ inode' = [inode EXCEPT ![ip[p]] = Loaded(ip[p]), ![dp[p]] = x] /\ dinode' = [dinode EXCEPT ![dp[p]] = x]
      /\ puts' = [puts EXCEPT ![p] = <<dp[p]>>] /\ dp' = [dp EXCEPT ![p] = Null]
      /\ pc' = [pc EXCEPT ![p] = "unlinked"] /\ ref' = ref
      /\ cwd' = cwd /\ file' = file /\ args' = args /\ ip' = ip /\ phase' = phase
  BY DEF At, Goto, owned, Put
<1>1. panicked = "no" /\ FsTyped /\ ProcTyped /\ Place(p) /\ Freeing(p)
  BY <1>0 DEF IInv, Typed
<1>2. /\ dp[p] \in Inum /\ ip[p] \in Inum /\ valid[dp[p]] /\ puts[p] = <<>> /\ phase[p] = "lock" /\ lock[dp[p]] = p
      /\ args[p].call \notin {"link2", "none"} /\ ip[p] # dp[p]
  BY <1>0, <1>1, NullInum, InodeAssumption DEF Place, DpPC, IpPC, DpLocked, IpLocked, ProcTyped
<1>3. /\ valid' \in [Inum -> BOOLEAN] /\ valid'[ip[p]]
      /\ \A j \in Inum : (valid[j] => valid'[j]) /\ (valid'[j] => valid[j] \/ j = ip[p])
  BY <1>0, <1>1, <1>2 DEF FsTyped
<1>4. CacheInv' /\ inode' \in [Inum -> Dinode] /\ dinode' \in [Inum -> Dinode]
  <2>1. /\ Loaded(ip[p]) = dinode[ip[p]] /\ dinode[ip[p]] \in Dinode /\ CacheInv
        /\ LockPanic(ip[p]) = "no" => dinode[ip[p]].type # "free"
    BY <1>1, <1>2, LoadedIsDisk DEF IInv
  <2>2. inode[dp[p]].type # "free"
    BY <1>0, <1>1, <1>2, <2>1 DEF CacheInv
  <2>3. /\ inode' = [inode EXCEPT ![ip[p]] = dinode[ip[p]], ![dp[p]] = x]
        /\ dinode' = [dinode EXCEPT ![dp[p]] = x] /\ x \in Dinode /\ x.type # "free"
        /\ inode \in [Inum -> Dinode] /\ dinode \in [Inum -> Dinode]
    BY <1>0, <1>1, <2>1, <2>2 DEF FsTyped
  <2>4. inode' \in [Inum -> Dinode] /\ dinode' \in [Inum -> Dinode]
    BY <1>2, <2>1, <2>3
  <2>5. /\ inode'[ip[p]] = dinode[ip[p]] /\ dinode'[ip[p]] = dinode[ip[p]]
        /\ inode'[dp[p]] = x /\ dinode'[dp[p]] = x
        /\ \A j \in Inum : j # ip[p] /\ j # dp[p] => inode'[j] = inode[j] /\ dinode'[j] = dinode[j]
    BY <1>2, <2>3
  <2>6. ASSUME NEW j \in Inum, valid'[j]
        PROVE  inode'[j] = dinode'[j] /\ (panicked' = "no" => dinode'[j].type # "free")
    <3>1. CASE j = ip[p]
      BY <1>0, <2>1, <2>5, <3>1
    <3>2. CASE j = dp[p]
      BY <2>3, <2>5, <3>2
    <3>3. CASE j # ip[p] /\ j # dp[p]
      <4>1. valid[j] /\ inode'[j] = inode[j] /\ dinode'[j] = dinode[j]
        BY <1>3, <2>5, <2>6, <3>3
      <4>2. inode[j] = dinode[j] /\ dinode[j].type # "free"
        BY <1>0, <2>1, <4>1 DEF CacheInv
      <4> QED
        BY <4>1, <4>2
    <3> QED
      BY <3>1, <3>2, <3>3
  <2> QED
    BY <2>4, <2>6 DEF CacheInv
<1>5. /\ dp'[p] = Null /\ ip'[p] = ip[p] /\ cwd'[p] = cwd[p] /\ file'[p] = file[p]
      /\ puts'[p] = <<dp[p]>> /\ pc'[p] = "unlinked" /\ args'[p] = args[p] /\ phase'[p] = "lock"
  BY <1>0, <1>1, <1>2 DEF ProcTyped
<1>6. FsTyped'
  <2>1. args[p].name \in Elem /\ entries \in [Inum -> [Elem -> Inum \cup {Null}]]
    BY <1>1 DEF ProcTyped, FsTyped, Arg
  <2>2. entries' \in [Inum -> [Elem -> Inum \cup {Null}]]
    BY <1>0, <1>2, <2>1
  <2>3. lock' \in [Inum -> Proc \cup {NoProc}] /\ ref' \in [Inum -> Nat]
    <3>1. /\ lock' = [lock EXCEPT ![ip[p]] = p, ![dp[p]] = NoProc] /\ ref' = ref
          /\ lock \in [Inum -> Proc \cup {NoProc}] /\ ref \in [Inum -> Nat]
      BY <1>0, <1>1 DEF FsTyped
    <3> QED
      BY <1>2, <3>1
  <2> QED
    BY <1>3, <1>4, <2>2, <2>3 DEF FsTyped
<1>7. ProcTyped'
  <2>1. <<dp[p]>> \in Seq(Inum) /\ Len(<<dp[p]>>) <= 2
    BY <1>2
  <2> QED
    BY <1>0, <1>1, <1>2, <2>1 DEF ProcTyped, PC
<1>8. Others(p)
  BY <1>0, <1>1 DEF Others, ProcTyped
<1>9. LockFrame(p)
  BY <1>0, <1>1, <1>2, <1>3, InodeAssumption DEF LockFrame, FsTyped
<1>10. CacheInv'
  BY <1>4
<1>11. ASSUME NEW i \in Inum PROVE ref'[i] + Slots(p, i) = ref[i] + Slots(p, i)'
  <2>1. /\ In(puts[p], 1, i) = 0 /\ In(puts[p], 2, i) = 0
        /\ In(puts'[p], 1, i) = One(dp[p] = i) /\ In(puts'[p], 2, i) = 0
    BY <1>2, <1>5, InNone, InOne
  <2>2. ref[i] \in Nat /\ ref'[i] = ref[i]
    BY <1>0, <1>1 DEF FsTyped
  <2> QED
    BY <1>2, <1>5, <2>1, <2>2, NullInum DEF Slots, One
<1>12. panicked' = "no" => Place(p)' /\ Freeing(p)'
  BY <1>0, <1>1, <1>2, <1>3, <1>5, NullInum
     DEF Place, Freeing, DpPC, IpPC, DpLocked, IpLocked, WantsParent, FsTyped
<1>13. panicked' = "no" => ParentInv'
  BY <1>0, <1>1, <1>2, <1>5, <1>8, ParentStays
<1> QED
  BY <1>1, <1>6, <1>7, <1>8, <1>9, <1>10, <1>11, <1>12, <1>13, StepIInv DEF Typed

\* unlink() locks the inode with its directory locked.
LEMMA UnlinkIpIInv ==
  ASSUME IInv, NEW p \in Proc, UnlinkIp(p)
  PROVE  IInv'
<1> DEFINE isdir == Loaded(ip[p]).type = "dir"
           x == [inode[dp[p]] EXCEPT !.nlink = IF isdir THEN @ - 1 ELSE @]
<1>1. /\ At(p, "unlink_ip") /\ lock[ip[p]] = NoProc
      /\ valid' = [valid EXCEPT ![ip[p]] = TRUE]
      /\ panicked' = "no" => LockPanic(ip[p]) = "no"
      /\ UNCHANGED <<ref, owned, args, phase>>
  BY DEF UnlinkIp
<1>2. CASE isdir /\ ~Empty(ip[p])
  <2>1. /\ Load(ip[p]) /\ Put(p, <<ip[p]>>) /\ ip' = [ip EXCEPT ![p] = Null]
        /\ Goto(p, "unlink_bad") /\ UNCHANGED <<disk, lock, dp>>
    BY <1>2 DEF UnlinkIp
  <2> QED
    BY <1>1, <2>1, UnlinkNotEmptyIInv
<1>3. CASE ~(isdir /\ ~Empty(ip[p]))
  <2>1. /\ lock' = [lock EXCEPT ![ip[p]] = p, ![dp[p]] = NoProc]
        /\ entries' = [entries EXCEPT ![dp[p]][args[p].name] = Null]
        /\ inode' = [inode EXCEPT ![ip[p]] = Loaded(ip[p]), ![dp[p]] = x]
        /\ dinode' = [dinode EXCEPT ![dp[p]] = x]
        /\ Put(p, <<dp[p]>>) /\ dp' = [dp EXCEPT ![p] = Null]
        /\ Goto(p, "unlinked") /\ UNCHANGED ip
    BY <1>3 DEF UnlinkIp
  <2>2. dp[p] \in Inum /\ inode \in [Inum -> Dinode]
    BY <1>1 DEF IInv, Typed, FsTyped, ProcTyped, Place, DpPC, At
  <2>3. x \in Dinode /\ x.type = inode[dp[p]].type
    BY <2>2 DEF Dinode
  <2>4. x \in Dinode /\ (inode[dp[p]].type # "free" => x.type # "free")
    BY <2>3
  <2> HIDE DEF x
  <2> QED
    BY <1>1, <2>1, <2>4, UnlinkEntryIInv
<1> QED
  BY <1>2, <1>3

\* A directory is unlocked and put, and nothing else (unlink, link).
LEMMA UnlockFails ==
  ASSUME IInv, NEW p \in Proc, panicked = "no", puts[p] = <<>>,
         pc[p] \in {"unlink_bad", "link_exists"}, lock' = Unlocked(dp[p]), Fail(p, dp[p]),
         UNCHANGED <<disk, ref, valid, inode, owned, ip, phase, panicked>>
  PROVE  IInv'
<1>1. dp[p] \in Inum /\ FsTyped /\ lock[dp[p]] = p
  BY DEF IInv, Typed, ProcTyped, Place, DpPC, DpLocked
<1>2. /\ dinode' = dinode /\ entries' = entries /\ ref' = ref /\ valid' = valid /\ inode' = inode
      /\ cwd' = cwd /\ file' = file /\ ip' = ip /\ phase' = phase
      /\ lock' = [lock EXCEPT ![dp[p]] = NoProc]
  BY DEF disk, owned, Unlocked
<1>3. CacheInv'
  BY <1>2, SameCache
<1>4. FsTyped' /\ LockFrame(p)
  BY <1>1, <1>2, InodeAssumption DEF FsTyped, LockFrame
<1> QED
  BY <1>2, <1>3, <1>4, FailIInv

\* unlink() gives up.
LEMMA UnlinkBadIInv ==
  ASSUME IInv, NEW p \in Proc, UnlinkBad(p)
  PROVE  IInv'
BY UnlockFails DEF UnlinkBad, At

\* unlink() counts the link back and puts the inode.
LEMMA UnlinkedIInv ==
  ASSUME IInv, NEW p \in Proc, Unlinked(p)
  PROVE  IInv'
<1> DEFINE x == [Loaded(ip[p]) EXCEPT !.nlink = inode[ip[p]].nlink - 1]
<1>0. /\ pc[p] = "unlinked" /\ puts[p] = <<>> /\ panicked = "no"
      /\ inode' = [inode EXCEPT ![ip[p]] = x] /\ dinode' = [dinode EXCEPT ![ip[p]] = x]
      /\ lock' = [lock EXCEPT ![ip[p]] = NoProc] /\ puts' = [puts EXCEPT ![p] = <<ip[p]>>]
      /\ ip' = [ip EXCEPT ![p] = Null] /\ pc' = [pc EXCEPT ![p] = "idle"] /\ args' = [args EXCEPT ![p] = NoArgs]
      /\ entries' = entries /\ ref' = ref /\ valid' = valid /\ panicked' = panicked
      /\ cwd' = cwd /\ file' = file /\ dp' = dp /\ phase' = phase
  BY DEF Unlinked, Iupdate, Unlocked, Put, Return, At, Goto, owned
<1> HIDE DEF x
<1>1. panicked = "no" /\ FsTyped /\ ProcTyped /\ Place(p) /\ Freeing(p)
  BY <1>0 DEF IInv, Typed
<1>2. ip[p] \in Inum /\ dp[p] = Null /\ puts[p] = <<>> /\ phase[p] = "lock" /\ lock[ip[p]] = p /\ valid[ip[p]]
  BY <1>0, <1>1, NullInum DEF Place, DpPC, IpPC, DpLocked, IpLocked, ProcTyped
<1>4. CacheInv' /\ inode' \in [Inum -> Dinode] /\ dinode' \in [Inum -> Dinode]
  <2>1. /\ Loaded(ip[p]) = dinode[ip[p]] /\ dinode[ip[p]] \in Dinode /\ CacheInv
        /\ LockPanic(ip[p]) = "no" => dinode[ip[p]].type # "free"
    BY <1>1, <1>2, LoadedIsDisk DEF IInv
  <2>2. dinode[ip[p]].nlink \in Int /\ inode[ip[p]].nlink \in Int
    BY <1>1, <1>2 DEF FsTyped, Dinode
  <2>3. x \in Dinode /\ (dinode[ip[p]].type # "free" => x.type # "free")
    BY <2>1, <2>2 DEF Dinode, x
  <2> QED
    BY <1>0, <1>1, <1>2, <2>1, <2>3 DEF CacheInv, FsTyped
<1>5a. NoArgs.call = "none"
  BY DEF NoArgs
<1>5. /\ dp'[p] = Null /\ ip'[p] = Null /\ cwd'[p] = cwd[p] /\ file'[p] = file[p]
      /\ puts'[p] = <<ip[p]>> /\ pc'[p] = "idle" /\ args'[p].call = "none" /\ phase'[p] = "lock"
  BY <1>0, <1>1, <1>2, <1>5a DEF ProcTyped
<1>6. FsTyped'
  BY <1>0, <1>1, <1>2, <1>4 DEF FsTyped
<1>7. ProcTyped'
  <2>1. NoArgs \in Arg
    BY EmptySeq DEF NoArgs, Arg, Elem
  <2>2. <<ip[p]>> \in Seq(Inum) /\ Len(<<ip[p]>>) <= 2
    BY <1>2
  <2> QED
    BY <1>0, <1>1, <1>2, <2>1, <2>2 DEF ProcTyped, PC
<1>8. Others(p)
  BY <1>0, <1>1 DEF Others, ProcTyped
<1>9. LockFrame(p)
  BY <1>0, <1>1, <1>2, InodeAssumption DEF LockFrame, FsTyped
<1>10. CacheInv'
  BY <1>4
<1>11. ASSUME NEW i \in Inum PROVE ref'[i] + Slots(p, i) = ref[i] + Slots(p, i)'
  <2>1. /\ In(puts[p], 1, i) = 0 /\ In(puts[p], 2, i) = 0
        /\ In(puts'[p], 1, i) = One(ip[p] = i) /\ In(puts'[p], 2, i) = 0
    BY <1>2, <1>5, InNone, InOne
  <2>2. ref[i] \in Nat /\ ref'[i] = ref[i]
    BY <1>0, <1>1 DEF FsTyped
  <2> QED
    BY <1>2, <1>5, <2>1, <2>2, NullInum DEF Slots, One
<1>12. panicked' = "no" => Place(p)' /\ Freeing(p)'
  BY <1>0, <1>1, <1>2, <1>5, NullInum
     DEF Place, Freeing, DpPC, IpPC, DpLocked, IpLocked, WantsParent, FsTyped
<1>13. panicked' = "no" => ParentInv'
  BY <1>0, <1>1, <1>2, <1>5, <1>8, ParentStays
<1> QED
  BY <1>1, <1>6, <1>7, <1>8, <1>9, <1>10, <1>11, <1>12, <1>13, StepIInv DEF Typed

-----------------------------------------------------------------------------
(***************************************************************************)
(* link()                                                                  *)
(***************************************************************************)
\* link() counts the link and begins the second walk.
LEMMA LinkCountIInv ==
  ASSUME IInv, NEW p \in Proc, LinkCount(p)
  PROVE  IInv'
<1> DEFINE x == [Loaded(dp[p]) EXCEPT !.nlink = OneMore(Loaded(dp[p]).nlink)]
<1>0. /\ pc[p] = "found" /\ puts[p] = <<>> /\ panicked = "no" /\ args[p].call = "link"
      /\ inode' = [inode EXCEPT ![dp[p]] = x] /\ dinode' = [dinode EXCEPT ![dp[p]] = x]
      /\ Iget(Root, {dp[p]}) /\ ip' = [ip EXCEPT ![p] = dp[p]] /\ dp' = [dp EXCEPT ![p] = Root]
      /\ args' = [args EXCEPT ![p].call = "link2", ![p].path = args[p].new, ![p].new = <<>>]
      /\ pc' = [pc EXCEPT ![p] = "namex"]
      /\ entries' = entries /\ lock' = lock
      /\ cwd' = cwd /\ file' = file /\ puts' = puts /\ phase' = phase
  BY DEF LinkCount, Iupdate, At, Goto, owned
<1> HIDE DEF x
<1>1. panicked = "no" /\ FsTyped /\ ProcTyped /\ Place(p) /\ Freeing(p)
  BY <1>0 DEF IInv, Typed
<1>2. dp[p] \in Inum /\ ip[p] = Null /\ puts[p] = <<>> /\ phase[p] = "lock" /\ Root \in Inum
  BY <1>0, <1>1, NullInum DEF Place, DpPC, IpPC, DpLocked, IpLocked, ProcTyped
<1>3. /\ ref' \in [Inum -> Nat] /\ valid' \in [Inum -> BOOLEAN]
      /\ \A j \in Inum :
           /\ ref'[j] = ref[j] + One(j = Root)
           /\ valid[j] /\ ref[j] >= 1 => valid'[j]
           /\ valid'[j] => valid[j] \/ j = dp[p]
      /\ valid'[dp[p]] /\ (panicked' = "no" => LockPanic(dp[p]) = "no")
  BY <1>0, <1>1, <1>2, IgetFacts DEF Typed
<1>4. CacheInv' /\ inode' \in [Inum -> Dinode] /\ dinode' \in [Inum -> Dinode]
  <2>1. /\ Loaded(dp[p]) = dinode[dp[p]] /\ dinode[dp[p]] \in Dinode /\ CacheInv
        /\ LockPanic(dp[p]) = "no" => dinode[dp[p]].type # "free"
    BY <1>1, <1>2, LoadedIsDisk DEF IInv
  <2>2. dinode[dp[p]].nlink \in Int
    BY <1>1, <1>2 DEF FsTyped, Dinode
  <2>3. x \in Dinode /\ (dinode[dp[p]].type # "free" => x.type # "free")
    BY <2>1, <2>2 DEF Dinode, x, OneMore
  <2> QED
    BY <1>0, <1>1, <1>2, <1>3, <2>1, <2>3 DEF CacheInv, FsTyped
<1>5. /\ dp'[p] = Root /\ ip'[p] = dp[p] /\ cwd'[p] = cwd[p] /\ file'[p] = file[p]
      /\ puts'[p] = puts[p] /\ pc'[p] = "namex" /\ args'[p].call = "link2" /\ phase'[p] = "lock"
  BY <1>0, <1>1, <1>2 DEF ProcTyped, Arg
<1>6. FsTyped'
  BY <1>0, <1>1, <1>2, <1>3, <1>4 DEF FsTyped
<1>7. ProcTyped'
  <2>1. args' \in [Proc -> Arg]
    <3>1. args \in [Proc -> Arg] /\ args[p].new \in Seq(Elem) /\ <<>> \in Seq(Elem)
      BY <1>1, EmptySeq DEF ProcTyped, Arg
    <3>2. args' = [args EXCEPT ![p].call = "link2", ![p].path = args[p].new, ![p].new = <<>>]
      BY <1>0
    <3> QED
      BY <3>1, <3>2 DEF Arg
  <2> QED
    BY <1>0, <1>1, <1>2, <2>1 DEF ProcTyped, PC
<1>8. Others(p)
  BY <1>0, <1>1 DEF Others, ProcTyped
<1>9. LockFrame(p)
  BY <1>0, <1>1, <1>2, <1>3, InodeAssumption DEF LockFrame, FsTyped
<1>10. CacheInv'
  BY <1>4
<1>11. ASSUME NEW i \in Inum PROVE ref'[i] + Slots(p, i) = ref[i] + Slots(p, i)'
  <2>1. In(puts[p], 1, i) = 0 /\ In(puts[p], 2, i) = 0 /\ puts'[p] = puts[p]
    BY <1>2, <1>5, InNone, InOne
  <2>2. ref[i] \in Nat /\ ref'[i] = ref[i] + One(i = Root)
    BY <1>0, <1>1, <1>3 DEF FsTyped
  <2> QED
    BY <1>2, <1>5, <2>1, <2>2, NullInum DEF Slots, One
<1>12. panicked' = "no" => Place(p)' /\ Freeing(p)'
  BY <1>0, <1>1, <1>2, <1>3, <1>5, NullInum
     DEF Place, Freeing, DpPC, IpPC, DpLocked, IpLocked, WantsParent, FsTyped
<1>13. panicked' = "no" => ParentInv'
  BY <1>0, <1>1, <1>2, <1>5, <1>8, ParentStays
<1> QED
  BY <1>1, <1>6, <1>7, <1>8, <1>9, <1>10, <1>11, <1>12, <1>13, StepIInv DEF Typed

\* link() of a directory.
LEMMA LinkDirectoryIInv ==
  ASSUME IInv, NEW p \in Proc, LinkDirectory(p)
  PROVE  IInv'
BY IlockFails DEF LinkDirectory, At

\* dirlink() finds the name and puts what it names, with dp locked.
LEMMA LinkTakenIInv ==
  ASSUME IInv, NEW p \in Proc, At(p, "parent"), args[p].call = "link2", lock[dp[p]] = NoProc, Load(dp[p]),
         NEW f \in Inum, Iget(f, {dp[p]}), lock' = [lock EXCEPT ![dp[p]] = p],
         Put(p, <<f>>), Goto(p, "link_exists"), UNCHANGED <<entries, args, dp, ip>>,
         UNCHANGED <<dinode, owned, phase>>
  PROVE  IInv'
<1>0. /\ pc[p] = "parent" /\ puts[p] = <<>> /\ panicked = "no" /\ args[p].call = "link2"
      /\ lock' = [lock EXCEPT ![dp[p]] = p] /\ lock[dp[p]] = NoProc
      /\ Iget(f, {dp[p]}) /\ Load(dp[p])
      /\ puts' = [puts EXCEPT ![p] = <<f>>] /\ pc' = [pc EXCEPT ![p] = "link_exists"]
      /\ dinode' = dinode /\ entries' = entries
      /\ cwd' = cwd /\ file' = file /\ args' = args /\ ip' = ip /\ dp' = dp /\ phase' = phase
  BY DEF At, Goto, Put, owned
<1>1. panicked = "no" /\ FsTyped /\ ProcTyped /\ Place(p) /\ Freeing(p)
  BY <1>0 DEF IInv, Typed
<1>2. dp[p] \in Inum /\ ip[p] \in Inum /\ puts[p] = <<>> /\ phase[p] = "lock"
  BY <1>0, <1>1, NullInum DEF Place, DpPC, IpPC, DpLocked, IpLocked, ProcTyped
<1>3. /\ ref' \in [Inum -> Nat] /\ valid' \in [Inum -> BOOLEAN]
      /\ \A j \in Inum :
           /\ ref'[j] = ref[j] + One(j = f)
           /\ valid[j] /\ ref[j] >= 1 => valid'[j]
           /\ valid'[j] => valid[j] \/ j = dp[p]
      /\ valid'[dp[p]] /\ (panicked' = "no" => LockPanic(dp[p]) = "no")
  BY <1>0, <1>1, <1>2, IgetFacts DEF Typed
<1>4. CacheInv' /\ inode' \in [Inum -> Dinode]
  BY <1>0, <1>1, <1>2, <1>3, LoadCache
<1>5. /\ dp'[p] = dp[p] /\ ip'[p] = ip[p] /\ cwd'[p] = cwd[p] /\ file'[p] = file[p]
      /\ puts'[p] = <<f>> /\ pc'[p] = "link_exists" /\ args'[p] = args[p] /\ phase'[p] = "lock"
  BY <1>0, <1>1, <1>2 DEF ProcTyped
<1>6. FsTyped'
  BY <1>0, <1>1, <1>2, <1>3, <1>4 DEF FsTyped
<1>7. ProcTyped'
  <2>1. <<f>> \in Seq(Inum) /\ Len(<<f>>) <= 2
    OBVIOUS
  <2> QED
    BY <1>0, <1>1, <1>2, <2>1 DEF ProcTyped, PC
<1>8. Others(p)
  BY <1>0, <1>1 DEF Others, ProcTyped
<1>9. LockFrame(p)
  BY <1>0, <1>1, <1>2, <1>3, InodeAssumption DEF LockFrame, FsTyped
<1>10. CacheInv'
  BY <1>4
<1>11. ASSUME NEW i \in Inum PROVE ref'[i] + Slots(p, i) = ref[i] + Slots(p, i)'
  <2>1. /\ In(puts[p], 1, i) = 0 /\ In(puts[p], 2, i) = 0
        /\ In(puts'[p], 1, i) = One(f = i) /\ In(puts'[p], 2, i) = 0
    BY <1>2, <1>5, InNone, InOne
  <2>2. ref[i] \in Nat /\ ref'[i] = ref[i] + One(i = f)
    BY <1>0, <1>1, <1>3 DEF FsTyped
  <2> QED
    BY <1>2, <1>5, <2>1, <2>2, NullInum DEF Slots, One
<1>12. panicked' = "no" => Place(p)' /\ Freeing(p)'
  BY <1>0, <1>1, <1>2, <1>3, <1>5, NullInum
     DEF Place, Freeing, DpPC, IpPC, DpLocked, IpLocked, WantsParent, FsTyped
<1>13. panicked' = "no" => ParentInv'
  BY <1>0, <1>1, <1>2, <1>5, <1>8, ParentStays
<1> QED
  BY <1>1, <1>6, <1>7, <1>8, <1>9, <1>10, <1>11, <1>12, <1>13, StepIInv DEF Typed

\* dirlink() enters the new name.
LEMMA LinkNewIInv ==
  ASSUME IInv, NEW p \in Proc, At(p, "parent"), args[p].call = "link2", Load(dp[p]), Ilock(dp[p]),
         entries' = [entries EXCEPT ![dp[p]][args[p].name] = ip[p]],
         Put(p, <<dp[p], ip[p]>>), dp' = [dp EXCEPT ![p] = Null],
         ip' = [ip EXCEPT ![p] = Null], Return(p), UNCHANGED <<ref, lock>>,
         UNCHANGED <<dinode, owned, phase>>
  PROVE  IInv'
<1>0. /\ pc[p] = "parent" /\ puts[p] = <<>> /\ panicked = "no" /\ args[p].call = "link2"
      /\ Ilock(dp[p]) /\ Load(dp[p])
      /\ entries' = [entries EXCEPT ![dp[p]][args[p].name] = ip[p]]
      /\ puts' = [puts EXCEPT ![p] = <<dp[p], ip[p]>>] /\ dp' = [dp EXCEPT ![p] = Null]
      /\ ip' = [ip EXCEPT ![p] = Null] /\ pc' = [pc EXCEPT ![p] = "idle"] /\ args' = [args EXCEPT ![p] = NoArgs]
      /\ dinode' = dinode /\ ref' = ref /\ lock' = lock
      /\ cwd' = cwd /\ file' = file /\ phase' = phase
  BY DEF At, Goto, Put, Return, owned
<1>1. panicked = "no" /\ FsTyped /\ ProcTyped /\ Place(p) /\ Freeing(p)
  BY <1>0 DEF IInv, Typed
<1>2. dp[p] \in Inum /\ ip[p] \in Inum /\ puts[p] = <<>> /\ phase[p] = "lock"
  BY <1>0, <1>1, NullInum DEF Place, DpPC, IpPC, DpLocked, IpLocked, ProcTyped
<1>3. /\ lock[dp[p]] = NoProc /\ valid' \in [Inum -> BOOLEAN] /\ valid'[dp[p]]
      /\ \A j \in Inum : (valid[j] => valid'[j]) /\ (valid'[j] => valid[j] \/ j = dp[p])
      /\ panicked' = "no" => LockPanic(dp[p]) = "no"
  BY <1>0, <1>1, <1>2, IlockFacts DEF Typed
<1>4. CacheInv' /\ inode' \in [Inum -> Dinode]
  BY <1>0, <1>1, <1>2, <1>3, LoadCache
<1>5a. NoArgs.call = "none"
  BY DEF NoArgs
<1>5. /\ dp'[p] = Null /\ ip'[p] = Null /\ cwd'[p] = cwd[p] /\ file'[p] = file[p]
      /\ puts'[p] = <<dp[p], ip[p]>> /\ pc'[p] = "idle" /\ args'[p].call = "none" /\ phase'[p] = "lock"
  BY <1>0, <1>1, <1>2, <1>5a DEF ProcTyped
<1>6. FsTyped'
  <2>1. args[p].name \in Elem /\ entries \in [Inum -> [Elem -> Inum \cup {Null}]]
    BY <1>1 DEF ProcTyped, FsTyped, Arg
  <2>2. entries' \in [Inum -> [Elem -> Inum \cup {Null}]]
    BY <1>0, <1>2, <2>1
  <2> QED
    BY <1>0, <1>1, <1>2, <1>3, <1>4, <2>2 DEF FsTyped
<1>7. ProcTyped'
  <2>1. NoArgs \in Arg
    BY EmptySeq DEF NoArgs, Arg, Elem
  <2>2. <<dp[p], ip[p]>> \in Seq(Inum) /\ Len(<<dp[p], ip[p]>>) <= 2
    BY <1>2
  <2> QED
    BY <1>0, <1>1, <1>2, <2>1, <2>2 DEF ProcTyped, PC
<1>8. Others(p)
  BY <1>0, <1>1 DEF Others, ProcTyped
<1>9. LockFrame(p)
  BY <1>0, <1>1, <1>2, <1>3, InodeAssumption DEF LockFrame, FsTyped
<1>10. CacheInv'
  BY <1>4
<1>11. ASSUME NEW i \in Inum PROVE ref'[i] + Slots(p, i) = ref[i] + Slots(p, i)'
  <2>1. /\ In(puts[p], 1, i) = 0 /\ In(puts[p], 2, i) = 0
        /\ In(puts'[p], 1, i) = One(dp[p] = i) /\ In(puts'[p], 2, i) = One(ip[p] = i)
    BY <1>2, <1>5, InNone, InTwo
  <2>2. ref[i] \in Nat /\ ref'[i] = ref[i]
    BY <1>0, <1>1 DEF FsTyped
  <2> QED
    BY <1>2, <1>5, <2>1, <2>2, NullInum DEF Slots, One
<1>12. panicked' = "no" => Place(p)' /\ Freeing(p)'
  BY <1>0, <1>1, <1>2, <1>3, <1>5, NullInum
     DEF Place, Freeing, DpPC, IpPC, DpLocked, IpLocked, WantsParent, FsTyped
<1>13. panicked' = "no" => ParentInv'
  BY <1>0, <1>1, <1>2, <1>5, <1>8, ParentStays
<1> QED
  BY <1>1, <1>6, <1>7, <1>8, <1>9, <1>10, <1>11, <1>12, <1>13, StepIInv DEF Typed

\* link(): the entry.
LEMMA LinkEntryIInv ==
  ASSUME IInv, NEW p \in Proc, LinkEntry(p)
  PROVE  IInv'
<1> DEFINE f == Dirlookup(dp[p], args[p].name)
<1>1. /\ At(p, "parent") /\ args[p].call = "link2" /\ lock[dp[p]] = NoProc /\ Load(dp[p])
      /\ UNCHANGED <<dinode, owned, phase>>
  BY DEF LinkEntry
<1>2. \/ /\ f # Null /\ Iget(f, {dp[p]}) /\ lock' = [lock EXCEPT ![dp[p]] = p]
         /\ Put(p, <<f>>) /\ Goto(p, "link_exists") /\ UNCHANGED <<entries, args, dp, ip>>
      \/ /\ Ilock(dp[p]) /\ entries' = [entries EXCEPT ![dp[p]][args[p].name] = ip[p]]
         /\ Put(p, <<dp[p], ip[p]>>) /\ dp' = [dp EXCEPT ![p] = Null]
         /\ ip' = [ip EXCEPT ![p] = Null] /\ Return(p) /\ UNCHANGED <<ref, lock>>
  BY DEF LinkEntry
<1>3. f \in Inum \cup {Null}
  BY <1>1, LookupType DEF At
<1> HIDE DEF f
<1>4. CASE /\ f # Null /\ Iget(f, {dp[p]}) /\ lock' = [lock EXCEPT ![dp[p]] = p]
           /\ Put(p, <<f>>) /\ Goto(p, "link_exists") /\ UNCHANGED <<entries, args, dp, ip>>
  BY <1>1, <1>3, <1>4, LinkTakenIInv
<1>5. CASE /\ Ilock(dp[p]) /\ entries' = [entries EXCEPT ![dp[p]][args[p].name] = ip[p]]
           /\ Put(p, <<dp[p], ip[p]>>) /\ dp' = [dp EXCEPT ![p] = Null]
           /\ ip' = [ip EXCEPT ![p] = Null] /\ Return(p) /\ UNCHANGED <<ref, lock>>
  BY <1>1, <1>5, LinkNewIInv
<1> QED
  BY <1>2, <1>4, <1>5

\* link() gives up in a locked directory.
LEMMA LinkExistsIInv ==
  ASSUME IInv, NEW p \in Proc, LinkExists(p)
  PROVE  IInv'
BY UnlockFails DEF LinkExists, At

\* link() counts back.
LEMMA LinkBadIInv ==
  ASSUME IInv, NEW p \in Proc, LinkBad(p)
  PROVE  IInv'
<1> DEFINE x == [Loaded(ip[p]) EXCEPT !.nlink = Loaded(ip[p]).nlink - 1]
<1>0. /\ pc[p] = "link_bad" /\ puts[p] = <<>> /\ panicked = "no" /\ Ilock(ip[p])
      /\ inode' = [inode EXCEPT ![ip[p]] = x] /\ dinode' = [dinode EXCEPT ![ip[p]] = x]
      /\ puts' = [puts EXCEPT ![p] = <<ip[p]>>]
      /\ ip' = [ip EXCEPT ![p] = Null] /\ pc' = [pc EXCEPT ![p] = "idle"] /\ args' = [args EXCEPT ![p] = NoArgs]
      /\ entries' = entries /\ ref' = ref /\ lock' = lock
      /\ cwd' = cwd /\ file' = file /\ dp' = dp /\ phase' = phase
  BY DEF LinkBad, Iupdate, Put, Return, At, Goto, owned
<1> HIDE DEF x
<1>1. panicked = "no" /\ FsTyped /\ ProcTyped /\ Place(p) /\ Freeing(p)
  BY <1>0 DEF IInv, Typed
<1>2. ip[p] \in Inum /\ dp[p] = Null /\ puts[p] = <<>> /\ phase[p] = "lock"
  BY <1>0, <1>1, NullInum DEF Place, DpPC, IpPC, DpLocked, IpLocked, ProcTyped
<1>3. /\ lock[ip[p]] = NoProc /\ valid' \in [Inum -> BOOLEAN] /\ valid'[ip[p]]
      /\ \A j \in Inum : (valid[j] => valid'[j]) /\ (valid'[j] => valid[j] \/ j = ip[p])
      /\ panicked' = "no" => LockPanic(ip[p]) = "no"
  BY <1>0, <1>1, <1>2, IlockFacts DEF Typed
<1>4. CacheInv' /\ inode' \in [Inum -> Dinode] /\ dinode' \in [Inum -> Dinode]
  <2>1. /\ Loaded(ip[p]) = dinode[ip[p]] /\ dinode[ip[p]] \in Dinode /\ CacheInv
        /\ LockPanic(ip[p]) = "no" => dinode[ip[p]].type # "free"
    BY <1>1, <1>2, LoadedIsDisk DEF IInv
  <2>2. dinode[ip[p]].nlink \in Int
    BY <1>1, <1>2 DEF FsTyped, Dinode
  <2>3. x \in Dinode /\ (dinode[ip[p]].type # "free" => x.type # "free")
    BY <2>1, <2>2 DEF Dinode, x
  <2> QED
    BY <1>0, <1>1, <1>2, <1>3, <2>1, <2>3 DEF CacheInv, FsTyped
<1>5a. NoArgs.call = "none"
  BY DEF NoArgs
<1>5. /\ dp'[p] = Null /\ ip'[p] = Null /\ cwd'[p] = cwd[p] /\ file'[p] = file[p]
      /\ puts'[p] = <<ip[p]>> /\ pc'[p] = "idle" /\ args'[p].call = "none" /\ phase'[p] = "lock"
  BY <1>0, <1>1, <1>2, <1>5a DEF ProcTyped
<1>6. FsTyped'
  BY <1>0, <1>1, <1>2, <1>3, <1>4 DEF FsTyped
<1>7. ProcTyped'
  <2>1. NoArgs \in Arg
    BY EmptySeq DEF NoArgs, Arg, Elem
  <2>2. <<ip[p]>> \in Seq(Inum) /\ Len(<<ip[p]>>) <= 2
    BY <1>2
  <2> QED
    BY <1>0, <1>1, <1>2, <2>1, <2>2 DEF ProcTyped, PC
<1>8. Others(p)
  BY <1>0, <1>1 DEF Others, ProcTyped
<1>9. LockFrame(p)
  BY <1>0, <1>1, <1>2, <1>3, InodeAssumption DEF LockFrame, FsTyped
<1>10. CacheInv'
  BY <1>4
<1>11. ASSUME NEW i \in Inum PROVE ref'[i] + Slots(p, i) = ref[i] + Slots(p, i)'
  <2>1. /\ In(puts[p], 1, i) = 0 /\ In(puts[p], 2, i) = 0
        /\ In(puts'[p], 1, i) = One(ip[p] = i) /\ In(puts'[p], 2, i) = 0
    BY <1>2, <1>5, InNone, InOne
  <2>2. ref[i] \in Nat /\ ref'[i] = ref[i]
    BY <1>0, <1>1 DEF FsTyped
  <2> QED
    BY <1>2, <1>5, <2>1, <2>2, NullInum DEF Slots, One
<1>12. panicked' = "no" => Place(p)' /\ Freeing(p)'
  BY <1>0, <1>1, <1>2, <1>3, <1>5, NullInum
     DEF Place, Freeing, DpPC, IpPC, DpLocked, IpLocked, WantsParent, FsTyped
<1>13. panicked' = "no" => ParentInv'
  BY <1>0, <1>1, <1>2, <1>5, <1>8, ParentStays
<1> QED
  BY <1>1, <1>6, <1>7, <1>8, <1>9, <1>10, <1>11, <1>12, <1>13, StepIInv DEF Typed

-----------------------------------------------------------------------------
(***************************************************************************)
(* The invariant                                                           *)
(***************************************************************************)
\* Initially every process has the root as current directory, and nothing
\* else points to a cache entry (userinit, fork).
LEMMA InitPointers ==
  ASSUME Init, NEW i \in Inum
  PROVE  ref[i] = Pointers(i)
<1>1. Cwds(i) = IF i = Root THEN Proc ELSE {}
  BY DEF Init, Cwds
<1>2. Files(i) = {} /\ Dps(i) = {} /\ Ips(i) = {}
  BY NullInum DEF Init, Files, Dps, Ips
<1>3. Places(puts, i) = {}
  BY DEF Init, Places
<1>4. Cardinality({}) = 0 /\ Cardinality(Proc) \in Nat
  BY FS_EmptySet, FS_CardinalityType, InodeAssumption
<1>5. Pointers(i) =
        Cardinality(Cwds(i)) + Cardinality(Files(i)) + Cardinality(Dps(i))
        + Cardinality(Ips(i)) + Cardinality(Places(puts, i))
  BY DEF Pointers, Cwds, Files, Dps, Ips, Places
<1>6. ref[i] = IF i = Root THEN Cardinality(Proc) ELSE 0
  BY DEF Init
<1> QED
  BY <1>1, <1>2, <1>3, <1>4, <1>5, <1>6

\* mkfs and userinit() establish the invariant.
LEMMA InitIInv == Init => IInv
<1> SUFFICES ASSUME Init PROVE IInv
  OBVIOUS
<1>1. RefTracksPointers
  BY InitPointers DEF RefTracksPointers
<1>2. Cardinality(Proc) \in Nat
  BY FS_CardinalityType, InodeAssumption
<1>3. FsTyped
  <2>1. NoEntries \in [Elem -> Inum \cup {Null}] /\ Root \in Inum /\ {".", ".."} \subseteq Elem
    BY NullInum DEF NoEntries, Elem
  <2>2. entries \in [Inum -> [Elem -> Inum \cup {Null}]]
    <3>1. [NoEntries EXCEPT !["."] = Root, ![".."] = Root] \in [Elem -> Inum \cup {Null}]
      BY <2>1
    <3> QED
      BY <2>1, <3>1 DEF Init
  <2> QED
    BY <1>2, <2>2 DEF Init, FsTyped, Dinode, FreeInode
<1>4. ProcTyped
  <2>1. NoArgs \in Arg
    BY EmptySeq DEF NoArgs, Arg, Elem
  <2>2. <<>> \in Seq(Inum) /\ Len(<<>>) = 0
    BY EmptySeq
  <2> QED
    BY <2>1, <2>2, NullInum DEF Init, ProcTyped, PC
<1>5. CacheInv
  BY DEF Init, CacheInv
<1>6. ASSUME NEW p \in Proc PROVE Place(p) /\ Freeing(p)
  BY DEF Init, Place, Freeing, DpPC, IpPC, DpLocked, IpLocked, NoArgs, WantsParent
<1>7. ParentInv
  BY DEF Init, ParentInv
<1> QED
  BY <1>1, <1>3, <1>4, <1>5, <1>6, <1>7 DEF IInv, Typed

\* A step that changes nothing.
LEMMA SameIInv == IInv /\ UNCHANGED vars => IInv'
<1> SUFFICES ASSUME IInv, UNCHANGED vars PROVE IInv'
  OBVIOUS
<1>1. /\ dinode' = dinode /\ entries' = entries /\ ref' = ref /\ valid' = valid /\ inode' = inode
      /\ lock' = lock /\ cwd' = cwd /\ file' = file /\ pc' = pc /\ args' = args /\ dp' = dp
      /\ ip' = ip /\ puts' = puts /\ phase' = phase /\ panicked' = panicked
  BY DEF vars, disk, icache, owned
<1>2. Typed' /\ CacheInv'
  BY <1>1 DEF IInv, Typed, FsTyped, ProcTyped, CacheInv
<1>3. RefTracksPointers'
  BY <1>1 DEF IInv, RefTracksPointers, Pointers
<1>4. panicked' = "no" => ParentInv' /\ \A p \in Proc : Place(p)' /\ Freeing(p)'
  BY <1>1 DEF IInv, ParentInv, Place, Freeing, WantsParent
<1> QED
  BY <1>2, <1>3, <1>4 DEF IInv

\* The paths of the programs, and the places their walks begin.
LEMMA Paths ==
  /\ AbsPaths \subseteq Seq(Elem) /\ RelPaths \subseteq Seq(Elem) /\ <<>> \in Seq(Elem)
  /\ \A s \in LinkPaths : s[1] \in Seq(Elem) /\ s[2] \in Seq(Elem)
  /\ \A what \in Calls : what \in {"open", "creat", "mkdir", "unlink", "chdir", "link"}
BY InodeAssumption, EmptySeq DEF Elem

\* Every step of the system calls preserves the invariant.
LEMMA NextIInv == IInv /\ [Next]_vars => IInv'
<1> SUFFICES ASSUME IInv, [Next]_vars PROVE IInv'
  OBVIOUS
<1>1. ASSUME NEW p \in Proc, NEW what \in Calls, NEW s \in AbsPaths, Begin(p, what, s, <<>>, Root)
      PROVE  IInv'
  BY <1>1, Paths, NullInum, BeginIInv
<1>2. ASSUME NEW p \in Proc, NEW what \in Calls, NEW s \in RelPaths, Begin(p, what, s, <<>>, cwd[p])
      PROVE  IInv'
  <2>1. cwd[p] \in Inum
    BY DEF IInv, Typed, ProcTyped
  <2> QED
    BY <1>2, <2>1, Paths, BeginIInv
<1>3. ASSUME NEW p \in Proc, NEW s \in LinkPaths, Begin(p, "link", s[1], s[2], Root)
      PROVE  IInv'
  <2>1. s[1] \in Seq(Elem) /\ s[2] \in Seq(Elem)
    BY Paths
  <2> QED
    BY <1>3, <2>1, NullInum, BeginIInv
<1>4. ASSUME NEW p \in Proc, IputLock(p) \/ IputFree(p) \/ IputUnref(p)
      PROVE  IInv'
  BY <1>4, IputLockIInv, IputFreeIInv, IputUnrefIInv
<1>5. ASSUME NEW p \in Proc, NamexEnds(p) \/ NamexStep(p)
      PROVE  IInv'
  BY <1>5, NamexEndsIInv, NamexStepIInv
<1>6. ASSUME NEW p \in Proc, Chdir(p) \/ UseFile(p) \/ CloseFile(p)
      PROVE  IInv'
  BY <1>6, ChdirIInv, UseFileIInv, CloseFileIInv
<1>7. ASSUME NEW p \in Proc, CreateFound(p) \/ Ialloc(p) \/ CreateNew(p)
      PROVE  IInv'
  BY <1>7, CreateFoundIInv, IallocIInv, CreateNewIInv
<1>8. ASSUME NEW p \in Proc, NEW ok \in BOOLEAN, Open(p, ok) \/ CreateExists(p, ok) \/ Created(p, ok)
      PROVE  IInv'
  BY <1>8, OpenIInv, CreateExistsIInv, CreatedIInv
<1>9. ASSUME NEW p \in Proc, UnlinkLookup(p) \/ UnlinkIp(p) \/ UnlinkBad(p) \/ Unlinked(p)
      PROVE  IInv'
  BY <1>9, UnlinkLookupIInv, UnlinkIpIInv, UnlinkBadIInv, UnlinkedIInv
<1>10. ASSUME NEW p \in Proc,
              LinkCount(p) \/ LinkDirectory(p) \/ LinkEntry(p) \/ LinkExists(p) \/ LinkBad(p)
       PROVE  IInv'
  BY <1>10, LinkCountIInv, LinkDirectoryIInv, LinkEntryIInv, LinkExistsIInv, LinkBadIInv
<1>11. ASSUME UNCHANGED vars PROVE IInv'
  BY <1>11, SameIInv
<1> QED
  BY <1>1, <1>2, <1>3, <1>4, <1>5, <1>6, <1>7, <1>8, <1>9, <1>10, <1>11 DEF Next, Halted

(***************************************************************************)
(* The invariant of the inode cache: the places of the system calls with   *)
(* the pointers and locks they hold, the count of the pointers, and the    *)
(* cached copies (fs.c, sysfile.c).                                        *)
(***************************************************************************)
THEOREM InodeInvariant == Spec => []IInv
BY InitIInv, NextIInv, PTL DEF Spec

(***************************************************************************)
(* "ip->ref tracks the number of in-memory pointers to the entry"          *)
(* (fs.c:125), for every number of processes, inodes and names and every   *)
(* set of paths, ".." included (iget, idup, iput, namex, sysfile.c).       *)
(***************************************************************************)
THEOREM RefTracksPointersThm == Spec => []RefTracksPointers
<1>1. IInv => RefTracksPointers
  BY DEF IInv
<1> QED
  BY <1>1, InodeInvariant, PTL

(***************************************************************************)
(* "i-node cache is write-through" (fs.c:219): a valid entry of the cache  *)
(* is what the disk says (iupdate, iput, ialloc, ilock).                   *)
(***************************************************************************)
THEOREM CacheIsWriteThroughThm == Spec => []CacheIsWriteThrough
<1>1. IInv => CacheIsWriteThrough
  BY DEF IInv, CacheInv, CacheIsWriteThrough
<1> QED
  BY <1>1, InodeInvariant, PTL

-----------------------------------------------------------------------------
(***************************************************************************)
(* Links                                                                   *)
(***************************************************************************)
\* p has a pointer to i.
Points(p, i) ==
  \/ cwd[p] = i \/ file[p] = i \/ dp[p] = i \/ ip[p] = i
  \/ \E k \in 1..Len(puts[p]) : puts[p][k] = i

\* i is the inode that p has allocated and not linked yet.
Mine(p, i) == pc[p] = "create_new" /\ ip[p] = i

Panics == {"no", "ialloc: no inodes", "iget: no inodes"}

\* What is counted as a link is finite.
LEMMA CountedNat ==
  ASSUME NEW i
  PROVE  /\ IsFiniteSet(Entries(i)) /\ IsFiniteSet(Subs(i)) /\ IsFiniteSet(Pending(i))
         /\ Cardinality(Entries(i)) \in Nat /\ Cardinality(Subs(i)) \in Nat
         /\ Cardinality(Pending(i)) \in Nat /\ Counted(i) \in Nat
<1>1. IsFiniteSet(Inum)
  BY InodeAssumption, FS_Interval DEF Inum
<1>2. IsFiniteSet(Inum \X Name)
  BY <1>1, InodeAssumption, FS_Product
<1>3. Entries(i) \subseteq Inum \X Name /\ Subs(i) \subseteq Name /\ Pending(i) \subseteq Proc
  BY DEF Entries, Subs, Pending
<1>4. IsFiniteSet(Entries(i)) /\ IsFiniteSet(Subs(i)) /\ IsFiniteSet(Pending(i))
  BY <1>2, <1>3, InodeAssumption, FS_Subset
<1>5. /\ Cardinality(Entries(i)) \in Nat /\ Cardinality(Subs(i)) \in Nat
      /\ Cardinality(Pending(i)) \in Nat
  BY <1>4, FS_CardinalityType
<1> QED
  BY <1>4, <1>5 DEF Counted

\* The same after a step.
LEMMA CountedNext ==
  ASSUME NEW i
  PROVE  /\ IsFiniteSet(Entries(i)') /\ IsFiniteSet(Subs(i)') /\ IsFiniteSet(Pending(i)')
         /\ Cardinality(Entries(i)') \in Nat /\ Cardinality(Subs(i)') \in Nat
         /\ Cardinality(Pending(i)') \in Nat /\ Counted(i)' \in Nat
         /\ Counted(i)' = ((Cardinality(Entries(i)') + Cardinality(Subs(i)'))
                           + Cardinality(Pending(i)')) + (IF i = Root THEN 1 ELSE 0)
<1>1. IsFiniteSet(Inum)
  BY InodeAssumption, FS_Interval DEF Inum
<1>2. IsFiniteSet(Inum \X Name)
  BY <1>1, InodeAssumption, FS_Product
<1>3. Entries(i)' \subseteq Inum \X Name /\ Subs(i)' \subseteq Name /\ Pending(i)' \subseteq Proc
  BY DEF Entries, Subs, Pending
<1>4. IsFiniteSet(Entries(i)') /\ IsFiniteSet(Subs(i)') /\ IsFiniteSet(Pending(i)')
  BY <1>2, <1>3, InodeAssumption, FS_Subset
<1>5. /\ Cardinality(Entries(i)') \in Nat /\ Cardinality(Subs(i)') \in Nat
      /\ Cardinality(Pending(i)') \in Nat
  BY <1>4, FS_CardinalityType
<1>6. Counted(i)' = ((Cardinality(Entries(i)') + Cardinality(Subs(i)'))
                     + Cardinality(Pending(i)')) + (IF i = Root THEN 1 ELSE 0)
  BY DEF Counted
<1> QED
  BY <1>4, <1>5, <1>6

\* An inode with no links has no entry, no subdirectory and none pending.
LEMMA Unlinked0 ==
  ASSUME Typed, TreeInv, NEW i \in Inum, dinode[i].nlink < 1
  PROVE  Entries(i) = {} /\ Subs(i) = {} /\ Pending(i) = {} /\ i # Root
<1>1. dinode[i].nlink \in Int /\ Counted(i) <= dinode[i].nlink
  BY DEF Typed, FsTyped, Dinode, TreeInv
<1>2. /\ IsFiniteSet(Entries(i)) /\ IsFiniteSet(Subs(i)) /\ IsFiniteSet(Pending(i))
      /\ Cardinality(Entries(i)) \in Nat /\ Cardinality(Subs(i)) \in Nat
      /\ Cardinality(Pending(i)) \in Nat
  BY CountedNat
<1>3. /\ Cardinality(Entries(i)) = 0 /\ Cardinality(Subs(i)) = 0 /\ Cardinality(Pending(i)) = 0
      /\ i # Root
  BY <1>1, <1>2 DEF Counted
<1> QED
  BY <1>2, <1>3, FS_EmptySet

\* An inode with a link is allocated and linked.
LEMMA LinkedUsable ==
  ASSUME IInv, LInv, panicked = "no", NEW i \in Inum, dinode[i].nlink > 0
  PROVE  Usable(i)
<1>1. dinode[i].nlink \in Int /\ dinode[i].type # "free"
  BY DEF IInv, Typed, FsTyped, Dinode, LInv, TreeInv
<1>2. ~Fresh(i)
  BY <1>1 DEF LInv, Seen, Fresh
<1> QED
  BY <1>1, <1>2 DEF Usable

\* The number of links of an inode is a natural number.
LEMMA LinksNat ==
  ASSUME Typed, TreeInv, NEW i \in Inum
  PROVE  dinode[i].nlink \in Nat
BY CountedNat DEF Typed, FsTyped, Dinode, TreeInv

\* What has a name has a link.
LEMMA NamedLinked ==
  ASSUME Typed, TreeInv, NEW d \in Inum, NEW e \in Name, NEW i \in Inum, IsDir(d), entries[d][e] = i
  PROVE  dinode[i].nlink > 0
<1>1. <<d, e>> \in Entries(i)
  BY DEF Entries, IsDir
<1>2. dinode[i].nlink \in Nat
  BY LinksNat
<1> QED
  BY <1>1, <1>2, Unlinked0

\* The root is linked.
LEMMA RootLinked ==
  ASSUME Typed, TreeInv
  PROVE  dinode[Root].nlink > 0
BY Unlinked0, LinksNat, NullInum

\* dirlookup() finds an inode with a link or, under ".", the directory itself.
LEMMA LookedUp ==
  ASSUME IInv, LInv, panicked = "no", NEW d \in Inum, IsDir(d), Usable(d), NEW e \in Elem, e # "..",
         NEW i \in Inum, entries[d][e] = i
  PROVE  Usable(i) /\ (i = d \/ dinode[i].nlink > 0)
<1>1. Typed /\ TreeInv
  BY DEF IInv, LInv
<1>2. CASE e \in Name
  BY <1>1, <1>2, NamedLinked, LinkedUsable
<1>3. CASE e = "."
  BY <1>1, <1>3 DEF TreeInv, Usable
<1> QED
  BY <1>2, <1>3 DEF Elem

\* A pointer is counted.
LEMMA PointsRef ==
  ASSUME IInv, NEW p \in Proc, NEW i \in Inum, cwd[p] = i \/ file[p] = i \/ dp[p] = i \/ ip[p] = i
  PROVE  ref[i] \in Nat /\ ref[i] >= 1
BY Referenced DEF IInv

\* ilock() of an allocated inode that is referenced does not panic.
LEMMA NoLockPanic ==
  ASSUME NEW i \in Inum, Usable(i), ref[i] \in Nat, ref[i] >= 1
  PROVE  LockPanic(i) = "no"
BY DEF LockPanic, Usable

\* What ilock() and iget() may say.
LEMMA IgetPanics ==
  ASSUME NEW i, NEW held, \A j \in held : LockPanic(j) = "no", Iget(i, held)
  PROVE  panicked' \in Panics
BY DEF Iget, Panics

\* Nobody else points to what iput() frees, and p only to put it.
LEMMA FreesAlone ==
  ASSUME IInv, LInv, panicked = "no", NEW p \in Proc, phase[p] = "free"
  PROVE  /\ puts[p] # <<>> /\ Head(puts[p]) \in Inum /\ puts[p][1] = Head(puts[p]) /\ Len(puts[p]) >= 1
         /\ Usable(Head(puts[p])) /\ dinode[Head(puts[p])].nlink = 0 /\ ref[Head(puts[p])] = 1
         /\ \A q \in Proc : q # p => ~Points(q, Head(puts[p]))
         /\ cwd[p] # Head(puts[p]) /\ file[p] # Head(puts[p]) /\ dp[p] # Head(puts[p])
         /\ ip[p] # Head(puts[p]) /\ (Len(puts[p]) >= 2 => puts[p][2] # Head(puts[p]))
<1> DEFINE h == Head(puts[p])
<1>1. Typed /\ RefTracksPointers /\ Freeing(p) /\ Alone(p) /\ Live(p)
  BY DEF IInv, LInv
<1>2. puts[p] \in Seq(Inum) /\ Len(puts[p]) <= 2 /\ puts[p] # <<>>
  BY <1>1 DEF Typed, ProcTyped, Freeing
<1>3. Len(puts[p]) \in Nat /\ Len(puts[p]) >= 1 /\ h \in Inum /\ h = puts[p][1]
  BY <1>2, EmptySeq
<1>4. dinode[h].nlink = 0 /\ ref[h] = 1
  BY <1>1 DEF Alone
<1>5. Usable(h)
  BY <1>1, <1>3 DEF Live
<1>6. In(puts[p], 1, h) = 1
  BY <1>3 DEF In, One
<1>7. ASSUME NEW q \in Proc
      PROVE  /\ cwd[q] # h /\ file[q] # h /\ dp[q] # h /\ ip[q] # h
             /\ In(puts[q], 2, h) = 0 /\ (q # p => In(puts[q], 1, h) = 0)
  BY <1>1, <1>3, <1>4, <1>6, Sole
<1>8. ASSUME NEW q \in Proc, q # p PROVE ~Points(q, h)
  <2>1. puts[q] \in Seq(Inum) /\ Len(puts[q]) <= 2 /\ Len(puts[q]) \in Nat
    BY <1>1 DEF Typed, ProcTyped
  <2>2. \A k \in 1..Len(puts[q]) : puts[q][k] # h
    BY <1>7, <1>8, <2>1 DEF In, One
  <2> QED
    BY <1>7, <2>2 DEF Points
<1>9. Len(puts[p]) >= 2 => puts[p][2] # h
  BY <1>3, <1>7 DEF In, One
<1> QED
  BY <1>2, <1>3, <1>4, <1>5, <1>7, <1>8, <1>9

\* What a step of p may do to the tree, as far as the others can see: only an
\* inode that nobody else points to changes its type, unless it was free; only
\* what p points to, or what has links, changes its counts; a directory is
\* written under its lock.
Frame(p) ==
  /\ \A i \in Inum :
       /\ \/ dinode'[i].type = dinode[i].type \/ dinode[i].type = "free"
          \/ \A q \in Proc : q # p => ~Points(q, i)
       /\ dinode'[i] = dinode[i] \/ Usable(i) \/ dinode[i].type = "free" \/ Mine(p, i)
       /\ \/ dinode'[i].nlink = dinode[i].nlink /\ ref'[i] = ref[i]
          \/ Points(p, i) \/ dinode[i].nlink > 0 \/ dinode[i].type = "free"
       /\ entries'[i] = entries[i] \/ lock[i] = p \/ lock[i] = NoProc \/ Mine(p, i)
  /\ pc'[p] = "create_new" =>
       ip'[p] = Null \/ Mine(p, ip'[p]) \/ dinode[ip'[p]].type = "free"

\* What others point to stays allocated.
LEMMA OthersLive ==
  ASSUME IInv, LInv, panicked = "no", NEW p \in Proc, Others(p), Frame(p), NEW q \in Proc, q # p
  PROVE  Live(q)'
<1>1. ASSUME NEW i \in Inum, Points(q, i), Usable(i) PROVE Usable(i)'
  <2>1. dinode'[i].type = dinode[i].type /\ dinode[i].type # "free"
    BY <1>1 DEF Frame, Usable
  <2>2. ASSUME NEW r \in Proc, pc'[r] = "create_new", ip'[r] = i PROVE Fresh(i)
    <3>1. CASE r = p
      BY <1>1, <2>1, <2>2, <3>1, NullInum DEF Frame, Mine, Fresh
    <3>2. CASE r # p
      BY <2>2, <3>2 DEF Others, Fresh
    <3> QED
      BY <3>1, <3>2
  <2> QED
    BY <1>1, <2>1, <2>2 DEF Usable, Fresh
<1>2. /\ cwd[q] \in Inum /\ file[q] \in Inum \cup {Null} /\ dp[q] \in Inum \cup {Null}
      /\ ip[q] \in Inum \cup {Null} /\ puts[q] \in Seq(Inum)
  BY DEF IInv, Typed, ProcTyped
<1>3. \A k \in 1..Len(puts[q]) : puts[q][k] \in Inum
  BY <1>2
<1>4. /\ cwd'[q] = cwd[q] /\ file'[q] = file[q] /\ dp'[q] = dp[q] /\ ip'[q] = ip[q]
      /\ puts'[q] = puts[q] /\ phase'[q] = phase[q] /\ pc'[q] = pc[q]
  BY DEF Others
<1>5. Live(q)
  BY DEF LInv
<1>6. \A k \in 1..Len(puts[q]) : Usable(puts[q][k]) => Usable(puts[q][k])'
  BY <1>1, <1>3, <1>4 DEF Points
<1>7. \A i \in Inum : Points(q, i) /\ Usable(i) => Usable(i)'
  BY <1>1
<1>8. Usable(cwd[q])'
  BY <1>2, <1>4, <1>5, <1>7 DEF Live, Points
<1>9. file'[q] # Null => Usable(file[q])'
  BY <1>2, <1>4, <1>5, <1>7 DEF Live, Points
<1>10. dp'[q] # Null => Usable(dp[q])'
  BY <1>2, <1>4, <1>5, <1>7 DEF Live, Points
<1>11. ip'[q] # Null /\ pc'[q] # "create_new" => Usable(ip[q])'
  BY <1>2, <1>4, <1>5, <1>7 DEF Live, Points
<1>12. \A k \in 1..Len(puts'[q]) : k > 1 \/ phase'[q] # "unref" => Usable(puts[q][k])'
  <2> SUFFICES ASSUME NEW k \in 1..Len(puts'[q]), k > 1 \/ phase'[q] # "unref"
               PROVE  Usable(puts[q][k])'
    OBVIOUS
  <2>1. k \in 1..Len(puts[q]) /\ puts'[q][k] = puts[q][k] /\ (k > 1 \/ phase[q] # "unref")
    BY <1>4
  <2>2. Usable(puts[q][k]) /\ puts[q][k] \in Inum /\ Points(q, puts[q][k])
    BY <1>3, <1>5, <2>1 DEF Live, Points
  <2> QED
    BY <1>7, <2>1, <2>2
<1> QED
  BY <1>8, <1>9, <1>10, <1>11, <1>12 DEF Live

\* What others are about to free stays without links and references.
LEMMA OthersAlone ==
  ASSUME IInv, LInv, panicked = "no", NEW p \in Proc, Others(p), Frame(p), NEW q \in Proc, q # p
  PROVE  Alone(q)'
<1> SUFFICES ASSUME phase'[q] = "free"
             PROVE  dinode'[Head(puts'[q])].nlink = 0 /\ ref'[Head(puts'[q])] = 1
  BY DEF Alone
<1>1. phase[q] = "free" /\ puts'[q] = puts[q]
  BY DEF Others
<1> DEFINE h == Head(puts[q])
<1>2. /\ h \in Inum /\ Usable(h) /\ dinode[h].nlink = 0 /\ ref[h] = 1
      /\ ~Points(p, h)
  BY <1>1, FreesAlone
<1>3. dinode'[h].nlink = dinode[h].nlink /\ ref'[h] = ref[h]
  BY <1>2 DEF Frame, Usable
<1> QED
  BY <1>1, <1>2, <1>3

\* What others have seen in a directory they hold stays so.
LEMMA OthersSeen ==
  ASSUME IInv, LInv, panicked = "no", NEW p \in Proc, Others(p), Frame(p), NEW q \in Proc, q # p
  PROVE  Seen(q)'
<1>1. /\ dp'[q] = dp[q] /\ ip'[q] = ip[q] /\ pc'[q] = pc[q] /\ args'[q] = args[q]
      /\ dp[q] \in Inum \cup {Null} /\ ip[q] \in Inum \cup {Null}
  BY DEF Others, IInv, Typed, ProcTyped
<1>2. Seen(q) /\ Live(q) /\ Place(q)
  BY DEF LInv, IInv
<1>3. ASSUME NEW i \in Inum, Usable(i), Points(q, i) PROVE dinode'[i].type = dinode[i].type
  BY <1>3 DEF Frame, Usable
<1>4. ASSUME dp[q] # Null PROVE dinode'[dp[q]].type = dinode[dp[q]].type
  BY <1>1, <1>2, <1>3, <1>4 DEF Live, Points
<1>5. ASSUME args[q].call = "link2" PROVE dinode'[ip[q]].type = dinode[ip[q]].type
  <2>1. ip[q] \in Inum /\ pc[q] # "create_new"
    BY <1>1, <1>2, <1>5 DEF Place
  <2> QED
    BY <1>2, <1>3, <2>1, NullInum DEF Live, Points
<1>6. ASSUME pc[q] \in {"create_new", "unlink_ip"} PROVE entries'[dp[q]] = entries[dp[q]]
  <2>1. dp[q] \in Inum /\ lock[dp[q]] = q
    BY <1>1, <1>2, <1>6 DEF Place, DpPC, DpLocked
  <2>2. ~Mine(p, dp[q])
    BY <1>2, <2>1, NullInum DEF Live, Mine, Usable, Fresh
  <2> QED
    BY <2>1, <2>2, InodeAssumption DEF Frame
<1>7. ASSUME pc[q] = "create_new"
      PROVE  /\ ip[q] \in Inum /\ dinode'[ip[q]] = dinode[ip[q]]
             /\ ~(pc'[p] = "create_new" /\ ip'[p] = ip[q])
  <2>1. ip[q] \in Inum /\ Fresh(ip[q]) /\ dinode[ip[q]].type # "free" /\ ~Mine(p, ip[q])
    BY <1>1, <1>2, <1>7 DEF Place, IpPC, Fresh, Seen, Mine
  <2> QED
    BY <2>1, NullInum DEF Frame, Usable
<1>8. pc'[q] \in {"parent", "create_new", "unlink_ip"} => IsDir(dp[q])' /\ args'[q].name # ".."
  BY <1>1, <1>2, <1>4, NullInum DEF Seen, IsDir, Place, DpPC
<1>9. pc'[q] = "create_new" =>
        /\ entries'[dp'[q]][args'[q].name] = Null
        /\ dinode'[ip'[q]].type = IF args'[q].call = "mkdir" THEN "dir" ELSE "file"
        /\ dinode'[ip'[q]].nlink = 0
  BY <1>1, <1>2, <1>6, <1>7 DEF Seen
<1>10. pc'[q] = "create_new" => \A r \in Proc : pc'[r] = "create_new" /\ ip'[r] = ip'[q] => r = q
  BY <1>1, <1>2, <1>7 DEF Seen, Others
<1>11. pc'[q] = "unlink_ip" => args'[q].name \in Name /\ entries'[dp'[q]][args'[q].name] = ip'[q]
  BY <1>1, <1>2, <1>6 DEF Seen
<1>12. args'[q].call = "link2" => ~IsDir(ip[q])'
  BY <1>1, <1>2, <1>5 DEF Seen, IsDir
<1>13. /\ pc'[q] = "namex" => Plain(args[q].path)'
       /\ pc'[q] \in {"namex", "found"} => Plain(args[q].new)'
  BY <1>1, <1>2 DEF Seen, Plain
<1> QED
  BY <1>8, <1>9, <1>10, <1>11, <1>12, <1>13 DEF Seen

\* A step of p preserves the invariant if it does for the tree and for p.
LEMMA StepLInv ==
  ASSUME IInv, LInv, panicked = "no", NEW p \in Proc, Others(p), Frame(p),
         panicked' \in Panics, TreeInv', Live(p)', panicked' = "no" => Alone(p)' /\ Seen(p)'
  PROVE  LInv'
<1>1. \A q \in Proc : Live(q)'
  BY OthersLive
<1>2. panicked' = "no" => \A q \in Proc : Alone(q)' /\ Seen(q)'
  BY OthersAlone, OthersSeen
<1> QED
  BY <1>1, <1>2 DEF LInv, Panics

-----------------------------------------------------------------------------
(***************************************************************************)
(* Steps that leave the tree alone                                         *)
(***************************************************************************)
\* Links that are pending are those of p, or were pending before.
LEMMA PendingFalls ==
  ASSUME NEW p \in Proc, Others(p), NEW i, p \in Pending(i)' => p \in Pending(i)
  PROVE  Cardinality(Pending(i)') <= Cardinality(Pending(i))
<1>1. Pending(i)' \subseteq Pending(i)
  BY DEF Others, Pending
<1> QED
  BY <1>1, CountedNat, FS_Subset

\* The tree is as it was, and no more links are pending.
LEMMA SameTree ==
  ASSUME IInv, LInv, NEW p \in Proc, Others(p), dinode' = dinode, entries' = entries,
         pc[p] = "create_new" => pc'[p] = "create_new" /\ ip'[p] = ip[p],
         pc'[p] = "unlinked" \/ args'[p].call = "link2" =>
           ip'[p] = ip[p] /\ (pc[p] = "unlinked" \/ args[p].call = "link2")
  PROVE  TreeInv'
<1> SUFFICES ASSUME NEW i \in Inum
             PROVE  /\ Counted(i)' <= dinode'[i].nlink
                    /\ dinode'[i].type = "free" => dinode'[i].nlink = 0
                    /\ ~IsDir(i)' => \A n \in Name : entries'[i][n] = Null
                    /\ IsDir(i)' /\ ~Fresh(i)' => entries'[i]["."] = i
  BY DEF TreeInv
<1>1. /\ Counted(i) <= dinode[i].nlink
      /\ dinode[i].type = "free" => dinode[i].nlink = 0
      /\ ~IsDir(i) => \A n \in Name : entries[i][n] = Null
      /\ IsDir(i) /\ ~Fresh(i) => entries[i]["."] = i
  BY DEF LInv, TreeInv
<1>2. IsDir(i)' = IsDir(i) /\ Entries(i)' = Entries(i) /\ Subs(i)' = Subs(i)
  BY DEF IsDir, Entries, Subs
<1>3. Fresh(i) => Fresh(i)'
  BY DEF Fresh, Others
<1>4. Cardinality(Pending(i)') <= Cardinality(Pending(i))
  BY PendingFalls DEF Pending
<1>5. Counted(i)' <= Counted(i)
  BY <1>2, <1>4, CountedNat, CountedNext DEF Counted
<1>6. dinode[i].nlink \in Int /\ Counted(i) \in Nat /\ Counted(i)' \in Nat
  BY CountedNat, CountedNext DEF IInv, Typed, FsTyped, Dinode
<1> QED
  BY <1>1, <1>2, <1>3, <1>5, <1>6

\* A step that leaves the tree alone, and takes references only to what p
\* points to or what has links.
LEMMA QuietLInv ==
  ASSUME IInv, IInv', LInv, panicked = "no", NEW p \in Proc, Others(p), dinode' = dinode,
         entries' = entries, pc[p] = "create_new" => pc'[p] = "create_new" /\ ip'[p] = ip[p],
         pc'[p] = "create_new" => ip'[p] = Null \/ (pc[p] = "create_new" /\ ip'[p] = ip[p]),
         pc'[p] = "unlinked" \/ args'[p].call = "link2" =>
           ip'[p] = ip[p] /\ (pc[p] = "unlinked" \/ args[p].call = "link2"),
         \A i \in Inum : ref'[i] = ref[i] \/ Points(p, i) \/ dinode[i].nlink > 0,
         panicked' \in Panics,
         Usable(cwd'[p]), file'[p] # Null => Usable(file'[p]), dp'[p] # Null => Usable(dp'[p]),
         ip'[p] # Null /\ pc'[p] # "create_new" => Usable(ip'[p]),
         \A k \in 1..Len(puts'[p]) : k > 1 \/ phase'[p] # "unref" => Usable(puts'[p][k]),
         panicked' = "no" => Alone(p)' /\ Seen(p)'
  PROVE  LInv'
<1>1. TreeInv'
  BY SameTree
<1>2. Frame(p)
  BY DEF Frame, Mine
<1>3. ASSUME NEW i \in Inum, Usable(i) PROVE Usable(i)'
  BY <1>3, NullInum DEF Usable, Fresh, Others
<1>4. /\ cwd'[p] \in Inum /\ file'[p] \in Inum \cup {Null} /\ dp'[p] \in Inum \cup {Null}
      /\ ip'[p] \in Inum \cup {Null} /\ \A k \in 1..Len(puts'[p]) : puts'[p][k] \in Inum
  BY DEF IInv, Typed, ProcTyped
<1>5. Live(p)'
  BY <1>3, <1>4 DEF Live
<1> QED
  BY <1>1, <1>2, <1>5, StepLInv

\* namex() returns 0, or the call gives up: dp is to be put.
LEMMA FailLInv ==
  ASSUME IInv, IInv', LInv, NEW p \in Proc, panicked = "no", panicked' = "no",
         puts[p] = <<>>, pc[p] \in {"namex", "found", "parent", "unlink_bad", "link_exists"},
         Fail(p, dp[p]), UNCHANGED <<dinode, entries, ref, cwd, file, ip, phase>>
  PROVE  LInv'
<1>0. /\ panicked = "no" /\ panicked' = "no" /\ puts[p] = <<>>
      /\ pc[p] \in {"namex", "found", "parent", "unlink_bad", "link_exists"}
      /\ dinode' = dinode /\ entries' = entries /\ ref' = ref
      /\ cwd' = cwd /\ file' = file /\ ip' = ip /\ phase' = phase
      /\ puts' = [puts EXCEPT ![p] = <<dp[p]>>] /\ dp' = [dp EXCEPT ![p] = Null]
      /\ \/ /\ args[p].call = "link2" /\ args' = args
            /\ pc' = [pc EXCEPT ![p] = "link_bad"]
         \/ /\ args[p].call # "link2" /\ pc' = [pc EXCEPT ![p] = "idle"]
            /\ args' = [args EXCEPT ![p] = NoArgs]
  BY DEF Fail, Goto, Return, Put
<1>1. /\ FsTyped /\ ProcTyped /\ Place(p) /\ Freeing(p) /\ TreeInv
      /\ Live(p) /\ Alone(p) /\ Seen(p)
  BY <1>0 DEF IInv, LInv, Typed
<1>2. dp[p] \in Inum /\ Usable(dp[p]) /\ phase[p] = "lock"
  BY <1>0, <1>1, NullInum DEF Place, DpPC, IpPC, DpLocked, IpLocked, ProcTyped, Live
<1>3a. NoArgs.call = "none"
  BY DEF NoArgs
<1>4. /\ dp'[p] = Null /\ ip'[p] = ip[p] /\ cwd'[p] = cwd[p] /\ file'[p] = file[p]
      /\ puts'[p] = <<dp[p]>> /\ phase'[p] = "lock" /\ pc'[p] \in {"idle", "link_bad"}
      /\ args'[p].call = "link2" => args[p].call = "link2"
  BY <1>0, <1>1, <1>2, <1>3a DEF ProcTyped
<1>5. Others(p)
  BY <1>0, <1>1 DEF Others, ProcTyped
<1>6. \A i \in Inum : ref'[i] = ref[i] \/ Points(p, i) \/ dinode[i].nlink > 0
  BY <1>0
<1>7. panicked' \in Panics
  BY <1>0 DEF Panics
<1>8. /\ Usable(cwd'[p]) /\ (file'[p] # Null => Usable(file'[p]))
      /\ dp'[p] # Null => Usable(dp'[p])
      /\ ip'[p] # Null /\ pc'[p] # "create_new" => Usable(ip'[p])
  BY <1>0, <1>1, <1>2, <1>4 DEF Live
<1>9. \A k \in 1..Len(puts'[p]) : k > 1 \/ phase'[p] # "unref" => Usable(puts'[p][k])
  BY <1>0, <1>1, <1>2, <1>4 DEF Live
<1>10. panicked' = "no" => Alone(p)' /\ Seen(p)'
  BY <1>0, <1>1, <1>2, <1>4 DEF Alone, Seen, IsDir, Plain
<1> QED
  BY <1>0, <1>1, <1>2, <1>4, <1>5, <1>6, <1>7, <1>8, <1>9, <1>10, QuietLInv

\* The walk begins with the root or the current directory.
LEMMA BeginLInv ==
  ASSUME IInv, IInv', LInv, NEW p \in Proc, NEW what, NEW s \in Seq(Elem), NEW t \in Seq(Elem),
         NEW from \in Inum, Begin(p, what, s, t, from), Plain(s), Plain(t),
         what \in {"open", "creat", "mkdir", "unlink", "chdir", "link"}, from = Root \/ from = cwd[p]
  PROVE  LInv'
<1>0. /\ pc[p] = "idle" /\ puts[p] = <<>> /\ panicked = "no"
      /\ args' = [args EXCEPT ![p].call = what, ![p].path = s, ![p].new = t]
      /\ dp' = [dp EXCEPT ![p] = from] /\ pc' = [pc EXCEPT ![p] = "namex"]
      /\ Iget(from, {}) /\ dinode' = dinode /\ entries' = entries
      /\ cwd' = cwd /\ file' = file /\ ip' = ip /\ puts' = puts /\ phase' = phase
  BY DEF Begin, At, Goto, disk, owned
<1>1. /\ FsTyped /\ ProcTyped /\ Place(p) /\ Freeing(p) /\ TreeInv
      /\ Live(p) /\ Alone(p) /\ Seen(p)
  BY <1>0 DEF IInv, LInv, Typed
<1>2. ip[p] = Null /\ phase[p] = "lock"
  BY <1>0, <1>1, NullInum DEF Place, DpPC, IpPC, DpLocked, IpLocked, ProcTyped, Live
<1>3. Usable(from) /\ (from = cwd[p] \/ dinode[from].nlink > 0)
  <2>1. Typed /\ dinode[Root].nlink > 0 /\ Root \in Inum
    BY <1>1, RootLinked, NullInum DEF Typed
  <2> QED
    BY <1>0, <1>1, <2>1, LinkedUsable DEF Live
<1>4. /\ dp'[p] = from /\ ip'[p] = ip[p] /\ cwd'[p] = cwd[p] /\ file'[p] = file[p]
      /\ puts'[p] = puts[p] /\ phase'[p] = phase[p] /\ pc'[p] = "namex"
      /\ args'[p].call = what /\ args'[p].path = s /\ args'[p].new = t
  BY <1>0, <1>1, <1>2 DEF ProcTyped, Arg
<1>5. Others(p)
  BY <1>0, <1>1 DEF Others, ProcTyped
<1>6. \A i \in Inum : ref'[i] = ref[i] \/ Points(p, i) \/ dinode[i].nlink > 0
  <2>1. \A i \in Inum : ref'[i] = ref[i] + One(i = from)
    BY <1>0, <1>1, IgetFacts DEF Typed
  <2>2. \A i \in Inum : ref[i] \in Nat
    BY <1>1 DEF FsTyped
  <2> QED
    BY <1>3, <2>1, <2>2 DEF One, Points
<1>7. panicked' \in Panics
  <2>1. \A j \in {} : LockPanic(j) = "no"
    OBVIOUS
  <2> QED
    BY <1>0, <2>1, IgetPanics
<1>8. /\ Usable(cwd'[p]) /\ (file'[p] # Null => Usable(file'[p]))
      /\ dp'[p] # Null => Usable(dp'[p])
      /\ ip'[p] # Null /\ pc'[p] # "create_new" => Usable(ip'[p])
  BY <1>1, <1>2, <1>3, <1>4, <1>0 DEF Live
<1>9. \A k \in 1..Len(puts'[p]) : k > 1 \/ phase'[p] # "unref" => Usable(puts'[p][k])
  BY <1>1, <1>2, <1>3, <1>4, <1>0 DEF Live
<1>10. panicked' = "no" => Alone(p)' /\ Seen(p)'
  BY <1>0, <1>1, <1>2, <1>4, ZenonT(60) DEF Alone, Seen, IsDir, Plain
<1> QED
  BY <1>0, <1>1, <1>2, <1>4, <1>5, <1>6, <1>7, <1>8, <1>9, <1>10, QuietLInv

\* iput() looks at the counts.
LEMMA IputLockLInv ==
  ASSUME IInv, IInv', LInv, NEW p \in Proc, IputLock(p)
  PROVE  LInv'
<1>0. /\ puts[p] # <<>> /\ phase[p] = "lock" /\ panicked = "no"
      /\ phase' = [phase EXCEPT ![p] = IF LastRef(Head(puts[p])) THEN "free" ELSE "unref"]
      /\ dinode' = dinode /\ entries' = entries /\ ref' = ref /\ panicked' = panicked
      /\ cwd' = cwd /\ file' = file /\ pc' = pc /\ args' = args
      /\ dp' = dp /\ ip' = ip /\ puts' = puts
  BY DEF IputLock, disk, owned
<1>1. /\ FsTyped /\ ProcTyped /\ Place(p) /\ Freeing(p) /\ TreeInv
      /\ Live(p) /\ Alone(p) /\ Seen(p)
  BY <1>0 DEF IInv, LInv, Typed
<1>2. puts[p] \in Seq(Inum) /\ Head(puts[p]) \in Inum /\ Head(puts[p]) = puts[p][1]
  BY <1>0, <1>1, NullInum, EmptySeq DEF Place, DpPC, IpPC, DpLocked, IpLocked, ProcTyped, Live
<1>3. LastRef(Head(puts[p])) => dinode[Head(puts[p])].nlink = 0 /\ ref[Head(puts[p])] = 1
  BY <1>2 DEF LastRef, IInv, CacheInv
<1>4. /\ dp'[p] = dp[p] /\ ip'[p] = ip[p] /\ cwd'[p] = cwd[p] /\ file'[p] = file[p]
      /\ puts'[p] = puts[p] /\ pc'[p] = pc[p] /\ args'[p] = args[p]
      /\ phase'[p] = IF LastRef(Head(puts[p])) THEN "free" ELSE "unref"
  BY <1>0, <1>1, <1>2 DEF ProcTyped
<1>5. Others(p)
  BY <1>0, <1>1 DEF Others, ProcTyped
<1>6. \A i \in Inum : ref'[i] = ref[i] \/ Points(p, i) \/ dinode[i].nlink > 0
  BY <1>0
<1>7. panicked' \in Panics
  BY <1>0 DEF Panics
<1>8. /\ Usable(cwd'[p]) /\ (file'[p] # Null => Usable(file'[p]))
      /\ dp'[p] # Null => Usable(dp'[p])
      /\ ip'[p] # Null /\ pc'[p] # "create_new" => Usable(ip'[p])
  BY <1>0, <1>1, <1>2, <1>4 DEF Live
<1>9. \A k \in 1..Len(puts'[p]) : k > 1 \/ phase'[p] # "unref" => Usable(puts'[p][k])
  BY <1>0, <1>1, <1>2, <1>4 DEF Live
<1>10. panicked' = "no" => Alone(p)' /\ Seen(p)'
  BY <1>0, <1>1, <1>2, <1>4, <1>3 DEF Alone, Seen, IsDir, Plain
<1> QED
  BY <1>0, <1>1, <1>2, <1>4, <1>5, <1>6, <1>7, <1>8, <1>9, <1>10, QuietLInv

\* iput() lets go of the reference.
LEMMA IputUnrefLInv ==
  ASSUME IInv, IInv', LInv, NEW p \in Proc, IputUnref(p)
  PROVE  LInv'
<1>0. /\ puts[p] # <<>> /\ phase[p] = "unref" /\ panicked = "no"
      /\ phase' = [phase EXCEPT ![p] = "lock"] /\ puts' = [puts EXCEPT ![p] = Tail(puts[p])]
      /\ ref' = [ref EXCEPT ![Head(puts[p])] = @ - 1]
      /\ dinode' = dinode /\ entries' = entries /\ panicked' = panicked
      /\ cwd' = cwd /\ file' = file /\ pc' = pc /\ args' = args
      /\ dp' = dp /\ ip' = ip
  BY DEF IputUnref, Put, disk, owned
<1>1. /\ FsTyped /\ ProcTyped /\ Place(p) /\ Freeing(p) /\ TreeInv
      /\ Live(p) /\ Alone(p) /\ Seen(p)
  BY <1>0 DEF IInv, LInv, Typed
<1>2. puts[p] \in Seq(Inum) /\ Head(puts[p]) \in Inum /\ Head(puts[p]) = puts[p][1] /\ Len(puts[p]) >= 1
  BY <1>0, <1>1, NullInum, EmptySeq DEF Place, DpPC, IpPC, DpLocked, IpLocked, ProcTyped, Live
<1>4. /\ dp'[p] = dp[p] /\ ip'[p] = ip[p] /\ cwd'[p] = cwd[p] /\ file'[p] = file[p]
      /\ puts'[p] = Tail(puts[p]) /\ pc'[p] = pc[p] /\ args'[p] = args[p] /\ phase'[p] = "lock"
  BY <1>0, <1>1, <1>2 DEF ProcTyped
<1>5. Others(p)
  BY <1>0, <1>1 DEF Others, ProcTyped
<1>6. \A i \in Inum : ref'[i] = ref[i] \/ Points(p, i) \/ dinode[i].nlink > 0
  BY <1>0, <1>1, <1>2 DEF FsTyped, Points
<1>7. panicked' \in Panics
  BY <1>0 DEF Panics
<1>8. /\ Usable(cwd'[p]) /\ (file'[p] # Null => Usable(file'[p]))
      /\ dp'[p] # Null => Usable(dp'[p])
      /\ ip'[p] # Null /\ pc'[p] # "create_new" => Usable(ip'[p])
  BY <1>0, <1>1, <1>2, <1>4 DEF Live
<1>9. \A k \in 1..Len(puts'[p]) : k > 1 \/ phase'[p] # "unref" => Usable(puts'[p][k])
  <2>1. Len(Tail(puts[p])) = Len(puts[p]) - 1 /\ \A k \in 1..Len(Tail(puts[p])) : Tail(puts[p])[k] = puts[p][k + 1]
    BY <1>2, HeadTailProperties
  <2>2. \A k \in 1..Len(puts[p]) : k > 1 => Usable(puts[p][k])
    BY <1>1 DEF Live
  <2>3. Len(puts[p]) \in Nat
    BY <1>2
  <2>4. ASSUME NEW k \in 1..Len(puts'[p]) PROVE Usable(puts'[p][k])
    <3>1. k \in 1..Len(Tail(puts[p])) /\ k + 1 \in 1..Len(puts[p]) /\ k + 1 > 1
      BY <1>4, <2>1, <2>3
    <3>2. puts'[p][k] = puts[p][k + 1]
      BY <1>4, <2>1, <3>1
    <3> QED
      BY <2>2, <3>1, <3>2
  <2> QED
    BY <2>4
<1>10. panicked' = "no" => Alone(p)' /\ Seen(p)'
  BY <1>0, <1>1, <1>2, <1>4 DEF Alone, Seen, IsDir, Plain
<1> QED
  BY <1>0, <1>1, <1>2, <1>4, <1>5, <1>6, <1>7, <1>8, <1>9, <1>10, QuietLInv

\* ilock() of what p points to does not panic.
LEMMA HeldNoPanic ==
  ASSUME IInv, LInv, panicked = "no", NEW p \in Proc, NEW i \in Inum,
         i = dp[p] \/ i = file[p] \/ i = ip[p]
  PROVE  LockPanic(i) = "no"
<1>1. ref[i] \in Nat /\ ref[i] >= 1
  BY PointsRef
<1>2. dinode[i].type # "free"
  BY NullInum DEF LInv, Live, Seen, Usable
<1> QED
  BY <1>1, <1>2 DEF LockPanic

\* iget() with the directory dp locked does not panic unless the cache is full.
LEMMA IgetHeld ==
  ASSUME IInv, LInv, panicked = "no", NEW p \in Proc, dp[p] \in Inum, NEW i \in Inum, Iget(i, {dp[p]}),
         i = dp[p] \/ dinode[i].nlink > 0
  PROVE  /\ panicked' \in Panics
         /\ \A j \in Inum : ref'[j] = ref[j] \/ Points(p, j) \/ dinode[j].nlink > 0
<1>1. \A j \in {dp[p]} : LockPanic(j) = "no"
  BY HeldNoPanic
<1>2. \A j \in Inum : ref'[j] = ref[j] + One(j = i) /\ ref[j] \in Nat
  BY IgetFacts DEF IInv, Typed, FsTyped
<1> QED
  BY <1>1, <1>2, IgetPanics DEF One, Points

\* The call gives up after ilock(dp).
LEMMA IlockFailsLInv ==
  ASSUME IInv, IInv', LInv, NEW p \in Proc, panicked = "no", puts[p] = <<>>,
         pc[p] \in {"namex", "found", "parent"}, Ilock(dp[p]), Fail(p, dp[p]),
         UNCHANGED <<dinode, entries, ref, cwd, file, ip, phase>>
  PROVE  LInv'
<1>1. dp[p] \in Inum
  BY NullInum DEF IInv, Typed, ProcTyped, Place, DpPC
<1>2. panicked' = "no"
  BY <1>1, HeldNoPanic DEF Ilock
<1> QED
  BY <1>2, FailLInv

\* namei() has come to the end of the path.
LEMMA NamexFoundLInv ==
  ASSUME IInv, IInv', LInv, NEW p \in Proc, At(p, "namex"), ~WantsParent(p), Goto(p, "found"),
         UNCHANGED <<args, puts, dp, disk, icache, owned, ip, phase, panicked>>
  PROVE  LInv'
<1>0. /\ pc[p] = "namex" /\ puts[p] = <<>> /\ panicked = "no" /\ pc' = [pc EXCEPT ![p] = "found"]
      /\ dinode' = dinode /\ entries' = entries /\ ref' = ref /\ panicked' = panicked
      /\ args' = args /\ puts' = puts /\ dp' = dp
      /\ cwd' = cwd /\ file' = file /\ ip' = ip /\ phase' = phase
  BY DEF At, Goto, disk, icache, owned
<1>1. /\ FsTyped /\ ProcTyped /\ Place(p) /\ Freeing(p) /\ TreeInv
      /\ Live(p) /\ Alone(p) /\ Seen(p)
  BY <1>0 DEF IInv, LInv, Typed
<1>2. dp[p] \in Inum /\ Usable(dp[p]) /\ phase[p] = "lock"
  BY <1>0, <1>1, NullInum DEF Place, DpPC, IpPC, DpLocked, IpLocked, ProcTyped, Live
<1>4. /\ dp'[p] = dp[p] /\ ip'[p] = ip[p] /\ cwd'[p] = cwd[p] /\ file'[p] = file[p]
      /\ puts'[p] = puts[p] /\ pc'[p] = "found" /\ args'[p] = args[p] /\ phase'[p] = phase[p]
  BY <1>0, <1>1, <1>2 DEF ProcTyped
<1>5. Others(p)
  BY <1>0, <1>1 DEF Others, ProcTyped
<1>6. \A i \in Inum : ref'[i] = ref[i] \/ Points(p, i) \/ dinode[i].nlink > 0
  BY <1>0
<1>7. panicked' \in Panics
  BY <1>0 DEF Panics
<1>8. /\ Usable(cwd'[p]) /\ (file'[p] # Null => Usable(file'[p]))
      /\ dp'[p] # Null => Usable(dp'[p])
      /\ ip'[p] # Null /\ pc'[p] # "create_new" => Usable(ip'[p])
  BY <1>0, <1>1, <1>2, <1>4 DEF Live
<1>9. \A k \in 1..Len(puts'[p]) : k > 1 \/ phase'[p] # "unref" => Usable(puts'[p][k])
  BY <1>0, <1>1, <1>2, <1>4 DEF Live
<1>10. panicked' = "no" => Alone(p)' /\ Seen(p)'
  BY <1>0, <1>1, <1>2, <1>4 DEF Alone, Seen, IsDir, Plain
<1> QED
  BY <1>0, <1>1, <1>2, <1>4, <1>5, <1>6, <1>7, <1>8, <1>9, <1>10, QuietLInv

\* The end of a path.
LEMMA NamexEndsLInv ==
  ASSUME IInv, IInv', LInv, NEW p \in Proc, NamexEnds(p)
  PROVE  LInv'
<1>1. CASE WantsParent(p)
  BY <1>1, FailLInv DEF NamexEnds, At, disk, icache, owned
<1>2. CASE ~WantsParent(p)
  BY <1>2, NamexFoundLInv DEF NamexEnds
<1> QED
  BY <1>1, <1>2

\* nameiparent() stops one element early, in a directory.
LEMMA NamexParentLInv ==
  ASSUME IInv, IInv', LInv, NEW p \in Proc, At(p, "namex"), args[p].path # <<>>, Ilock(dp[p]), IsDir(dp[p]),
         args' = [args EXCEPT ![p].name = Skipelem(args[p].path), ![p].path = <<>>],
         Goto(p, "parent"), UNCHANGED <<ref, dp, puts, disk, lock, owned, ip, phase>>
  PROVE  LInv'
<1>0. /\ pc[p] = "namex" /\ puts[p] = <<>> /\ panicked = "no" /\ args[p].path # <<>>
      /\ args' = [args EXCEPT ![p].name = Head(args[p].path), ![p].path = <<>>]
      /\ pc' = [pc EXCEPT ![p] = "parent"] /\ panicked' = LockPanic(dp[p]) /\ IsDir(dp[p])
      /\ dinode' = dinode /\ entries' = entries /\ ref' = ref
      /\ puts' = puts /\ dp' = dp
      /\ cwd' = cwd /\ file' = file /\ ip' = ip /\ phase' = phase
  BY DEF At, Goto, disk, owned, Skipelem, Ilock
<1>1. /\ FsTyped /\ ProcTyped /\ Place(p) /\ Freeing(p) /\ TreeInv
      /\ Live(p) /\ Alone(p) /\ Seen(p)
  BY <1>0 DEF IInv, LInv, Typed
<1>2. dp[p] \in Inum /\ Usable(dp[p]) /\ phase[p] = "lock"
  BY <1>0, <1>1, NullInum DEF Place, DpPC, IpPC, DpLocked, IpLocked, ProcTyped, Live
<1>3. args[p].path \in Seq(Elem) /\ Head(args[p].path) \in Elem /\ Head(args[p].path) # ".." /\ Plain(Tail(args[p].path))
  <2>1. args[p].path \in Seq(Elem) /\ Plain(args[p].path) /\ args[p].path # <<>>
    BY <1>0, <1>1 DEF ProcTyped, Arg, Seen
  <2>2. Len(args[p].path) \in Nat /\ Len(args[p].path) >= 1 /\ Head(args[p].path) = args[p].path[1]
    BY <2>1, EmptySeq
  <2>3. Tail(args[p].path) \in Seq(Elem) /\ Len(Tail(args[p].path)) = Len(args[p].path) - 1
    BY <2>1, <2>2
  <2>4. \A k \in 1..Len(Tail(args[p].path)) : Tail(args[p].path)[k] = args[p].path[k + 1] /\ k + 1 \in 1..Len(args[p].path)
    BY <2>1, <2>2, <2>3
  <2> QED
    BY <2>1, <2>2, <2>4 DEF Plain
<1>4. /\ dp'[p] = dp[p] /\ ip'[p] = ip[p] /\ cwd'[p] = cwd[p] /\ file'[p] = file[p]
      /\ puts'[p] = puts[p] /\ pc'[p] = "parent" /\ args'[p].call = args[p].call /\ phase'[p] = phase[p]
      /\ args'[p].name = Head(args[p].path)
  BY <1>0, <1>1, <1>2 DEF ProcTyped, Arg
<1>5. Others(p)
  BY <1>0, <1>1 DEF Others, ProcTyped
<1>6. \A i \in Inum : ref'[i] = ref[i] \/ Points(p, i) \/ dinode[i].nlink > 0
  BY <1>0
<1>7. panicked' \in Panics
  BY <1>0, <1>2, HeldNoPanic DEF Panics
<1>8. /\ Usable(cwd'[p]) /\ (file'[p] # Null => Usable(file'[p]))
      /\ dp'[p] # Null => Usable(dp'[p])
      /\ ip'[p] # Null /\ pc'[p] # "create_new" => Usable(ip'[p])
  BY <1>0, <1>1, <1>2, <1>4 DEF Live
<1>9. \A k \in 1..Len(puts'[p]) : k > 1 \/ phase'[p] # "unref" => Usable(puts'[p][k])
  BY <1>0, <1>1, <1>2, <1>4 DEF Live
<1>10. panicked' = "no" => Alone(p)' /\ Seen(p)'
  BY <1>0, <1>1, <1>2, <1>4, <1>3 DEF Alone, Seen, IsDir, Plain
<1> QED
  BY <1>0, <1>1, <1>2, <1>4, <1>5, <1>6, <1>7, <1>8, <1>9, <1>10, QuietLInv

\* namex() goes from one directory to the next.
LEMMA NamexNextLInv ==
  ASSUME IInv, IInv', LInv, NEW p \in Proc, At(p, "namex"), args[p].path # <<>>, IsDir(dp[p]),
         NEW next \in Inum, next = entries[dp[p]][Head(args[p].path)],
         Iget(next, {dp[p]}), args' = [args EXCEPT ![p].path = Tail(@)],
         dp' = [dp EXCEPT ![p] = next], Put(p, <<dp[p]>>), Goto(p, "namex"),
         UNCHANGED <<disk, lock, owned, ip, phase>>
  PROVE  LInv'
<1>0. /\ pc[p] = "namex" /\ puts[p] = <<>> /\ panicked = "no" /\ args[p].path # <<>>
      /\ args' = [args EXCEPT ![p].path = Tail(args[p].path)] /\ Iget(next, {dp[p]})
      /\ pc' = [pc EXCEPT ![p] = "namex"] /\ IsDir(dp[p]) /\ next = entries[dp[p]][Head(args[p].path)]
      /\ dinode' = dinode /\ entries' = entries
      /\ dp' = [dp EXCEPT ![p] = next] /\ puts' = [puts EXCEPT ![p] = <<dp[p]>>]
      /\ cwd' = cwd /\ file' = file /\ ip' = ip /\ phase' = phase
  BY DEF At, Goto, disk, owned, Put
<1>1. /\ FsTyped /\ ProcTyped /\ Place(p) /\ Freeing(p) /\ TreeInv
      /\ Live(p) /\ Alone(p) /\ Seen(p)
  BY <1>0 DEF IInv, LInv, Typed
<1>2. dp[p] \in Inum /\ Usable(dp[p]) /\ phase[p] = "lock"
  BY <1>0, <1>1, NullInum DEF Place, DpPC, IpPC, DpLocked, IpLocked, ProcTyped, Live
<1>3. args[p].path \in Seq(Elem) /\ Head(args[p].path) \in Elem /\ Head(args[p].path) # ".." /\ Plain(Tail(args[p].path))
  <2>1. args[p].path \in Seq(Elem) /\ Plain(args[p].path) /\ args[p].path # <<>>
    BY <1>0, <1>1 DEF ProcTyped, Arg, Seen
  <2>2. Len(args[p].path) \in Nat /\ Len(args[p].path) >= 1 /\ Head(args[p].path) = args[p].path[1]
    BY <2>1, EmptySeq
  <2>3. Tail(args[p].path) \in Seq(Elem) /\ Len(Tail(args[p].path)) = Len(args[p].path) - 1
    BY <2>1, <2>2
  <2>4. \A k \in 1..Len(Tail(args[p].path)) : Tail(args[p].path)[k] = args[p].path[k + 1] /\ k + 1 \in 1..Len(args[p].path)
    BY <2>1, <2>2, <2>3
  <2> QED
    BY <2>1, <2>2, <2>4 DEF Plain
<1>3a. Usable(next) /\ (next = dp[p] \/ dinode[next].nlink > 0)
  BY <1>0, <1>2, <1>3, LookedUp
<1>4. /\ dp'[p] = next /\ ip'[p] = ip[p] /\ cwd'[p] = cwd[p] /\ file'[p] = file[p]
      /\ puts'[p] = <<dp[p]>> /\ pc'[p] = "namex" /\ args'[p].call = args[p].call /\ phase'[p] = phase[p]
      /\ args'[p].path = Tail(args[p].path) /\ args'[p].new = args[p].new
  BY <1>0, <1>1, <1>2 DEF ProcTyped, Arg
<1>5. Others(p)
  BY <1>0, <1>1 DEF Others, ProcTyped
<1>6. \A i \in Inum : ref'[i] = ref[i] \/ Points(p, i) \/ dinode[i].nlink > 0
  BY <1>0, <1>2, <1>3a, IgetHeld
<1>7. panicked' \in Panics
  BY <1>0, <1>2, <1>3a, IgetHeld
<1>8. /\ Usable(cwd'[p]) /\ (file'[p] # Null => Usable(file'[p]))
      /\ dp'[p] # Null => Usable(dp'[p])
      /\ ip'[p] # Null /\ pc'[p] # "create_new" => Usable(ip'[p])
  BY <1>0, <1>1, <1>2, <1>3a, <1>4 DEF Live
<1>9. \A k \in 1..Len(puts'[p]) : k > 1 \/ phase'[p] # "unref" => Usable(puts'[p][k])
  BY <1>2, <1>4
<1>9a. Plain(args[p].path)' /\ Plain(args[p].new)'
  <2>1. Plain(args[p].new)
    BY <1>0, <1>1 DEF Seen
  <2> QED
    BY <1>3, <1>4, <2>1 DEF Plain
<1>10. panicked' = "no" => Alone(p)' /\ Seen(p)'
  BY <1>0, <1>1, <1>2, <1>4, <1>9a DEF Alone, Seen, IsDir
<1> QED
  BY <1>0, <1>1, <1>2, <1>4, <1>5, <1>6, <1>7, <1>8, <1>9, <1>10, QuietLInv

\* namex(): one path element.
LEMMA NamexStepLInv ==
  ASSUME IInv, IInv', LInv, NEW p \in Proc, NamexStep(p)
  PROVE  LInv'
<1> DEFINE next == Dirlookup(dp[p], Skipelem(args[p].path))
<1>1. At(p, "namex") /\ args[p].path # <<>> /\ panicked = "no"
      /\ pc[p] = "namex" /\ puts[p] = <<>> /\ UNCHANGED <<disk, lock, owned, ip, phase>>
  BY DEF NamexStep, At
<1>2. \/ /\ Loaded(dp[p]).type = "dir" /\ Ilock(dp[p])
         /\ args' = [args EXCEPT ![p].name = Skipelem(args[p].path), ![p].path = <<>>]
         /\ Goto(p, "parent") /\ UNCHANGED <<ref, dp, puts>>
      \/ /\ Loaded(dp[p]).type = "dir" /\ next # Null /\ Iget(next, {dp[p]})
         /\ args' = [args EXCEPT ![p].path = Tail(@)]
         /\ dp' = [dp EXCEPT ![p] = next] /\ Put(p, <<dp[p]>>) /\ Goto(p, "namex")
      \/ Ilock(dp[p]) /\ Fail(p, dp[p]) /\ UNCHANGED ref
  BY DEF NamexStep
<1>3. next \in Inum \cup {Null} /\ dp[p] \in Inum /\ next = entries[dp[p]][Head(args[p].path)]
  <2>1. dp[p] \in Inum /\ entries \in [Inum -> [Elem -> Inum \cup {Null}]] /\ args[p].path \in Seq(Elem)
    BY <1>1 DEF IInv, Typed, FsTyped, ProcTyped, Place, DpPC, Arg
  <2>2. Skipelem(args[p].path) \in Elem
    BY <1>1, <2>1 DEF Skipelem
  <2> QED
    BY <2>1, <2>2 DEF Dirlookup, Skipelem
<1>4. Loaded(dp[p]).type = "dir" => IsDir(dp[p])
  BY <1>3, LoadedIsDisk DEF IsDir
<1> HIDE DEF next
<1>5. CASE Ilock(dp[p]) /\ Fail(p, dp[p]) /\ UNCHANGED ref
  BY <1>1, <1>5, IlockFailsLInv DEF disk, owned
<1>6. CASE /\ Loaded(dp[p]).type = "dir" /\ Ilock(dp[p])
           /\ args' = [args EXCEPT ![p].name = Skipelem(args[p].path), ![p].path = <<>>]
           /\ Goto(p, "parent") /\ UNCHANGED <<ref, dp, puts>>
  BY <1>1, <1>4, <1>6, NamexParentLInv DEF disk, owned
<1>7. CASE /\ Loaded(dp[p]).type = "dir" /\ next # Null /\ Iget(next, {dp[p]})
           /\ args' = [args EXCEPT ![p].path = Tail(@)]
           /\ dp' = [dp EXCEPT ![p] = next] /\ Put(p, <<dp[p]>>) /\ Goto(p, "namex")
  BY <1>1, <1>3, <1>4, <1>7, NamexNextLInv
<1> QED
  BY <1>2, <1>5, <1>6, <1>7

\* open() of a file that exists.
LEMMA OpenLInv ==
  ASSUME IInv, IInv', LInv, NEW p \in Proc, NEW ok \in BOOLEAN, Open(p, ok)
  PROVE  LInv'
<1>0. /\ pc[p] = "found" /\ puts[p] = <<>> /\ panicked = "no"
      /\ panicked' = LockPanic(dp[p])
      /\ file' = [file EXCEPT ![p] = IF ok THEN dp[p] ELSE file[p]]
      /\ puts' = [puts EXCEPT ![p] = IF ok THEN <<>> ELSE <<dp[p]>>]
      /\ dp' = [dp EXCEPT ![p] = Null] /\ pc' = [pc EXCEPT ![p] = "idle"] /\ args' = [args EXCEPT ![p] = NoArgs]
      /\ dinode' = dinode /\ entries' = entries /\ ref' = ref
      /\ cwd' = cwd /\ ip' = ip /\ phase' = phase
  BY DEF Open, Opened, Ilock, At, Goto, Return, Put, disk
<1>1. /\ FsTyped /\ ProcTyped /\ Place(p) /\ Freeing(p) /\ TreeInv
      /\ Live(p) /\ Alone(p) /\ Seen(p)
  BY <1>0 DEF IInv, LInv, Typed
<1>2. dp[p] \in Inum /\ Usable(dp[p]) /\ phase[p] = "lock"
  BY <1>0, <1>1, NullInum DEF Place, DpPC, IpPC, DpLocked, IpLocked, ProcTyped, Live
<1>3a. NoArgs.call = "none"
  BY DEF NoArgs
<1>4. /\ dp'[p] = Null /\ ip'[p] = ip[p] /\ cwd'[p] = cwd[p] /\ file'[p] = IF ok THEN dp[p] ELSE file[p]
      /\ puts'[p] = (IF ok THEN <<>> ELSE <<dp[p]>>) /\ pc'[p] = "idle" /\ args'[p].call = "none" /\ phase'[p] = "lock"
  BY <1>0, <1>1, <1>2, <1>3a DEF ProcTyped
<1>5. Others(p)
  BY <1>0, <1>1 DEF Others, ProcTyped
<1>6. \A i \in Inum : ref'[i] = ref[i] \/ Points(p, i) \/ dinode[i].nlink > 0
  BY <1>0
<1>7. panicked' \in Panics
  BY <1>0, <1>2, HeldNoPanic DEF Panics
<1>8. /\ Usable(cwd'[p]) /\ (file'[p] # Null => Usable(file'[p]))
      /\ dp'[p] # Null => Usable(dp'[p])
      /\ ip'[p] # Null /\ pc'[p] # "create_new" => Usable(ip'[p])
  BY <1>0, <1>1, <1>2, <1>4 DEF Live
<1>9. \A k \in 1..Len(puts'[p]) : k > 1 \/ phase'[p] # "unref" => Usable(puts'[p][k])
  BY <1>2, <1>4
<1>10. panicked' = "no" => Alone(p)' /\ Seen(p)'
  BY <1>0, <1>1, <1>2, <1>4 DEF Alone, Seen, IsDir, Plain
<1> QED
  BY <1>0, <1>1, <1>2, <1>4, <1>5, <1>6, <1>7, <1>8, <1>9, <1>10, QuietLInv

\* open(O_CREATE) of a file that exists.
LEMMA CreateExistsLInv ==
  ASSUME IInv, IInv', LInv, NEW p \in Proc, NEW ok \in BOOLEAN, CreateExists(p, ok)
  PROVE  LInv'
<1>0. /\ pc[p] = "exists" /\ puts[p] = <<>> /\ panicked = "no"
      /\ panicked' = LockPanic(ip[p])
      /\ file' = [file EXCEPT ![p] = IF ok THEN ip[p] ELSE file[p]]
      /\ puts' = [puts EXCEPT ![p] = IF ok THEN <<>> ELSE <<ip[p]>>]
      /\ ip' = [ip EXCEPT ![p] = Null] /\ pc' = [pc EXCEPT ![p] = "idle"] /\ args' = [args EXCEPT ![p] = NoArgs]
      /\ dinode' = dinode /\ entries' = entries /\ ref' = ref
      /\ cwd' = cwd /\ dp' = dp /\ phase' = phase
  BY DEF CreateExists, Opened, Ilock, At, Goto, Return, Put, disk
<1>1. /\ FsTyped /\ ProcTyped /\ Place(p) /\ Freeing(p) /\ TreeInv
      /\ Live(p) /\ Alone(p) /\ Seen(p)
  BY <1>0 DEF IInv, LInv, Typed
<1>2. ip[p] \in Inum /\ Usable(ip[p]) /\ dp[p] = Null /\ phase[p] = "lock"
  BY <1>0, <1>1, NullInum DEF Place, DpPC, IpPC, DpLocked, IpLocked, ProcTyped, Live
<1>3a. NoArgs.call = "none"
  BY DEF NoArgs
<1>4. /\ dp'[p] = dp[p] /\ ip'[p] = Null /\ cwd'[p] = cwd[p] /\ file'[p] = IF ok THEN ip[p] ELSE file[p]
      /\ puts'[p] = (IF ok THEN <<>> ELSE <<ip[p]>>) /\ pc'[p] = "idle" /\ args'[p].call = "none" /\ phase'[p] = "lock"
  BY <1>0, <1>1, <1>2, <1>3a DEF ProcTyped
<1>5. Others(p)
  BY <1>0, <1>1 DEF Others, ProcTyped
<1>6. \A i \in Inum : ref'[i] = ref[i] \/ Points(p, i) \/ dinode[i].nlink > 0
  BY <1>0
<1>7. panicked' \in Panics
  BY <1>0, <1>2, HeldNoPanic DEF Panics
<1>8. /\ Usable(cwd'[p]) /\ (file'[p] # Null => Usable(file'[p]))
      /\ dp'[p] # Null => Usable(dp'[p])
      /\ ip'[p] # Null /\ pc'[p] # "create_new" => Usable(ip'[p])
  BY <1>0, <1>1, <1>2, <1>4 DEF Live
<1>9. \A k \in 1..Len(puts'[p]) : k > 1 \/ phase'[p] # "unref" => Usable(puts'[p][k])
  BY <1>2, <1>4
<1>10. panicked' = "no" => Alone(p)' /\ Seen(p)'
  BY <1>0, <1>1, <1>2, <1>4 DEF Alone, Seen, IsDir, Plain
<1> QED
  BY <1>0, <1>1, <1>2, <1>4, <1>5, <1>6, <1>7, <1>8, <1>9, <1>10, QuietLInv

\* create() is over.
LEMMA CreatedLInv ==
  ASSUME IInv, IInv', LInv, NEW p \in Proc, NEW ok \in BOOLEAN, Created(p, ok)
  PROVE  LInv'
<1>0. /\ pc[p] = "created" /\ puts[p] = <<>> /\ panicked = "no" /\ panicked' = panicked
      /\ file' = [file EXCEPT ![p] = IF ok THEN ip[p] ELSE file[p]]
      /\ puts' = [puts EXCEPT ![p] = IF ok THEN <<>> ELSE <<ip[p]>>]
      /\ ip' = [ip EXCEPT ![p] = Null] /\ pc' = [pc EXCEPT ![p] = "idle"] /\ args' = [args EXCEPT ![p] = NoArgs]
      /\ dinode' = dinode /\ entries' = entries /\ ref' = ref
      /\ cwd' = cwd /\ dp' = dp /\ phase' = phase
  BY DEF Created, Opened, At, Goto, Return, Put, disk
<1>1. /\ FsTyped /\ ProcTyped /\ Place(p) /\ Freeing(p) /\ TreeInv
      /\ Live(p) /\ Alone(p) /\ Seen(p)
  BY <1>0 DEF IInv, LInv, Typed
<1>2. ip[p] \in Inum /\ Usable(ip[p]) /\ dp[p] = Null /\ phase[p] = "lock"
  BY <1>0, <1>1, NullInum DEF Place, DpPC, IpPC, DpLocked, IpLocked, ProcTyped, Live
<1>3a. NoArgs.call = "none"
  BY DEF NoArgs
<1>4. /\ dp'[p] = dp[p] /\ ip'[p] = Null /\ cwd'[p] = cwd[p] /\ file'[p] = IF ok THEN ip[p] ELSE file[p]
      /\ puts'[p] = (IF ok THEN <<>> ELSE <<ip[p]>>) /\ pc'[p] = "idle" /\ args'[p].call = "none" /\ phase'[p] = "lock"
  BY <1>0, <1>1, <1>2, <1>3a DEF ProcTyped
<1>5. Others(p)
  BY <1>0, <1>1 DEF Others, ProcTyped
<1>6. \A i \in Inum : ref'[i] = ref[i] \/ Points(p, i) \/ dinode[i].nlink > 0
  BY <1>0
<1>7. panicked' \in Panics
  BY <1>0 DEF Panics
<1>8. /\ Usable(cwd'[p]) /\ (file'[p] # Null => Usable(file'[p]))
      /\ dp'[p] # Null => Usable(dp'[p])
      /\ ip'[p] # Null /\ pc'[p] # "create_new" => Usable(ip'[p])
  BY <1>0, <1>1, <1>2, <1>4 DEF Live
<1>9. \A k \in 1..Len(puts'[p]) : k > 1 \/ phase'[p] # "unref" => Usable(puts'[p][k])
  BY <1>2, <1>4
<1>10. panicked' = "no" => Alone(p)' /\ Seen(p)'
  BY <1>0, <1>1, <1>2, <1>4 DEF Alone, Seen, IsDir, Plain
<1> QED
  BY <1>0, <1>1, <1>2, <1>4, <1>5, <1>6, <1>7, <1>8, <1>9, <1>10, QuietLInv

\* chdir() changes the current directory and puts the old one.
LEMMA ChdirLInv ==
  ASSUME IInv, IInv', LInv, NEW p \in Proc, Chdir(p)
  PROVE  LInv'
<1> DEFINE ok == Loaded(dp[p]).type = "dir"
<1>0. /\ pc[p] = "found" /\ puts[p] = <<>> /\ panicked = "no"
      /\ panicked' = LockPanic(dp[p])
      /\ cwd' = [cwd EXCEPT ![p] = IF ok THEN dp[p] ELSE cwd[p]]
      /\ puts' = [puts EXCEPT ![p] = <<IF ok THEN cwd[p] ELSE dp[p]>>]
      /\ dp' = [dp EXCEPT ![p] = Null] /\ pc' = [pc EXCEPT ![p] = "idle"] /\ args' = [args EXCEPT ![p] = NoArgs]
      /\ dinode' = dinode /\ entries' = entries /\ ref' = ref
      /\ file' = file /\ ip' = ip /\ phase' = phase
  BY DEF Chdir, Ilock, At, Goto, Return, Put, disk
<1> HIDE DEF ok
<1>1. /\ FsTyped /\ ProcTyped /\ Place(p) /\ Freeing(p) /\ TreeInv
      /\ Live(p) /\ Alone(p) /\ Seen(p)
  BY <1>0 DEF IInv, LInv, Typed
<1>2. dp[p] \in Inum /\ Usable(dp[p]) /\ Usable(cwd[p]) /\ phase[p] = "lock"
  BY <1>0, <1>1, NullInum DEF Place, DpPC, IpPC, DpLocked, IpLocked, ProcTyped, Live
<1>3a. NoArgs.call = "none"
  BY DEF NoArgs
<1>4. /\ dp'[p] = Null /\ ip'[p] = ip[p] /\ cwd'[p] = (IF ok THEN dp[p] ELSE cwd[p]) /\ file'[p] = file[p]
      /\ puts'[p] = <<IF ok THEN cwd[p] ELSE dp[p]>> /\ pc'[p] = "idle" /\ args'[p].call = "none" /\ phase'[p] = "lock"
  BY <1>0, <1>1, <1>2, <1>3a DEF ProcTyped
<1>5. Others(p)
  BY <1>0, <1>1 DEF Others, ProcTyped
<1>6. \A i \in Inum : ref'[i] = ref[i] \/ Points(p, i) \/ dinode[i].nlink > 0
  BY <1>0
<1>7. panicked' \in Panics
  BY <1>0, <1>2, HeldNoPanic DEF Panics
<1>8. /\ Usable(cwd'[p]) /\ (file'[p] # Null => Usable(file'[p]))
      /\ dp'[p] # Null => Usable(dp'[p])
      /\ ip'[p] # Null /\ pc'[p] # "create_new" => Usable(ip'[p])
  BY <1>0, <1>1, <1>2, <1>4 DEF Live
<1>9. \A k \in 1..Len(puts'[p]) : k > 1 \/ phase'[p] # "unref" => Usable(puts'[p][k])
  BY <1>2, <1>4
<1>10. panicked' = "no" => Alone(p)' /\ Seen(p)'
  BY <1>0, <1>1, <1>2, <1>4 DEF Alone, Seen, IsDir, Plain
<1> QED
  BY <1>0, <1>1, <1>2, <1>4, <1>5, <1>6, <1>7, <1>8, <1>9, <1>10, QuietLInv

\* read(), write(), fstat() lock the inode of an open file.
LEMMA UseFileLInv ==
  ASSUME IInv, IInv', LInv, NEW p \in Proc, UseFile(p)
  PROVE  LInv'
<1>0. /\ pc[p] = "idle" /\ puts[p] = <<>> /\ panicked = "no" /\ file[p] # Null
      /\ panicked' = LockPanic(file[p])
      /\ dinode' = dinode /\ entries' = entries /\ ref' = ref
      /\ cwd' = cwd /\ file' = file /\ pc' = pc /\ args' = args
      /\ dp' = dp /\ ip' = ip /\ puts' = puts /\ phase' = phase
  BY DEF UseFile, Ilock, At, disk, owned
<1>1. /\ FsTyped /\ ProcTyped /\ Place(p) /\ Freeing(p) /\ TreeInv
      /\ Live(p) /\ Alone(p) /\ Seen(p)
  BY <1>0 DEF IInv, LInv, Typed
<1>2. file[p] \in Inum /\ dp[p] = Null /\ ip[p] = Null /\ phase[p] = "lock"
  BY <1>0, <1>1, NullInum DEF Place, DpPC, IpPC, DpLocked, IpLocked, ProcTyped, Live
<1>4. /\ dp'[p] = dp[p] /\ ip'[p] = ip[p] /\ cwd'[p] = cwd[p] /\ file'[p] = file[p]
      /\ puts'[p] = puts[p] /\ pc'[p] = pc[p] /\ args'[p] = args[p] /\ phase'[p] = phase[p]
  BY <1>0, <1>1, <1>2 DEF ProcTyped
<1>5. Others(p)
  BY <1>0, <1>1 DEF Others, ProcTyped
<1>6. \A i \in Inum : ref'[i] = ref[i] \/ Points(p, i) \/ dinode[i].nlink > 0
  BY <1>0
<1>7. panicked' \in Panics
  BY <1>0, <1>2, HeldNoPanic DEF Panics
<1>8. /\ Usable(cwd'[p]) /\ (file'[p] # Null => Usable(file'[p]))
      /\ dp'[p] # Null => Usable(dp'[p])
      /\ ip'[p] # Null /\ pc'[p] # "create_new" => Usable(ip'[p])
  BY <1>0, <1>1, <1>2, <1>4 DEF Live
<1>9. \A k \in 1..Len(puts'[p]) : k > 1 \/ phase'[p] # "unref" => Usable(puts'[p][k])
  BY <1>0, <1>1, <1>2, <1>4 DEF Live
<1>10. panicked' = "no" => Alone(p)' /\ Seen(p)'
  BY <1>0, <1>1, <1>2, <1>4 DEF Alone, Seen, IsDir, Plain
<1> QED
  BY <1>0, <1>1, <1>2, <1>4, <1>5, <1>6, <1>7, <1>8, <1>9, <1>10, QuietLInv

\* close() puts the inode.
LEMMA CloseFileLInv ==
  ASSUME IInv, IInv', LInv, NEW p \in Proc, CloseFile(p)
  PROVE  LInv'
<1>0. /\ pc[p] = "idle" /\ puts[p] = <<>> /\ panicked = "no" /\ file[p] # Null
      /\ panicked' = panicked
      /\ puts' = [puts EXCEPT ![p] = <<file[p]>>] /\ file' = [file EXCEPT ![p] = Null]
      /\ dinode' = dinode /\ entries' = entries /\ ref' = ref
      /\ cwd' = cwd /\ pc' = pc /\ args' = args
      /\ dp' = dp /\ ip' = ip /\ phase' = phase
  BY DEF CloseFile, At, Put, disk, icache
<1>1. /\ FsTyped /\ ProcTyped /\ Place(p) /\ Freeing(p) /\ TreeInv
      /\ Live(p) /\ Alone(p) /\ Seen(p)
  BY <1>0 DEF IInv, LInv, Typed
<1>2. file[p] \in Inum /\ Usable(file[p]) /\ dp[p] = Null /\ ip[p] = Null /\ phase[p] = "lock"
  BY <1>0, <1>1, NullInum DEF Place, DpPC, IpPC, DpLocked, IpLocked, ProcTyped, Live
<1>4. /\ dp'[p] = dp[p] /\ ip'[p] = ip[p] /\ cwd'[p] = cwd[p] /\ file'[p] = Null
      /\ puts'[p] = <<file[p]>> /\ pc'[p] = pc[p] /\ args'[p] = args[p] /\ phase'[p] = phase[p]
  BY <1>0, <1>1, <1>2 DEF ProcTyped
<1>5. Others(p)
  BY <1>0, <1>1 DEF Others, ProcTyped
<1>6. \A i \in Inum : ref'[i] = ref[i] \/ Points(p, i) \/ dinode[i].nlink > 0
  BY <1>0
<1>7. panicked' \in Panics
  BY <1>0 DEF Panics
<1>8. /\ Usable(cwd'[p]) /\ (file'[p] # Null => Usable(file'[p]))
      /\ dp'[p] # Null => Usable(dp'[p])
      /\ ip'[p] # Null /\ pc'[p] # "create_new" => Usable(ip'[p])
  BY <1>0, <1>1, <1>2, <1>4 DEF Live
<1>9. \A k \in 1..Len(puts'[p]) : k > 1 \/ phase'[p] # "unref" => Usable(puts'[p][k])
  BY <1>2, <1>4
<1>10. panicked' = "no" => Alone(p)' /\ Seen(p)'
  BY <1>0, <1>1, <1>2, <1>4 DEF Alone, Seen, IsDir, Plain
<1> QED
  BY <1>0, <1>1, <1>2, <1>4, <1>5, <1>6, <1>7, <1>8, <1>9, <1>10, QuietLInv

\* create(): the name exists.
LEMMA FoundNameLInv ==
  ASSUME IInv, IInv', LInv, NEW p \in Proc, At(p, "parent"), args[p].call \in {"creat", "mkdir"},
         NEW f \in Inum, f = entries[dp[p]][args[p].name], Iget(f, {dp[p]}),
         ip' = [ip EXCEPT ![p] = f], Put(p, <<dp[p]>>), dp' = [dp EXCEPT ![p] = Null],
         Goto(p, "exists"), UNCHANGED <<disk, owned, args, phase>>
  PROVE  LInv'
<1>0. /\ pc[p] = "parent" /\ puts[p] = <<>> /\ panicked = "no" /\ args[p].call \in {"creat", "mkdir"}
      /\ f = entries[dp[p]][args[p].name] /\ Iget(f, {dp[p]}) /\ ip' = [ip EXCEPT ![p] = f]
      /\ puts' = [puts EXCEPT ![p] = <<dp[p]>>] /\ dp' = [dp EXCEPT ![p] = Null]
      /\ pc' = [pc EXCEPT ![p] = "exists"]
      /\ dinode' = dinode /\ entries' = entries
      /\ cwd' = cwd /\ file' = file /\ args' = args /\ phase' = phase
  BY DEF At, Goto, Put, disk, owned
<1>1. /\ FsTyped /\ ProcTyped /\ Place(p) /\ Freeing(p) /\ TreeInv
      /\ Live(p) /\ Alone(p) /\ Seen(p)
  BY <1>0 DEF IInv, LInv, Typed
<1>2. dp[p] \in Inum /\ Usable(dp[p]) /\ phase[p] = "lock"
  BY <1>0, <1>1, NullInum DEF Place, DpPC, IpPC, DpLocked, IpLocked, ProcTyped, Live
<1>3. Usable(f) /\ (f = dp[p] \/ dinode[f].nlink > 0)
  <2>1. args[p].name \in Elem /\ args[p].name # ".." /\ IsDir(dp[p])
    BY <1>0, <1>1 DEF ProcTyped, Arg, Seen
  <2> QED
    BY <1>0, <1>2, <2>1, LookedUp
<1>4. /\ dp'[p] = Null /\ ip'[p] = f /\ cwd'[p] = cwd[p] /\ file'[p] = file[p]
      /\ puts'[p] = <<dp[p]>> /\ pc'[p] = "exists" /\ args'[p] = args[p] /\ phase'[p] = phase[p]
  BY <1>0, <1>1, <1>2 DEF ProcTyped
<1>5. Others(p)
  BY <1>0, <1>1 DEF Others, ProcTyped
<1>6. \A i \in Inum : ref'[i] = ref[i] \/ Points(p, i) \/ dinode[i].nlink > 0
  BY <1>0, <1>2, <1>3, IgetHeld
<1>7. panicked' \in Panics
  BY <1>0, <1>2, <1>3, IgetHeld
<1>8. /\ Usable(cwd'[p]) /\ (file'[p] # Null => Usable(file'[p]))
      /\ dp'[p] # Null => Usable(dp'[p])
      /\ ip'[p] # Null /\ pc'[p] # "create_new" => Usable(ip'[p])
  BY <1>0, <1>1, <1>2, <1>3, <1>4 DEF Live
<1>9. \A k \in 1..Len(puts'[p]) : k > 1 \/ phase'[p] # "unref" => Usable(puts'[p][k])
  BY <1>2, <1>4
<1>10. panicked' = "no" => Alone(p)' /\ Seen(p)'
  BY <1>0, <1>1, <1>2, <1>4 DEF Alone, Seen, IsDir, Plain
<1> QED
  BY <1>0, <1>1, <1>2, <1>4, <1>5, <1>6, <1>7, <1>8, <1>9, <1>10, QuietLInv

\* create() finds the name.
LEMMA CreateFoundLInv ==
  ASSUME IInv, IInv', LInv, NEW p \in Proc, CreateFound(p)
  PROVE  LInv'
<1> DEFINE f == Dirlookup(dp[p], args[p].name)
<1>1. f \in Inum \cup {Null} /\ f = entries[dp[p]][args[p].name]
  BY LookupType DEF CreateFound, At, Dirlookup
<1>2. /\ At(p, "parent") /\ args[p].call \in {"creat", "mkdir"} /\ f # Null
      /\ Iget(f, {dp[p]}) /\ ip' = [ip EXCEPT ![p] = f] /\ Put(p, <<dp[p]>>)
      /\ dp' = [dp EXCEPT ![p] = Null] /\ Goto(p, "exists") /\ UNCHANGED <<disk, owned, args, phase>>
  BY DEF CreateFound
<1> HIDE DEF f
<1> QED
  BY <1>1, <1>2, FoundNameLInv

\* ialloc() finds no free inode.
LEMMA IallocFullLInv ==
  ASSUME IInv, IInv', LInv, NEW p \in Proc, At(p, "parent"), args[p].call \in {"creat", "mkdir"},
         panicked' = "ialloc: no inodes", Goto(p, "create_new"),
         UNCHANGED <<dinode, ref, ip, entries, owned, args, dp, puts, phase>>
  PROVE  LInv'
<1>0. /\ pc[p] = "parent" /\ puts[p] = <<>> /\ panicked = "no" /\ args[p].call \in {"creat", "mkdir"}
      /\ panicked' = "ialloc: no inodes" /\ pc' = [pc EXCEPT ![p] = "create_new"]
      /\ dinode' = dinode /\ entries' = entries /\ ref' = ref
      /\ ip' = ip /\ dp' = dp /\ puts' = puts
      /\ cwd' = cwd /\ file' = file /\ args' = args /\ phase' = phase
  BY DEF At, Goto, owned
<1>1. /\ FsTyped /\ ProcTyped /\ Place(p) /\ Freeing(p) /\ TreeInv
      /\ Live(p) /\ Alone(p) /\ Seen(p)
  BY <1>0 DEF IInv, LInv, Typed
<1>2. dp[p] \in Inum /\ Usable(dp[p]) /\ ip[p] = Null /\ phase[p] = "lock"
  BY <1>0, <1>1, NullInum DEF Place, DpPC, IpPC, DpLocked, IpLocked, ProcTyped, Live
<1>4. /\ dp'[p] = dp[p] /\ ip'[p] = Null /\ cwd'[p] = cwd[p] /\ file'[p] = file[p]
      /\ puts'[p] = puts[p] /\ pc'[p] = "create_new" /\ args'[p] = args[p] /\ phase'[p] = phase[p]
  BY <1>0, <1>1, <1>2 DEF ProcTyped
<1>5. Others(p)
  BY <1>0, <1>1 DEF Others, ProcTyped
<1>6. \A i \in Inum : ref'[i] = ref[i] \/ Points(p, i) \/ dinode[i].nlink > 0
  BY <1>0
<1>7. panicked' \in Panics
  BY <1>0 DEF Panics
<1>8. /\ Usable(cwd'[p]) /\ (file'[p] # Null => Usable(file'[p]))
      /\ dp'[p] # Null => Usable(dp'[p])
      /\ ip'[p] # Null /\ pc'[p] # "create_new" => Usable(ip'[p])
  BY <1>0, <1>1, <1>2, <1>4 DEF Live
<1>9. \A k \in 1..Len(puts'[p]) : k > 1 \/ phase'[p] # "unref" => Usable(puts'[p][k])
  BY <1>0, <1>1, <1>2, <1>4 DEF Live
<1>10. panicked' = "no" => Alone(p)' /\ Seen(p)'
  BY <1>0, <1>1, <1>2, <1>4 DEF Alone, Seen, IsDir, Plain
<1> QED
  BY <1>0, <1>1, <1>2, <1>4, <1>5, <1>6, <1>7, <1>8, <1>9, <1>10, QuietLInv

\* unlink() finds the name and keeps dp locked.
LEMMA UnlinkHoldLInv ==
  ASSUME IInv, IInv', LInv, NEW p \in Proc, At(p, "parent"), args[p].call = "unlink",
         args[p].name \notin {".", ".."}, NEW f \in Inum, f = entries[dp[p]][args[p].name],
         Iget(f, {dp[p]}), ip' = [ip EXCEPT ![p] = f], Goto(p, "unlink_ip"),
         UNCHANGED <<args, puts, dp>>, UNCHANGED <<disk, owned, phase>>
  PROVE  LInv'
<1>0. /\ pc[p] = "parent" /\ puts[p] = <<>> /\ panicked = "no" /\ args[p].call = "unlink"
      /\ f = entries[dp[p]][args[p].name] /\ Iget(f, {dp[p]}) /\ ip' = [ip EXCEPT ![p] = f]
      /\ puts' = puts /\ dp' = dp /\ pc' = [pc EXCEPT ![p] = "unlink_ip"] /\ args[p].name \notin {".", ".."}
      /\ dinode' = dinode /\ entries' = entries
      /\ cwd' = cwd /\ file' = file /\ args' = args /\ phase' = phase
  BY DEF At, Goto, disk, owned
<1>1. /\ FsTyped /\ ProcTyped /\ Place(p) /\ Freeing(p) /\ TreeInv
      /\ Live(p) /\ Alone(p) /\ Seen(p)
  BY <1>0 DEF IInv, LInv, Typed
<1>2. dp[p] \in Inum /\ Usable(dp[p]) /\ phase[p] = "lock"
  BY <1>0, <1>1, NullInum DEF Place, DpPC, IpPC, DpLocked, IpLocked, ProcTyped, Live
<1>3. Usable(f) /\ (f = dp[p] \/ dinode[f].nlink > 0)
  <2>1. args[p].name \in Elem /\ args[p].name # ".." /\ IsDir(dp[p])
    BY <1>0, <1>1 DEF ProcTyped, Arg, Seen
  <2> QED
    BY <1>0, <1>2, <2>1, LookedUp
<1>3a. args[p].name \in Name
  BY <1>0, <1>1 DEF ProcTyped, Arg, Elem
<1>4. /\ dp'[p] = dp[p] /\ ip'[p] = f /\ cwd'[p] = cwd[p] /\ file'[p] = file[p]
      /\ puts'[p] = puts[p] /\ pc'[p] = "unlink_ip" /\ args'[p] = args[p] /\ phase'[p] = phase[p]
  BY <1>0, <1>1, <1>2 DEF ProcTyped
<1>5. Others(p)
  BY <1>0, <1>1 DEF Others, ProcTyped
<1>6. \A i \in Inum : ref'[i] = ref[i] \/ Points(p, i) \/ dinode[i].nlink > 0
  BY <1>0, <1>2, <1>3, IgetHeld
<1>7. panicked' \in Panics
  BY <1>0, <1>2, <1>3, IgetHeld
<1>8. /\ Usable(cwd'[p]) /\ (file'[p] # Null => Usable(file'[p]))
      /\ dp'[p] # Null => Usable(dp'[p])
      /\ ip'[p] # Null /\ pc'[p] # "create_new" => Usable(ip'[p])
  BY <1>0, <1>1, <1>2, <1>3, <1>4 DEF Live
<1>9. \A k \in 1..Len(puts'[p]) : k > 1 \/ phase'[p] # "unref" => Usable(puts'[p][k])
  BY <1>0, <1>1, <1>2, <1>3, <1>4 DEF Live
<1>10. panicked' = "no" => Alone(p)' /\ Seen(p)'
  BY <1>0, <1>1, <1>2, <1>4, <1>3a DEF Alone, Seen, IsDir, Plain
<1> QED
  BY <1>0, <1>1, <1>2, <1>4, <1>5, <1>6, <1>7, <1>8, <1>9, <1>10, QuietLInv

\* unlink() looks the name up.
LEMMA UnlinkLookupLInv ==
  ASSUME IInv, IInv', LInv, NEW p \in Proc, UnlinkLookup(p)
  PROVE  LInv'
<1> DEFINE f == Dirlookup(dp[p], args[p].name)
<1>1. /\ At(p, "parent") /\ args[p].call = "unlink" /\ pc[p] = "parent" /\ puts[p] = <<>>
      /\ panicked = "no" /\ UNCHANGED <<disk, owned, phase>>
  BY DEF UnlinkLookup, At
<1>2. \/ Ilock(dp[p]) /\ Fail(p, dp[p]) /\ UNCHANGED <<ref, lock, ip>>
      \/ /\ args[p].name \notin {".", ".."} /\ f # Null /\ Iget(f, {dp[p]})
         /\ ip' = [ip EXCEPT ![p] = f] /\ Goto(p, "unlink_ip") /\ UNCHANGED <<args, puts, dp>>
  BY DEF UnlinkLookup
<1>3. f \in Inum \cup {Null} /\ f = entries[dp[p]][args[p].name]
  BY <1>1, LookupType DEF Dirlookup
<1> HIDE DEF f
<1>4. CASE Ilock(dp[p]) /\ Fail(p, dp[p]) /\ UNCHANGED <<ref, lock, ip>>
  BY <1>1, <1>4, IlockFailsLInv DEF disk, owned
<1>5. CASE /\ args[p].name \notin {".", ".."} /\ f # Null /\ Iget(f, {dp[p]})
           /\ ip' = [ip EXCEPT ![p] = f] /\ Goto(p, "unlink_ip") /\ UNCHANGED <<args, puts, dp>>
  BY <1>1, <1>3, <1>5, UnlinkHoldLInv
<1> QED
  BY <1>2, <1>4, <1>5

\* unlink() of a directory that is not empty.
LEMMA UnlinkNotEmptyLInv ==
  ASSUME IInv, IInv', LInv, NEW p \in Proc, At(p, "unlink_ip"), panicked' \in Panics,
         Put(p, <<ip[p]>>), ip' = [ip EXCEPT ![p] = Null], Goto(p, "unlink_bad"),
         UNCHANGED <<disk, lock, dp>>, UNCHANGED <<ref, owned, args, phase>>
  PROVE  LInv'
<1>0. /\ pc[p] = "unlink_ip" /\ puts[p] = <<>> /\ panicked = "no" /\ panicked' \in Panics
      /\ puts' = [puts EXCEPT ![p] = <<ip[p]>>] /\ ip' = [ip EXCEPT ![p] = Null]
      /\ pc' = [pc EXCEPT ![p] = "unlink_bad"]
      /\ dinode' = dinode /\ entries' = entries /\ ref' = ref
      /\ cwd' = cwd /\ file' = file /\ args' = args /\ dp' = dp /\ phase' = phase
  BY DEF At, Goto, Put, disk, owned
<1>1. /\ FsTyped /\ ProcTyped /\ Place(p) /\ Freeing(p) /\ TreeInv
      /\ Live(p) /\ Alone(p) /\ Seen(p)
  BY <1>0 DEF IInv, LInv, Typed
<1>2. dp[p] \in Inum /\ Usable(dp[p]) /\ ip[p] \in Inum /\ Usable(ip[p]) /\ phase[p] = "lock" /\ args[p].call # "link2"
  BY <1>0, <1>1, NullInum DEF Place, DpPC, IpPC, DpLocked, IpLocked, ProcTyped, Live
<1>4. /\ dp'[p] = dp[p] /\ ip'[p] = Null /\ cwd'[p] = cwd[p] /\ file'[p] = file[p]
      /\ puts'[p] = <<ip[p]>> /\ pc'[p] = "unlink_bad" /\ args'[p] = args[p] /\ phase'[p] = phase[p]
  BY <1>0, <1>1, <1>2 DEF ProcTyped
<1>5. Others(p)
  BY <1>0, <1>1 DEF Others, ProcTyped
<1>6. \A i \in Inum : ref'[i] = ref[i] \/ Points(p, i) \/ dinode[i].nlink > 0
  BY <1>0
<1>7. panicked' \in Panics
  BY <1>0 DEF Panics
<1>8. /\ Usable(cwd'[p]) /\ (file'[p] # Null => Usable(file'[p]))
      /\ dp'[p] # Null => Usable(dp'[p])
      /\ ip'[p] # Null /\ pc'[p] # "create_new" => Usable(ip'[p])
  BY <1>0, <1>1, <1>2, <1>4 DEF Live
<1>9. \A k \in 1..Len(puts'[p]) : k > 1 \/ phase'[p] # "unref" => Usable(puts'[p][k])
  BY <1>2, <1>4
<1>10. panicked' = "no" => Alone(p)' /\ Seen(p)'
  BY <1>0, <1>1, <1>2, <1>4 DEF Alone, Seen, IsDir, Plain
<1> QED
  BY <1>0, <1>1, <1>2, <1>4, <1>5, <1>6, <1>7, <1>8, <1>9, <1>10, QuietLInv

\* dirlink() finds the name and puts what it names, with dp locked.
LEMMA LinkTakenLInv ==
  ASSUME IInv, IInv', LInv, NEW p \in Proc, At(p, "parent"), args[p].call = "link2",
         NEW f \in Inum, f = entries[dp[p]][args[p].name], Iget(f, {dp[p]}),
         Put(p, <<f>>), Goto(p, "link_exists"), UNCHANGED <<entries, args, dp, ip>>,
         UNCHANGED <<dinode, owned, phase>>
  PROVE  LInv'
<1>0. /\ pc[p] = "parent" /\ puts[p] = <<>> /\ panicked = "no" /\ args[p].call = "link2"
      /\ f = entries[dp[p]][args[p].name] /\ Iget(f, {dp[p]})
      /\ puts' = [puts EXCEPT ![p] = <<f>>] /\ pc' = [pc EXCEPT ![p] = "link_exists"]
      /\ dinode' = dinode /\ entries' = entries
      /\ cwd' = cwd /\ file' = file /\ args' = args /\ dp' = dp /\ ip' = ip /\ phase' = phase
  BY DEF At, Goto, Put, owned
<1>1. /\ FsTyped /\ ProcTyped /\ Place(p) /\ Freeing(p) /\ TreeInv
      /\ Live(p) /\ Alone(p) /\ Seen(p)
  BY <1>0 DEF IInv, LInv, Typed
<1>2. dp[p] \in Inum /\ Usable(dp[p]) /\ phase[p] = "lock"
  BY <1>0, <1>1, NullInum DEF Place, DpPC, IpPC, DpLocked, IpLocked, ProcTyped, Live
<1>3. Usable(f) /\ (f = dp[p] \/ dinode[f].nlink > 0)
  <2>1. args[p].name \in Elem /\ args[p].name # ".." /\ IsDir(dp[p])
    BY <1>0, <1>1 DEF ProcTyped, Arg, Seen
  <2> QED
    BY <1>0, <1>2, <2>1, LookedUp
<1>4. /\ dp'[p] = dp[p] /\ ip'[p] = ip[p] /\ cwd'[p] = cwd[p] /\ file'[p] = file[p]
      /\ puts'[p] = <<f>> /\ pc'[p] = "link_exists" /\ args'[p] = args[p] /\ phase'[p] = phase[p]
  BY <1>0, <1>1, <1>2 DEF ProcTyped
<1>5. Others(p)
  BY <1>0, <1>1 DEF Others, ProcTyped
<1>6. \A i \in Inum : ref'[i] = ref[i] \/ Points(p, i) \/ dinode[i].nlink > 0
  BY <1>0, <1>2, <1>3, IgetHeld
<1>7. panicked' \in Panics
  BY <1>0, <1>2, <1>3, IgetHeld
<1>8. /\ Usable(cwd'[p]) /\ (file'[p] # Null => Usable(file'[p]))
      /\ dp'[p] # Null => Usable(dp'[p])
      /\ ip'[p] # Null /\ pc'[p] # "create_new" => Usable(ip'[p])
  BY <1>0, <1>1, <1>2, <1>3, <1>4 DEF Live
<1>9. \A k \in 1..Len(puts'[p]) : k > 1 \/ phase'[p] # "unref" => Usable(puts'[p][k])
  BY <1>2, <1>3, <1>4
<1>10. panicked' = "no" => Alone(p)' /\ Seen(p)'
  BY <1>0, <1>1, <1>2, <1>4 DEF Alone, Seen, IsDir, Plain
<1> QED
  BY <1>0, <1>1, <1>2, <1>4, <1>5, <1>6, <1>7, <1>8, <1>9, <1>10, QuietLInv

\* link() of a directory.
LEMMA LinkDirectoryLInv ==
  ASSUME IInv, IInv', LInv, NEW p \in Proc, LinkDirectory(p)
  PROVE  LInv'
BY IlockFailsLInv DEF LinkDirectory, At, disk, owned

\* unlink() gives up.
LEMMA UnlinkBadLInv ==
  ASSUME IInv, IInv', LInv, NEW p \in Proc, UnlinkBad(p)
  PROVE  LInv'
BY FailLInv DEF UnlinkBad, At, disk, owned

\* link() gives up in a locked directory.
LEMMA LinkExistsLInv ==
  ASSUME IInv, IInv', LInv, NEW p \in Proc, LinkExists(p)
  PROVE  LInv'
BY FailLInv DEF LinkExists, At, disk, owned

-----------------------------------------------------------------------------
(***************************************************************************)
(* Steps that change the tree                                              *)
(***************************************************************************)
\* A step of p changes at most its own pending link.
LEMMA PendingStep ==
  ASSUME NEW p \in Proc, Others(p), NEW i
  PROVE  Cardinality(Pending(i)') + One(p \in Pending(i))
         = Cardinality(Pending(i)) + One(p \in Pending(i)')
<1>1. IsFiniteSet(Pending(i))
  BY CountedNat
<1>2. Pending(i) \ {p} = Pending(i)' \ {p}
  BY DEF Pending, Others
<1> HIDE DEF Pending
<1> QED
  BY <1>1, <1>2, OneMember

\* How the links of i that are counted change, if its entries and its
\* subdirectories change by the numbers given.
LEMMA CountedStep ==
  ASSUME NEW p \in Proc, Others(p), NEW i, NEW a \in Nat, NEW b \in Nat, NEW c \in Nat, NEW d \in Nat,
         Cardinality(Entries(i)') + a = Cardinality(Entries(i)) + b,
         Cardinality(Subs(i)') + c = Cardinality(Subs(i)) + d
  PROVE  ((Counted(i)' + a) + c) + One(p \in Pending(i))
         = ((Counted(i) + b) + d) + One(p \in Pending(i)')
<1> DEFINE e == One(p \in Pending(i))
           f == One(p \in Pending(i)')
<1>1. e \in Nat /\ f \in Nat
  BY DEF One
<1>2. Cardinality(Pending(i)') + e = Cardinality(Pending(i)) + f
  BY PendingStep
<1>3. Counted(i) = ((Cardinality(Entries(i)) + Cardinality(Subs(i)))
                    + Cardinality(Pending(i))) + (IF i = Root THEN 1 ELSE 0)
  BY DEF Counted
<1>4. /\ Cardinality(Entries(i)) \in Nat /\ Cardinality(Subs(i)) \in Nat
      /\ Cardinality(Pending(i)) \in Nat
  BY CountedNat
<1>5. /\ Cardinality(Entries(i)') \in Nat /\ Cardinality(Subs(i)') \in Nat
      /\ Cardinality(Pending(i)') \in Nat
      /\ Counted(i)' = ((Cardinality(Entries(i)') + Cardinality(Subs(i)'))
                        + Cardinality(Pending(i)')) + (IF i = Root THEN 1 ELSE 0)
  BY CountedNext
<1> HIDE DEF e, f
<1>6. ((Counted(i)' + a) + c) + e = ((Counted(i) + b) + d) + f
  BY <1>1, <1>2, <1>3, <1>4, <1>5
<1> QED
  BY <1>6 DEF e, f

\* One entry of a directory changes: the number of entries for i, and of
\* subdirectories of i, by at most that one (dirlink, sys_unlink).
LEMMA EntryStep ==
  ASSUME NEW d \in Inum, NEW n \in Name, IsDir(d),
         \A j \in Inum : dinode'[j].type = dinode[j].type,
         \A j \in Inum : \A m \in Name : j # d \/ m # n => entries'[j][m] = entries[j][m],
         \A j \in Inum : \A m \in Name : entries[j][m] \in Inum \cup {Null},
         NEW i \in Inum
  PROVE  /\ Cardinality(Entries(i)') + One(entries[d][n] = i)
            = Cardinality(Entries(i)) + One(entries'[d][n] = i)
         /\ Cardinality(Subs(i)') + One(i = d /\ entries[d][n] # Null /\ IsDir(entries[d][n]))
            = Cardinality(Subs(i)) + One(i = d /\ n \in Subs(d)')
<1>1. IsFiniteSet(Entries(i)) /\ IsFiniteSet(Subs(i))
  BY CountedNat
<1>2. Entries(i) \ {<<d, n>>} = Entries(i)' \ {<<d, n>>}
  BY DEF Entries
<1>3. (<<d, n>> \in Entries(i) <=> entries[d][n] = i) /\ (<<d, n>> \in Entries(i)' <=> entries'[d][n] = i)
  BY DEF Entries, IsDir
<1>4. Cardinality(Entries(i)') + One(entries[d][n] = i)
      = Cardinality(Entries(i)) + One(entries'[d][n] = i)
  <2> HIDE DEF Entries
  <2> QED
    BY <1>1, <1>2, <1>3, OneMember DEF One
<1>5. CASE i = d
  <2>1. Subs(d) \ {n} = Subs(d)' \ {n}
    BY DEF Subs, IsDir
  <2>2. n \in Subs(d) <=> entries[d][n] # Null /\ IsDir(entries[d][n])
    BY DEF Subs
  <2> HIDE DEF Subs
  <2> QED
    BY <1>1, <1>4, <1>5, <2>1, <2>2, OneMember DEF One
<1>6. CASE i # d
  <2>1. Subs(i)' = Subs(i)
    BY <1>6 DEF Subs, IsDir
  <2>2. Cardinality(Subs(i)) \in Nat
    BY CountedNat
  <2> HIDE DEF Subs
  <2> QED
    BY <1>4, <1>6, <2>1, <2>2 DEF One
<1> QED
  BY <1>5, <1>6

\* A step that changes one count of links as it changes its pending link
\* (sys_link, sys_unlink).
LEMMA CountLInv ==
  ASSUME IInv, IInv', LInv, panicked = "no", NEW p \in Proc, Others(p), entries' = entries,
         NEW i \in Inum, Usable(i), Points(p, i), pc[p] # "create_new", pc'[p] # "create_new",
         \A j \in Inum : j # i => dinode'[j] = dinode[j],
         dinode'[i].type = dinode[i].type, dinode'[i].nlink \in Int,
         dinode'[i].nlink + One(p \in Pending(i)) = dinode[i].nlink + One(p \in Pending(i)'),
         \A j \in Inum : j # i => (p \in Pending(j)' => p \in Pending(j)),
         \A j \in Inum : ref'[j] = ref[j] \/ Points(p, j) \/ dinode[j].nlink > 0,
         panicked' \in Panics,
         Usable(cwd'[p]), file'[p] # Null => Usable(file'[p]), dp'[p] # Null => Usable(dp'[p]),
         ip'[p] # Null => Usable(ip'[p]),
         \A k \in 1..Len(puts'[p]) : Usable(puts'[p][k]),
         panicked' = "no" => Alone(p)' /\ Seen(p)'
  PROVE  LInv'
<1>1. \A j \in Inum : dinode'[j].type = dinode[j].type
  OBVIOUS
<1>2. \A j \in Inum : Fresh(j)' <=> Fresh(j)
  BY DEF Fresh, Others
<1>3. \A j \in Inum : Usable(j) => Usable(j)'
  BY <1>1, <1>2 DEF Usable
<1>4. TreeInv'
  <2> SUFFICES ASSUME NEW j \in Inum
               PROVE  /\ Counted(j)' <= dinode'[j].nlink
                      /\ dinode'[j].type = "free" => dinode'[j].nlink = 0
                      /\ ~IsDir(j)' => \A n \in Name : entries'[j][n] = Null
                      /\ IsDir(j)' /\ ~Fresh(j)' => entries'[j]["."] = j
    BY DEF TreeInv
  <2>1. /\ Counted(j) <= dinode[j].nlink
        /\ dinode[j].type = "free" => dinode[j].nlink = 0
        /\ ~IsDir(j) => \A n \in Name : entries[j][n] = Null
        /\ IsDir(j) /\ ~Fresh(j) => entries[j]["."] = j
    BY DEF LInv, TreeInv
  <2>2. (IsDir(j)' <=> IsDir(j)) /\ Entries(j)' = Entries(j) /\ Subs(j)' = Subs(j)
    <3>1. \A n \in Name : entries[j][n] \in Inum \cup {Null}
      BY DEF IInv, Typed, FsTyped, Elem
    <3>2. \A k \in Inum : IsDir(k)' <=> IsDir(k)
      BY <1>1 DEF IsDir
    <3>3. Entries(j)' = Entries(j)
      BY <1>1 DEF Entries
    <3> QED
      BY <1>1, <3>1, <3>2, <3>3 DEF Subs, IsDir
  <2>3. Cardinality(Pending(j)') + One(p \in Pending(j)) = Cardinality(Pending(j)) + One(p \in Pending(j)')
    BY PendingStep
  <2>4. dinode[j].nlink \in Int /\ dinode'[j].nlink \in Int
    BY DEF IInv, Typed, FsTyped, Dinode
  <2>5. Counted(j)' + One(p \in Pending(j)) = Counted(j) + One(p \in Pending(j)')
    <3>1. /\ Cardinality(Entries(j)') + 0 = Cardinality(Entries(j)) + 0
          /\ Cardinality(Subs(j)') + 0 = Cardinality(Subs(j)) + 0
      BY <2>2
    <3>2. ((Counted(j)' + 0) + 0) + One(p \in Pending(j)) = ((Counted(j) + 0) + 0) + One(p \in Pending(j)')
      BY <3>1, CountedStep
    <3>3. Counted(j) \in Nat /\ Counted(j)' \in Nat
      BY CountedNat, CountedNext
    <3> QED
      BY <3>2, <3>3
  <2>6. Counted(j)' <= dinode'[j].nlink
    <3>1. Counted(j) \in Nat /\ Counted(j)' \in Nat
      BY CountedNat, CountedNext
    <3>2. CASE j = i
      BY <2>1, <2>4, <2>5, <3>1, <3>2 DEF One
    <3>3. CASE j # i
      BY <2>1, <2>4, <2>5, <3>1, <3>3 DEF One
    <3> QED
      BY <3>2, <3>3
  <2>7. dinode'[j].type = "free" => dinode'[j].nlink = 0
    BY <1>1, <2>1 DEF Usable
  <2> QED
    BY <1>2, <2>1, <2>2, <2>6, <2>7
<1>5. Frame(p)
  BY <1>1 DEF Frame
<1>6. /\ cwd'[p] \in Inum /\ file'[p] \in Inum \cup {Null} /\ dp'[p] \in Inum \cup {Null}
      /\ ip'[p] \in Inum \cup {Null} /\ \A k \in 1..Len(puts'[p]) : puts'[p][k] \in Inum
  BY DEF IInv, Typed, ProcTyped
<1>7. Live(p)'
  BY <1>3, <1>6 DEF Live
<1> QED
  BY <1>4, <1>5, <1>7, StepLInv

\* link() counts the link and begins the second walk.
LEMMA LinkCountLInv ==
  ASSUME IInv, IInv', LInv, NEW p \in Proc, LinkCount(p)
  PROVE  LInv'
<1>p. pc[p] = "found" /\ panicked = "no"
  BY DEF LinkCount, At
<1>q. dp[p] \in Inum
  BY <1>p, NullInum DEF IInv, Typed, Place, DpPC, IpPC, ProcTyped
<1>i. PICK i \in Inum : i = dp[p]
  BY <1>q
<1>0. /\ pc[p] = "found" /\ puts[p] = <<>> /\ panicked = "no" /\ args[p].call = "link"
      /\ Loaded(i).type # "dir" /\ Iget(Root, {dp[p]})
      /\ dinode' = [dinode EXCEPT ![i] = [Loaded(i) EXCEPT !.nlink = Loaded(i).nlink + 1]]
      /\ ip' = [ip EXCEPT ![p] = i] /\ dp' = [dp EXCEPT ![p] = Root]
      /\ args' = [args EXCEPT ![p].call = "link2", ![p].path = args[p].new, ![p].new = <<>>]
      /\ pc' = [pc EXCEPT ![p] = "namex"]
      /\ entries' = entries /\ cwd' = cwd /\ file' = file /\ puts' = puts /\ phase' = phase
  BY <1>i DEF LinkCount, Iupdate, OneMore, At, Goto, owned
<1>1. /\ FsTyped /\ ProcTyped /\ Place(p) /\ Freeing(p) /\ TreeInv /\ Typed
      /\ Live(p) /\ Alone(p) /\ Seen(p)
  BY <1>0 DEF IInv, LInv, Typed
<1>2. i \in Inum /\ Usable(i) /\ ip[p] = Null /\ phase[p] = "lock" /\ Points(p, i)
  BY <1>i, <1>0, <1>1, NullInum DEF Place, DpPC, IpPC, ProcTyped, Live, Points
<1>3. Loaded(i) = dinode[i] /\ dinode[i] \in Dinode
  BY <1>2, LoadedIsDisk
<1>4. /\ \A j \in Inum : j # i => dinode'[j] = dinode[j]
      /\ dinode'[i].type = dinode[i].type /\ dinode'[i].nlink = dinode[i].nlink + 1
      /\ dinode[i].nlink \in Int /\ ~IsDir(i)
  BY <1>0, <1>1, <1>2, <1>3 DEF FsTyped, Dinode, IsDir
<1>5. /\ dp'[p] = Root /\ ip'[p] = i /\ cwd'[p] = cwd[p] /\ file'[p] = file[p]
      /\ puts'[p] = puts[p] /\ pc'[p] = "namex" /\ phase'[p] = "lock"
      /\ args'[p].call = "link2" /\ args'[p].path = args[p].new /\ args'[p].new = <<>>
  BY <1>i, <1>0, <1>1, <1>2 DEF ProcTyped, Arg
<1>6. Others(p)
  BY <1>0, <1>1 DEF Others, ProcTyped
<1>7. Usable(Root) /\ dinode[Root].nlink > 0 /\ Root \in Inum
  BY <1>0, <1>1, NullInum, RootLinked, LinkedUsable
<1>8. /\ panicked' \in Panics
      /\ \A j \in Inum : ref'[j] = ref[j] \/ Points(p, j) \/ dinode[j].nlink > 0
  BY <1>i, <1>0, <1>2, <1>7, IgetHeld
<1>9. /\ \A j \in Inum : p \notin Pending(j)
      /\ p \in Pending(i)' /\ \A j \in Inum : j # i => p \notin Pending(j)'
  BY <1>i, <1>2, <1>5, NullInum DEF Pending
<1>10. dinode'[i].nlink + One(p \in Pending(i)) = dinode[i].nlink + One(p \in Pending(i)')
  BY <1>2, <1>4, <1>9 DEF One
<1>11. Alone(p)' /\ Seen(p)'
  <2>1. Plain(args[p].path)' /\ Plain(args[p].new)'
    <3>1. Plain(args[p].new)
      BY <1>0, <1>1 DEF Seen
    <3> QED
      BY <1>5, <3>1 DEF Plain
  <2>2. ~IsDir(ip[p])'
    BY <1>4, <1>5 DEF IsDir
  <2> QED
    BY <1>5, <2>1, <2>2 DEF Alone, Seen
<1>12. \A k \in 1..Len(puts'[p]) : Usable(puts'[p][k])
  BY <1>0, <1>5
<1>13. /\ Usable(cwd'[p]) /\ (file'[p] # Null => Usable(file'[p]))
       /\ dp'[p] # Null => Usable(dp'[p])
       /\ ip'[p] # Null => Usable(ip'[p])
  BY <1>1, <1>2, <1>5, <1>7 DEF Live
<1>14. entries' = entries /\ panicked = "no" /\ pc[p] # "create_new" /\ pc'[p] # "create_new" /\ dinode'[i].nlink \in Int
  BY <1>0, <1>4, <1>5
<1> QED
  BY <1>2, <1>4, <1>6, <1>8, <1>9, <1>10, <1>11, <1>12, <1>13, <1>14, CountLInv

\* link() counts back.
LEMMA LinkBadLInv ==
  ASSUME IInv, IInv', LInv, NEW p \in Proc, LinkBad(p)
  PROVE  LInv'
<1>p. pc[p] = "link_bad" /\ panicked = "no"
  BY DEF LinkBad, At
<1>q. ip[p] \in Inum
  BY <1>p, NullInum DEF IInv, Typed, Place, DpPC, IpPC, ProcTyped
<1>i. PICK i \in Inum : i = ip[p]
  BY <1>q
<1>0. /\ pc[p] = "link_bad" /\ puts[p] = <<>> /\ panicked = "no"
      /\ dinode' = [dinode EXCEPT ![i] = [Loaded(i) EXCEPT !.nlink = Loaded(i).nlink - 1]]
      /\ puts' = [puts EXCEPT ![p] = <<i>>] /\ ip' = [ip EXCEPT ![p] = Null]
      /\ pc' = [pc EXCEPT ![p] = "idle"] /\ args' = [args EXCEPT ![p] = NoArgs]
      /\ entries' = entries /\ ref' = ref /\ cwd' = cwd /\ file' = file /\ dp' = dp /\ phase' = phase
      /\ panicked' = LockPanic(i)
  BY <1>i DEF LinkBad, Ilock, Iupdate, Put, Return, At, Goto, owned
<1>1. /\ FsTyped /\ ProcTyped /\ Place(p) /\ Freeing(p) /\ TreeInv /\ Typed
      /\ Live(p) /\ Alone(p) /\ Seen(p)
  BY <1>0 DEF IInv, LInv, Typed
<1>2. i \in Inum /\ Usable(i) /\ dp[p] = Null /\ phase[p] = "lock" /\ Points(p, i) /\ args[p].call = "link2"
  BY <1>i, <1>0, <1>1, NullInum DEF Place, DpPC, IpPC, ProcTyped, Live, Points
<1>3. Loaded(i) = dinode[i] /\ dinode[i] \in Dinode /\ Loaded(i).nlink = dinode[i].nlink
  BY <1>1, <1>2, LoadedIsDisk DEF IInv, CacheInv
<1>4. /\ \A j \in Inum : j # i => dinode'[j] = dinode[j]
      /\ dinode'[i].type = dinode[i].type /\ dinode'[i].nlink = dinode[i].nlink - 1
      /\ dinode[i].nlink \in Int
  BY <1>0, <1>1, <1>2, <1>3 DEF FsTyped, Dinode
<1>5a. NoArgs.call = "none"
  BY DEF NoArgs
<1>5. /\ dp'[p] = dp[p] /\ ip'[p] = Null /\ cwd'[p] = cwd[p] /\ file'[p] = file[p]
      /\ puts'[p] = <<i>> /\ pc'[p] = "idle" /\ phase'[p] = "lock" /\ args'[p].call = "none"
  BY <1>0, <1>1, <1>2, <1>5a, <1>i DEF ProcTyped
<1>6. Others(p)
  BY <1>0, <1>1 DEF Others, ProcTyped
<1>8. panicked' \in Panics /\ \A j \in Inum : ref'[j] = ref[j] \/ Points(p, j) \/ dinode[j].nlink > 0
  BY <1>i, <1>0, <1>2, HeldNoPanic DEF Panics
<1>9. /\ \A j \in Inum : j # i => p \notin Pending(j)
      /\ p \in Pending(i) /\ \A j \in Inum : p \notin Pending(j)'
  BY <1>i, <1>0, <1>2, <1>5, NullInum DEF Pending
<1>10. dinode'[i].nlink + One(p \in Pending(i)) = dinode[i].nlink + One(p \in Pending(i)')
  BY <1>2, <1>4, <1>9 DEF One
<1>11. Alone(p)' /\ Seen(p)'
  BY <1>5 DEF Alone, Seen
<1>12. \A k \in 1..Len(puts'[p]) : Usable(puts'[p][k])
  BY <1>2, <1>5
<1>13. /\ Usable(cwd'[p]) /\ (file'[p] # Null => Usable(file'[p]))
       /\ dp'[p] # Null => Usable(dp'[p])
       /\ ip'[p] # Null => Usable(ip'[p])
  BY <1>1, <1>2, <1>5 DEF Live
<1>14. /\ entries' = entries /\ panicked = "no" /\ pc[p] # "create_new" /\ pc'[p] # "create_new"
       /\ dinode'[i].nlink \in Int
  BY <1>0, <1>4, <1>5
<1> QED
  BY <1>2, <1>4, <1>6, <1>8, <1>9, <1>10, <1>11, <1>12, <1>13, <1>14, CountLInv

\* unlink() counts the link back and puts the inode.
LEMMA UnlinkedLInv ==
  ASSUME IInv, IInv', LInv, NEW p \in Proc, Unlinked(p)
  PROVE  LInv'
<1>p. pc[p] = "unlinked" /\ panicked = "no"
  BY DEF Unlinked, At
<1>q. ip[p] \in Inum
  BY <1>p, NullInum DEF IInv, Typed, Place, DpPC, IpPC, ProcTyped
<1>i. PICK i \in Inum : i = ip[p]
  BY <1>q
<1>0. /\ pc[p] = "unlinked" /\ puts[p] = <<>> /\ panicked = "no"
      /\ dinode' = [dinode EXCEPT ![i] = [Loaded(i) EXCEPT !.nlink = inode[i].nlink - 1]]
      /\ puts' = [puts EXCEPT ![p] = <<i>>] /\ ip' = [ip EXCEPT ![p] = Null]
      /\ pc' = [pc EXCEPT ![p] = "idle"] /\ args' = [args EXCEPT ![p] = NoArgs]
      /\ entries' = entries /\ ref' = ref /\ cwd' = cwd /\ file' = file /\ dp' = dp /\ phase' = phase
      /\ panicked' = panicked
  BY <1>i DEF Unlinked, Iupdate, Put, Return, At, Goto, owned
<1>1. /\ FsTyped /\ ProcTyped /\ Place(p) /\ Freeing(p) /\ TreeInv /\ Typed
      /\ Live(p) /\ Alone(p) /\ Seen(p)
  BY <1>0 DEF IInv, LInv, Typed
<1>2. i \in Inum /\ Usable(i) /\ dp[p] = Null /\ phase[p] = "lock" /\ Points(p, i) /\ valid[i]
  BY <1>i, <1>0, <1>1, NullInum DEF Place, DpPC, IpPC, ProcTyped, Live, Points
<1>3. Loaded(i) = dinode[i] /\ dinode[i] \in Dinode /\ inode[i].nlink = dinode[i].nlink
  BY <1>1, <1>2, LoadedIsDisk DEF IInv, CacheInv
<1>4. /\ \A j \in Inum : j # i => dinode'[j] = dinode[j]
      /\ dinode'[i].type = dinode[i].type /\ dinode'[i].nlink = dinode[i].nlink - 1
      /\ dinode[i].nlink \in Int
  BY <1>0, <1>1, <1>2, <1>3 DEF FsTyped, Dinode
<1>5a. NoArgs.call = "none"
  BY DEF NoArgs
<1>5. /\ dp'[p] = dp[p] /\ ip'[p] = Null /\ cwd'[p] = cwd[p] /\ file'[p] = file[p]
      /\ puts'[p] = <<i>> /\ pc'[p] = "idle" /\ phase'[p] = "lock" /\ args'[p].call = "none"
  BY <1>0, <1>1, <1>2, <1>5a, <1>i DEF ProcTyped
<1>6. Others(p)
  BY <1>0, <1>1 DEF Others, ProcTyped
<1>8. panicked' \in Panics /\ \A j \in Inum : ref'[j] = ref[j] \/ Points(p, j) \/ dinode[j].nlink > 0
  BY <1>i, <1>0, <1>2, HeldNoPanic DEF Panics
<1>9. /\ \A j \in Inum : j # i => p \notin Pending(j)
      /\ p \in Pending(i) /\ \A j \in Inum : p \notin Pending(j)'
  BY <1>i, <1>0, <1>2, <1>5, NullInum DEF Pending
<1>10. dinode'[i].nlink + One(p \in Pending(i)) = dinode[i].nlink + One(p \in Pending(i)')
  BY <1>2, <1>4, <1>9 DEF One
<1>11. Alone(p)' /\ Seen(p)'
  BY <1>5 DEF Alone, Seen
<1>12. \A k \in 1..Len(puts'[p]) : Usable(puts'[p][k])
  BY <1>2, <1>5
<1>13. /\ Usable(cwd'[p]) /\ (file'[p] # Null => Usable(file'[p]))
       /\ dp'[p] # Null => Usable(dp'[p])
       /\ ip'[p] # Null => Usable(ip'[p])
  BY <1>1, <1>2, <1>5 DEF Live
<1>14. /\ entries' = entries /\ panicked = "no" /\ pc[p] # "create_new" /\ pc'[p] # "create_new"
       /\ dinode'[i].nlink \in Int
  BY <1>0, <1>4, <1>5
<1> QED
  BY <1>2, <1>4, <1>6, <1>8, <1>9, <1>10, <1>11, <1>12, <1>13, <1>14, CountLInv

\* The entry n of d as a link to i, as a subdirectory of i, and p's pending
\* link to i, as numbers.
Names(d, n, i) == IF entries[d][n] = i THEN 1 ELSE 0
NamesSub(d, n, i) == IF i = d /\ entries[d][n] # Null /\ IsDir(entries[d][n]) THEN 1 ELSE 0
Pends(p, i) == IF p \in Pending(i) THEN 1 ELSE 0

\* The links of i that are counted, when p changes one entry.
LEMMA EntryCounted ==
  ASSUME NEW p \in Proc, Others(p), NEW d \in Inum, NEW n \in Name, IsDir(d),
         \A j \in Inum : dinode'[j].type = dinode[j].type,
         \A j \in Inum : \A m \in Name : j # d \/ m # n => entries'[j][m] = entries[j][m],
         \A j \in Inum : \A m \in Name : entries[j][m] \in Inum \cup {Null},
         NEW i \in Inum
  PROVE  ((Counted(i)' + Names(d, n, i)) + NamesSub(d, n, i)) + Pends(p, i)
         = ((Counted(i) + Names(d, n, i)') + NamesSub(d, n, i)') + Pends(p, i)'
<1>1. /\ Cardinality(Entries(i)') + One(entries[d][n] = i)
         = Cardinality(Entries(i)) + One(entries'[d][n] = i)
      /\ Cardinality(Subs(i)') + One(i = d /\ entries[d][n] # Null /\ IsDir(entries[d][n]))
         = Cardinality(Subs(i)) + One(i = d /\ n \in Subs(d)')
  BY EntryStep
<1>2. One(entries[d][n] = i) = Names(d, n, i) /\ One(entries'[d][n] = i) = Names(d, n, i)'
  BY DEF One, Names
<1>3. One(i = d /\ entries[d][n] # Null /\ IsDir(entries[d][n])) = NamesSub(d, n, i)
  BY DEF One, NamesSub
<1>4. One(i = d /\ n \in Subs(d)') = NamesSub(d, n, i)'
  <2>1. n \in Subs(d)' <=> (entries[d][n] # Null /\ IsDir(entries[d][n]))'
    BY DEF Subs, IsDir
  <2> QED
    BY <2>1 DEF One, NamesSub, IsDir
<1>5. One(p \in Pending(i)) = Pends(p, i) /\ One(p \in Pending(i)') = Pends(p, i)'
  BY DEF One, Pends
<1>6. /\ Cardinality(Entries(i)') + Names(d, n, i) = Cardinality(Entries(i)) + Names(d, n, i)'
      /\ Cardinality(Subs(i)') + NamesSub(d, n, i) = Cardinality(Subs(i)) + NamesSub(d, n, i)'
  BY <1>1, <1>2, <1>3, <1>4
<1>7. /\ Names(d, n, i) \in Nat /\ Names(d, n, i)' \in Nat
      /\ NamesSub(d, n, i) \in Nat /\ NamesSub(d, n, i)' \in Nat
  BY DEF Names, NamesSub
<1>8. ((Counted(i)' + Names(d, n, i)) + NamesSub(d, n, i)) + One(p \in Pending(i))
      = ((Counted(i) + Names(d, n, i)') + NamesSub(d, n, i)') + One(p \in Pending(i)')
  BY <1>6, <1>7, CountedStep
<1> QED
  BY <1>5, <1>8

\* A new name is not "." (dirlookup has found that one).
LEMMA NewName ==
  ASSUME IInv, LInv, panicked = "no", NEW p \in Proc, pc[p] \in {"parent", "create_new"},
         entries[dp[p]][args[p].name] = Null
  PROVE  /\ dp[p] \in Inum /\ args[p].name \in Name /\ IsDir(dp[p]) /\ Usable(dp[p])
<1>1. Place(p) /\ Seen(p) /\ Live(p) /\ ProcTyped /\ TreeInv
  BY DEF IInv, LInv, Typed
<1>2. dp[p] \in Inum /\ dp[p] # Null /\ args[p].name \in Elem
  BY <1>1, NullInum DEF Place, DpPC, ProcTyped, Arg
<1>3. IsDir(dp[p]) /\ args[p].name # ".." /\ Usable(dp[p])
  BY <1>1, <1>2 DEF Seen, Live
<1>4. entries[dp[p]]["."] = dp[p]
  BY <1>1, <1>2, <1>3 DEF TreeInv, Usable
<1> QED
  BY <1>2, <1>3, <1>4 DEF Elem

\* Names are typed.
LEMMA NamesTyped ==
  ASSUME IInv
  PROVE  \A j \in Inum : \A m \in Name : entries[j][m] \in Inum \cup {Null}
BY DEF IInv, Typed, FsTyped, Elem

\* dirlink() enters the new name, which makes the pending link a link.
LEMMA LinkNewLInv ==
  ASSUME IInv, IInv', LInv, NEW p \in Proc, At(p, "parent"), args[p].call = "link2", Ilock(dp[p]),
         entries[dp[p]][args[p].name] = Null,
         entries' = [entries EXCEPT ![dp[p]][args[p].name] = ip[p]],
         Put(p, <<dp[p], ip[p]>>), dp' = [dp EXCEPT ![p] = Null],
         ip' = [ip EXCEPT ![p] = Null], Return(p), UNCHANGED <<ref, lock>>,
         UNCHANGED <<dinode, owned, phase>>
  PROVE  LInv'
<1>p. pc[p] = "parent" /\ puts[p] = <<>> /\ panicked = "no"
  BY DEF At
<1>1. /\ FsTyped /\ ProcTyped /\ Place(p) /\ Freeing(p) /\ TreeInv /\ Typed
      /\ Live(p) /\ Alone(p) /\ Seen(p)
  BY <1>p DEF IInv, LInv, Typed
<1>q. dp[p] \in Inum /\ ip[p] \in Inum /\ args[p].name \in Name /\ IsDir(dp[p]) /\ Usable(dp[p])
  BY <1>p, <1>1, NewName, NullInum DEF Place, ProcTyped
<1>i. PICK d \in Inum, i \in Inum, n \in Name : d = dp[p] /\ i = ip[p] /\ n = args[p].name
  BY <1>q
<1>0. /\ entries[d][n] = Null /\ entries' = [entries EXCEPT ![d][n] = i] /\ lock[d] = NoProc
      /\ puts' = [puts EXCEPT ![p] = <<d, i>>] /\ dp' = [dp EXCEPT ![p] = Null]
      /\ ip' = [ip EXCEPT ![p] = Null] /\ pc' = [pc EXCEPT ![p] = "idle"]
      /\ args' = [args EXCEPT ![p] = NoArgs] /\ panicked' = LockPanic(d)
      /\ dinode' = dinode /\ ref' = ref /\ cwd' = cwd /\ file' = file /\ phase' = phase
  BY <1>i DEF Put, Return, Goto, Ilock, owned
<1>2. IsDir(d) /\ Usable(d) /\ Usable(i) /\ ~IsDir(i) /\ phase[p] = "lock" /\ p \in Pending(i) /\ d # Null /\ i # Null
      /\ \A j \in Inum : j # i => p \notin Pending(j)
  BY <1>p, <1>1, <1>q, <1>i, NullInum DEF Live, Seen, Place, Pending
<1>3. panicked' = "no"
  BY <1>p, <1>0, <1>i, HeldNoPanic
<1>4. NoArgs.call = "none"
  BY DEF NoArgs
<1>5. /\ dp'[p] = Null /\ ip'[p] = Null /\ cwd'[p] = cwd[p] /\ file'[p] = file[p]
      /\ puts'[p] = <<d, i>> /\ pc'[p] = "idle" /\ phase'[p] = "lock" /\ args'[p].call = "none"
  BY <1>0, <1>1, <1>2, <1>4 DEF ProcTyped
<1>6. Others(p)
  BY <1>0, <1>1 DEF Others, ProcTyped
<1>7. /\ \A j \in Inum : \A m \in Elem : j # d \/ m # n => entries'[j][m] = entries[j][m]
      /\ \A j \in Inum : j # d => entries'[j] = entries[j]
      /\ entries'[d][n] = i
  <2>1. entries \in [Inum -> [Elem -> Inum \cup {Null}]] /\ n \in Elem
    BY <1>1, <1>i DEF FsTyped, Elem
  <2> QED
    BY <1>0, <2>1
<1>8. \A j \in Inum : (Fresh(j)' <=> Fresh(j)) /\ (Usable(j)' <=> Usable(j)) /\ (IsDir(j)' <=> IsDir(j))
  BY <1>p, <1>0, <1>5, <1>6 DEF Fresh, Others, Usable, IsDir
<1>9. TreeInv'
  <2> SUFFICES ASSUME NEW j \in Inum
               PROVE  /\ Counted(j)' <= dinode'[j].nlink
                      /\ dinode'[j].type = "free" => dinode'[j].nlink = 0
                      /\ ~IsDir(j)' => \A m \in Name : entries'[j][m] = Null
                      /\ IsDir(j)' /\ ~Fresh(j)' => entries'[j]["."] = j
    BY DEF TreeInv
  <2>1. /\ Counted(j) <= dinode[j].nlink
        /\ dinode[j].type = "free" => dinode[j].nlink = 0
        /\ ~IsDir(j) => \A m \in Name : entries[j][m] = Null
        /\ IsDir(j) /\ ~Fresh(j) => entries[j]["."] = j
    BY <1>1 DEF TreeInv
  <2>2. Counted(j)' = Counted(j)
    <3>1. \A m \in Name : m \in Elem
      BY DEF Elem
    <3>2. p \notin Pending(j)'
      BY <1>5, NullInum DEF Pending
    <3>3. Counted(j) \in Nat /\ Counted(j)' \in Nat
      BY CountedNat, CountedNext
    <3>4. /\ IsDir(d) /\ \A k \in Inum : dinode'[k].type = dinode[k].type
          /\ \A k \in Inum : \A m \in Name : k # d \/ m # n => entries'[k][m] = entries[k][m]
          /\ \A k \in Inum : \A m \in Name : entries[k][m] \in Inum \cup {Null}
      BY <1>0, <1>2, <1>7, <3>1, NamesTyped
    <3>5. /\ entries[d][n] = Null /\ entries'[d][n] = i /\ dinode'[i].type # "dir"
          /\ j # Null
      BY <1>0, <1>2, <1>7, NullInum DEF IsDir
    <3>6. ((Counted(j)' + Names(d, n, j)) + NamesSub(d, n, j)) + Pends(p, j)
          = ((Counted(j) + Names(d, n, j)') + NamesSub(d, n, j)') + Pends(p, j)'
      BY <1>6, <3>4, EntryCounted
    <3>7. /\ Names(d, n, j) = 0 /\ NamesSub(d, n, j) = 0 /\ NamesSub(d, n, j)' = 0 /\ Pends(p, j)' = 0
          /\ Names(d, n, j)' = IF j = i THEN 1 ELSE 0
          /\ Pends(p, j) = IF j = i THEN 1 ELSE 0
      BY <1>2, <3>2, <3>5 DEF Names, NamesSub, Pends, IsDir
    <3> QED
      BY <3>3, <3>6, <3>7
  <2>3. n # "." /\ "." \in Elem /\ \A m \in Name : m \in Elem
    BY <1>i, InodeAssumption DEF Elem
  <2>4. ~IsDir(j) => j # d
    BY <1>2
  <2> QED
    BY <1>0, <1>7, <1>8, <2>1, <2>2, <2>3, <2>4
<1>10. Frame(p)
  BY <1>0, <1>5, <1>7 DEF Frame
<1>11. Live(p)'
  <2>1. cwd[p] \in Inum /\ file[p] \in Inum \cup {Null} /\ Usable(cwd[p]) /\ (file[p] # Null => Usable(file[p]))
    BY <1>1 DEF ProcTyped, Live
  <2>2. Usable(d)' /\ Usable(i)'
    BY <1>2, <1>8
  <2> QED
    BY <1>5, <1>8, <2>1, <2>2 DEF Live
<1>12. Alone(p)' /\ Seen(p)'
  BY <1>5 DEF Alone, Seen
<1> QED
  BY <1>p, <1>3, <1>6, <1>9, <1>10, <1>11, <1>12, StepLInv DEF Panics

\* link(): the entry.
LEMMA LinkEntryLInv ==
  ASSUME IInv, IInv', LInv, NEW p \in Proc, LinkEntry(p)
  PROVE  LInv'
<1> DEFINE f == Dirlookup(dp[p], args[p].name)
<1>1. /\ At(p, "parent") /\ args[p].call = "link2" /\ UNCHANGED <<dinode, owned, phase>>
  BY DEF LinkEntry
<1>2. \/ /\ f # Null /\ Iget(f, {dp[p]})
         /\ Put(p, <<f>>) /\ Goto(p, "link_exists") /\ UNCHANGED <<entries, args, dp, ip>>
      \/ /\ f = Null /\ Ilock(dp[p]) /\ entries' = [entries EXCEPT ![dp[p]][args[p].name] = ip[p]]
         /\ Put(p, <<dp[p], ip[p]>>) /\ dp' = [dp EXCEPT ![p] = Null]
         /\ ip' = [ip EXCEPT ![p] = Null] /\ Return(p) /\ UNCHANGED <<ref, lock>>
  BY DEF LinkEntry
<1>3. f \in Inum \cup {Null} /\ f = entries[dp[p]][args[p].name]
  BY <1>1, LookupType DEF At, Dirlookup
<1> HIDE DEF f
<1>4. CASE /\ f # Null /\ Iget(f, {dp[p]})
           /\ Put(p, <<f>>) /\ Goto(p, "link_exists") /\ UNCHANGED <<entries, args, dp, ip>>
  BY <1>1, <1>3, <1>4, LinkTakenLInv
<1>5. CASE /\ f = Null /\ Ilock(dp[p]) /\ entries' = [entries EXCEPT ![dp[p]][args[p].name] = ip[p]]
           /\ Put(p, <<dp[p], ip[p]>>) /\ dp' = [dp EXCEPT ![p] = Null]
           /\ ip' = [ip EXCEPT ![p] = Null] /\ Return(p) /\ UNCHANGED <<ref, lock>>
  BY <1>1, <1>3, <1>5, LinkNewLInv
<1> QED
  BY <1>2, <1>4, <1>5

\* sys_unlink() clears the entry: the link is pending until its count is
\* taken back, and the ".." of a subdirectory is no longer counted.
LEMMA UnlinkEntryLInv ==
  ASSUME IInv, IInv', LInv, NEW p \in Proc, At(p, "unlink_ip"),
         entries' = [entries EXCEPT ![dp[p]][args[p].name] = Null],
         dinode' = [dinode EXCEPT ![dp[p]] = [inode[dp[p]] EXCEPT !.nlink = IF IsDir(ip[p]) THEN @ - 1 ELSE @]],
         panicked' = "no",
         Put(p, <<dp[p]>>), dp' = [dp EXCEPT ![p] = Null], Goto(p, "unlinked"), UNCHANGED ip,
         UNCHANGED <<ref, owned, args, phase>>
  PROVE  LInv'
<1>p. pc[p] = "unlink_ip" /\ puts[p] = <<>> /\ panicked = "no"
  BY DEF At
<1>1. /\ FsTyped /\ ProcTyped /\ Place(p) /\ Freeing(p) /\ TreeInv /\ Typed
      /\ Live(p) /\ Alone(p) /\ Seen(p) /\ CacheInv
  BY <1>p DEF IInv, LInv, Typed
<1>q. dp[p] \in Inum /\ ip[p] \in Inum /\ args[p].name \in Name
  BY <1>p, <1>1, NullInum DEF Place, DpPC, IpPC, ProcTyped, Seen
<1>i. PICK d \in Inum, i \in Inum, n \in Name : d = dp[p] /\ i = ip[p] /\ n = args[p].name
  BY <1>q
<1>a. inode[d] = dinode[d] /\ lock[d] = p
  BY <1>p, <1>1, <1>i DEF Place, CacheInv, DpLocked
<1>0. /\ entries[d][n] = i /\ entries' = [entries EXCEPT ![d][n] = Null]
      /\ dinode' = [dinode EXCEPT ![d] = [dinode[d] EXCEPT !.nlink = IF IsDir(i) THEN @ - 1 ELSE @]]
      /\ puts' = [puts EXCEPT ![p] = <<d>>] /\ dp' = [dp EXCEPT ![p] = Null]
      /\ ip' = ip /\ pc' = [pc EXCEPT ![p] = "unlinked"]
      /\ args' = args /\ panicked' = "no"
      /\ ref' = ref /\ cwd' = cwd /\ file' = file /\ phase' = phase
  BY <1>p, <1>1, <1>i, <1>a DEF Put, Goto, owned, Seen
<1>2. /\ IsDir(d) /\ Usable(d) /\ Usable(i) /\ phase[p] = "lock" /\ d # Null /\ i # Null
      /\ args[p].call # "link2" /\ \A j \in Inum : p \notin Pending(j)
  BY <1>p, <1>1, <1>q, <1>i, NullInum DEF Live, Seen, Place, Pending
<1>4. /\ dinode[d].nlink \in Int
      /\ \A j \in Inum : j # d => dinode'[j] = dinode[j]
      /\ dinode'[d].type = dinode[d].type
      /\ IsDir(i) => dinode'[d].nlink = dinode[d].nlink - 1
      /\ ~IsDir(i) => dinode'[d].nlink = dinode[d].nlink
  <2>1. dinode \in [Inum -> Dinode] /\ dinode[d] \in Dinode
    BY <1>1 DEF FsTyped
  <2>2. CASE IsDir(i)
    <3>1. dinode' = [dinode EXCEPT ![d] = [dinode[d] EXCEPT !.nlink = dinode[d].nlink - 1]]
      BY <1>0, <2>2
    <3> QED
      BY <2>1, <2>2, <3>1 DEF Dinode
  <2>3. CASE ~IsDir(i)
    <3>1. dinode' = [dinode EXCEPT ![d] = [dinode[d] EXCEPT !.nlink = dinode[d].nlink]]
      BY <1>0, <2>3
    <3> QED
      BY <2>1, <2>3, <3>1 DEF Dinode
  <2> QED
    BY <2>2, <2>3
<1>5. /\ dp'[p] = Null /\ ip'[p] = i /\ cwd'[p] = cwd[p] /\ file'[p] = file[p]
      /\ puts'[p] = <<d>> /\ pc'[p] = "unlinked" /\ phase'[p] = "lock" /\ args'[p].call # "link2"
  BY <1>0, <1>1, <1>2, <1>i DEF ProcTyped
<1>6. Others(p)
  BY <1>0, <1>1 DEF Others, ProcTyped
<1>7. /\ \A j \in Inum : \A m \in Elem : j # d \/ m # n => entries'[j][m] = entries[j][m]
      /\ \A j \in Inum : j # d => entries'[j] = entries[j]
      /\ entries'[d][n] = Null
  <2>1. entries \in [Inum -> [Elem -> Inum \cup {Null}]] /\ n \in Elem
    BY <1>1, <1>i DEF FsTyped, Elem
  <2> QED
    BY <1>0, <2>1
<1>t. \A j \in Inum : dinode'[j].type = dinode[j].type
  BY <1>4
<1>8. \A j \in Inum : (Fresh(j)' <=> Fresh(j)) /\ (Usable(j)' <=> Usable(j)) /\ (IsDir(j)' <=> IsDir(j))
  BY <1>p, <1>t, <1>5, <1>6 DEF Fresh, Others, Usable, IsDir
<1>9. TreeInv'
  <2> SUFFICES ASSUME NEW j \in Inum
               PROVE  /\ Counted(j)' <= dinode'[j].nlink
                      /\ dinode'[j].type = "free" => dinode'[j].nlink = 0
                      /\ ~IsDir(j)' => \A m \in Name : entries'[j][m] = Null
                      /\ IsDir(j)' /\ ~Fresh(j)' => entries'[j]["."] = j
    BY DEF TreeInv
  <2>1. /\ Counted(j) <= dinode[j].nlink
        /\ dinode[j].type = "free" => dinode[j].nlink = 0
        /\ ~IsDir(j) => \A m \in Name : entries[j][m] = Null
        /\ IsDir(j) /\ ~Fresh(j) => entries[j]["."] = j
    BY <1>1 DEF TreeInv
  <2>2. Counted(j)' <= dinode'[j].nlink
    <3>1. \A m \in Name : m \in Elem
      BY DEF Elem
    <3>2. p \in Pending(j)' <=> j = i
      BY <1>5, NullInum DEF Pending
    <3>3. Counted(j) \in Nat /\ Counted(j)' \in Nat /\ dinode[j].nlink \in Int
      BY <1>1, CountedNat, CountedNext DEF FsTyped, Dinode
    <3>4. /\ IsDir(d) /\ \A k \in Inum : dinode'[k].type = dinode[k].type
          /\ \A k \in Inum : \A m \in Name : k # d \/ m # n => entries'[k][m] = entries[k][m]
          /\ \A k \in Inum : \A m \in Name : entries[k][m] \in Inum \cup {Null}
      BY <1>t, <1>2, <1>7, <3>1, NamesTyped
    <3>5. entries[d][n] = i /\ entries'[d][n] = Null /\ j # Null
      BY <1>0, <1>7, NullInum
    <3>6. ((Counted(j)' + Names(d, n, j)) + NamesSub(d, n, j)) + Pends(p, j)
          = ((Counted(j) + Names(d, n, j)') + NamesSub(d, n, j)') + Pends(p, j)'
      BY <1>6, <3>4, EntryCounted
    <3>7. /\ Names(d, n, j)' = 0 /\ NamesSub(d, n, j)' = 0 /\ Pends(p, j) = 0
          /\ Names(d, n, j) = IF j = i THEN 1 ELSE 0
          /\ Pends(p, j)' = IF j = i THEN 1 ELSE 0
      BY <1>2, <3>2, <3>5 DEF Names, NamesSub, Pends
    <3>8. NamesSub(d, n, j) = IF j = d /\ IsDir(i) THEN 1 ELSE 0
      BY <1>2, <3>5 DEF NamesSub
    <3>9. CASE j = d /\ IsDir(i)
      <4>1. NamesSub(d, n, j) = 1 /\ dinode'[j].nlink = dinode[j].nlink - 1
        BY <1>4, <3>8, <3>9
      <4> QED
        BY <2>1, <3>3, <3>6, <3>7, <4>1
    <3>10. CASE ~(j = d /\ IsDir(i))
      <4>1. NamesSub(d, n, j) = 0 /\ dinode'[j].nlink = dinode[j].nlink
        BY <1>4, <3>8, <3>10
      <4> QED
        BY <2>1, <3>3, <3>6, <3>7, <4>1
    <3> QED
      BY <3>9, <3>10
  <2>3. n # "." /\ "." \in Elem /\ \A m \in Name : m \in Elem
    BY <1>i, InodeAssumption DEF Elem
  <2>4. (~IsDir(j) \/ dinode[j].type = "free") => j # d
    BY <1>2 DEF IsDir
  <2> QED
    BY <1>4, <1>7, <1>8, <2>1, <2>2, <2>3, <2>4, <1>t
<1>10. Frame(p)
  <2>1. Points(p, d) /\ Usable(d) /\ lock[d] = p
    BY <1>i, <1>a, <1>2 DEF Points
  <2> QED
    BY <1>0, <1>t, <1>4, <1>5, <1>7, <2>1 DEF Frame
<1>11. Live(p)'
  <2>1. cwd[p] \in Inum /\ file[p] \in Inum \cup {Null} /\ Usable(cwd[p]) /\ (file[p] # Null => Usable(file[p]))
    BY <1>1 DEF ProcTyped, Live
  <2>2. Usable(d)' /\ Usable(i)'
    BY <1>2, <1>8
  <2> QED
    BY <1>5, <1>8, <2>1, <2>2 DEF Live
<1>12. Alone(p)' /\ Seen(p)'
  BY <1>5 DEF Alone, Seen
<1> QED
  BY <1>p, <1>0, <1>6, <1>9, <1>10, <1>11, <1>12, StepLInv DEF Panics

\* sys_unlink(): the inode has a link, since it has a name, and is not freed
\* under the lock of its directory: no panic.
LEMMA UnlinkIpLInv ==
  ASSUME IInv, IInv', LInv, NEW p \in Proc, UnlinkIp(p)
  PROVE  LInv'
<1> DEFINE isdir == Loaded(ip[p]).type = "dir"
           x == [inode[dp[p]] EXCEPT !.nlink = IF isdir THEN @ - 1 ELSE @]
<1>1. /\ At(p, "unlink_ip") /\ UNCHANGED <<ref, owned, args, phase>>
      /\ panicked' = IF LockPanic(ip[p]) = "no" /\ Loaded(ip[p]).nlink < 1
                     THEN "unlink: nlink < 1" ELSE LockPanic(ip[p])
  BY DEF UnlinkIp
<1>2. \/ /\ Put(p, <<ip[p]>>) /\ ip' = [ip EXCEPT ![p] = Null] /\ Goto(p, "unlink_bad")
         /\ UNCHANGED <<disk, lock, dp>>
      \/ /\ entries' = [entries EXCEPT ![dp[p]][args[p].name] = Null]
         /\ dinode' = [dinode EXCEPT ![dp[p]] = x]
         /\ Put(p, <<dp[p]>>) /\ dp' = [dp EXCEPT ![p] = Null] /\ Goto(p, "unlinked") /\ UNCHANGED ip
  BY DEF UnlinkIp
<1>3. pc[p] = "unlink_ip" /\ panicked = "no"
  BY <1>1 DEF At
<1>4. Typed /\ TreeInv /\ Place(p) /\ Live(p) /\ Seen(p)
  BY <1>3 DEF IInv, LInv
<1>5. dp[p] \in Inum /\ ip[p] \in Inum /\ args[p].name \in Name /\ IsDir(dp[p])
      /\ entries[dp[p]][args[p].name] = ip[p]
  BY <1>3, <1>4, NullInum DEF Place, DpPC, IpPC, Typed, ProcTyped, Seen
<1>6. dinode[ip[p]].nlink > 0 /\ dinode[ip[p]].nlink \in Nat
  BY <1>4, <1>5, NamedLinked, LinksNat
<1>7. LockPanic(ip[p]) = "no" /\ Loaded(ip[p]) = dinode[ip[p]]
  BY <1>3, <1>5, HeldNoPanic, LoadedIsDisk
<1>7a. ~(Loaded(ip[p]).nlink < 1)
  BY <1>6, <1>7
<1>8. panicked' = "no"
  BY <1>1, <1>7, <1>7a
<1>9. isdir <=> IsDir(ip[p])
  BY <1>7 DEF IsDir
<1>10. x = [inode[dp[p]] EXCEPT !.nlink = IF IsDir(ip[p]) THEN @ - 1 ELSE @]
  BY <1>9
<1> HIDE DEF x, isdir
<1>11. CASE /\ Put(p, <<ip[p]>>) /\ ip' = [ip EXCEPT ![p] = Null] /\ Goto(p, "unlink_bad")
            /\ UNCHANGED <<disk, lock, dp>>
  BY <1>1, <1>8, <1>11, UnlinkNotEmptyLInv DEF Panics
<1>12. CASE /\ entries' = [entries EXCEPT ![dp[p]][args[p].name] = Null]
            /\ dinode' = [dinode EXCEPT ![dp[p]] = x]
            /\ Put(p, <<dp[p]>>) /\ dp' = [dp EXCEPT ![p] = Null] /\ Goto(p, "unlinked") /\ UNCHANGED ip
  BY <1>1, <1>8, <1>10, <1>12, UnlinkEntryLInv
<1> QED
  BY <1>2, <1>11, <1>12

\* create() enters the new inode: its first link, and that of its "..".
LEMMA CreateNewLInv ==
  ASSUME IInv, IInv', LInv, NEW p \in Proc, CreateNew(p)
  PROVE  LInv'
<1>p. pc[p] = "create_new" /\ puts[p] = <<>> /\ panicked = "no"
  BY DEF CreateNew, At
<1>1. /\ FsTyped /\ ProcTyped /\ Place(p) /\ Freeing(p) /\ TreeInv /\ Typed
      /\ Live(p) /\ Alone(p) /\ Seen(p) /\ CacheInv
  BY <1>p DEF IInv, LInv, Typed
<1>q. /\ dp[p] \in Inum /\ ip[p] \in Inum /\ args[p].name \in Name /\ IsDir(dp[p]) /\ Usable(dp[p])
      /\ entries[dp[p]][args[p].name] = Null
  <2>1. entries[dp[p]][args[p].name] = Null
    BY <1>p, <1>1 DEF Seen
  <2> QED
    BY <1>p, <1>1, <2>1, NewName, NullInum DEF Place, IpPC, ProcTyped
<1>i. PICK d \in Inum, i \in Inum, n \in Name : d = dp[p] /\ i = ip[p] /\ n = args[p].name
  BY <1>q
<1>a. /\ inode[d] = dinode[d] /\ lock[d] = p /\ Loaded(i) = dinode[i] /\ LockPanic(i) = "no"
      /\ dinode[d] \in Dinode /\ dinode[i] \in Dinode /\ dinode \in [Inum -> Dinode]
  <2>1. LockPanic(i) = "no"
    BY <1>p, <1>i, HeldNoPanic
  <2> QED
    BY <1>p, <1>1, <1>i, <2>1, LoadedIsDisk DEF Place, CacheInv, DpLocked, FsTyped
<1>2. /\ IsDir(d) /\ Usable(d) /\ phase[p] = "lock" /\ d # Null /\ i # Null /\ Mine(p, i) /\ Fresh(i)
      /\ args[p].call # "link2" /\ (IsDir(i) <=> args[p].call = "mkdir")
      /\ dinode[i].type # "free" /\ dinode[i].nlink = 0
      /\ \A q \in Proc : pc[q] = "create_new" /\ ip[q] = i => q = p
      /\ \A j \in Inum : p \notin Pending(j)
  <2>1. args[p].call # "link2" /\ phase[p] = "lock"
    BY <1>p, <1>1 DEF Place
  <2> QED
    BY <1>p, <1>1, <1>q, <1>i, <2>1, NullInum DEF Seen, Pending, Mine, Fresh, IsDir
<1>3. d # i
  BY <1>2 DEF Usable
<1>0. /\ entries[d][n] = Null
      /\ entries' = [entries EXCEPT ![d][n] = i,
                       ![i] = IF args[p].call = "mkdir" THEN [@ EXCEPT !["."] = i, ![".."] = d] ELSE @]
      /\ dinode' = [dinode EXCEPT ![i] = [dinode[i] EXCEPT !.nlink = 1],
                      ![d] = [dinode[d] EXCEPT !.nlink = IF args[p].call = "mkdir" THEN @ + 1 ELSE @]]
      /\ puts' = [puts EXCEPT ![p] = <<d>>] /\ dp' = [dp EXCEPT ![p] = Null]
      /\ ip' = ip /\ pc' = [pc EXCEPT ![p] = "created"]
      /\ args' = args /\ panicked' = "no"
      /\ ref' = ref /\ cwd' = cwd /\ file' = file /\ phase' = phase
  BY <1>i, <1>q, <1>a DEF CreateNew, Ilock, Put, Goto, owned
<1>4. /\ dinode[d].nlink \in Int
      /\ \A j \in Inum : j # d /\ j # i => dinode'[j] = dinode[j]
      /\ dinode'[d].type = dinode[d].type /\ dinode'[i].type = dinode[i].type
      /\ dinode'[i].nlink = 1
      /\ IsDir(i) => dinode'[d].nlink = dinode[d].nlink + 1
      /\ ~IsDir(i) => dinode'[d].nlink = dinode[d].nlink
  <2>1. CASE IsDir(i)
    <3>1. dinode' = [dinode EXCEPT ![i] = [dinode[i] EXCEPT !.nlink = 1],
                       ![d] = [dinode[d] EXCEPT !.nlink = dinode[d].nlink + 1]]
      BY <1>0, <1>2, <1>3, <2>1
    <3> QED
      BY <1>3, <1>a, <2>1, <3>1 DEF Dinode
  <2>2. CASE ~IsDir(i)
    <3>1. dinode' = [dinode EXCEPT ![i] = [dinode[i] EXCEPT !.nlink = 1],
                       ![d] = [dinode[d] EXCEPT !.nlink = dinode[d].nlink]]
      BY <1>0, <1>2, <1>3, <2>2
    <3> QED
      BY <1>3, <1>a, <2>2, <3>1 DEF Dinode
  <2> QED
    BY <2>1, <2>2
<1>5. /\ dp'[p] = Null /\ ip'[p] = i /\ cwd'[p] = cwd[p] /\ file'[p] = file[p]
      /\ puts'[p] = <<d>> /\ pc'[p] = "created" /\ phase'[p] = "lock" /\ args'[p].call # "link2"
  BY <1>0, <1>1, <1>2, <1>i DEF ProcTyped
<1>6. Others(p)
  BY <1>0, <1>1 DEF Others, ProcTyped
<1>7. /\ \A j \in Inum : \A m \in Name : j # d \/ m # n => entries'[j][m] = entries[j][m]
      /\ \A j \in Inum : j # d /\ j # i => entries'[j] = entries[j]
      /\ entries'[d][n] = i /\ entries'[d]["."] = entries[d]["."]
      /\ IsDir(i) => entries'[i]["."] = i
  <2>1. entries \in [Inum -> [Elem -> Inum \cup {Null}]] /\ n \in Elem /\ "." \in Elem /\ ".." \in Elem
    BY <1>1, <1>i DEF FsTyped, Elem
  <2>2. n # "." /\ \A m \in Name : m # "." /\ m # ".." /\ m \in Elem
    BY <1>i, InodeAssumption DEF Elem
  <2>3. CASE IsDir(i)
    <3>1. entries' = [entries EXCEPT ![d][n] = i, ![i] = [entries[i] EXCEPT !["."] = i, ![".."] = d]]
      BY <1>0, <1>2, <1>3, <2>1, <2>3
    <3>2. /\ entries'[d] = [entries[d] EXCEPT ![n] = i]
          /\ entries'[i] = [entries[i] EXCEPT !["."] = i, ![".."] = d]
          /\ \A j \in Inum : j # d /\ j # i => entries'[j] = entries[j]
      BY <1>3, <2>1, <3>1
    <3>3. entries[d] \in [Elem -> Inum \cup {Null}] /\ entries[i] \in [Elem -> Inum \cup {Null}]
      BY <2>1
    <3> QED
      BY <2>1, <2>2, <2>3, <3>2, <3>3
  <2>4. CASE ~IsDir(i)
    <3>1. entries' = [entries EXCEPT ![d][n] = i, ![i] = entries[i]]
      BY <1>0, <1>2, <1>3, <2>1, <2>4
    <3>2. /\ entries'[d] = [entries[d] EXCEPT ![n] = i]
          /\ \A j \in Inum : j # d => entries'[j] = entries[j]
      BY <1>3, <2>1, <3>1
    <3> QED
      BY <2>1, <2>2, <2>4, <3>2
  <2> QED
    BY <2>3, <2>4
<1>t. \A j \in Inum : dinode'[j].type = dinode[j].type
  BY <1>4
<1>8. /\ \A j \in Inum : j # i => (Fresh(j)' <=> Fresh(j)) /\ (Usable(j)' <=> Usable(j))
      /\ \A j \in Inum : IsDir(j)' <=> IsDir(j)
      /\ ~Fresh(i)' /\ Usable(i)'
  <2>1. \A j \in Inum : j # i => (Fresh(j)' <=> Fresh(j))
    BY <1>i, <1>p, <1>5, <1>6 DEF Fresh, Others
  <2>2. ~Fresh(i)'
    BY <1>2, <1>5, <1>6 DEF Fresh, Others
  <2> QED
    BY <1>t, <1>2, <2>1, <2>2 DEF Usable, IsDir
<1>9. TreeInv'
  <2> SUFFICES ASSUME NEW j \in Inum
               PROVE  /\ Counted(j)' <= dinode'[j].nlink
                      /\ dinode'[j].type = "free" => dinode'[j].nlink = 0
                      /\ ~IsDir(j)' => \A m \in Name : entries'[j][m] = Null
                      /\ IsDir(j)' /\ ~Fresh(j)' => entries'[j]["."] = j
    BY DEF TreeInv
  <2>1. /\ Counted(j) <= dinode[j].nlink
        /\ dinode[j].type = "free" => dinode[j].nlink = 0
        /\ ~IsDir(j) => \A m \in Name : entries[j][m] = Null
        /\ IsDir(j) /\ ~Fresh(j) => entries[j]["."] = j
    BY <1>1 DEF TreeInv
  <2>2. Counted(j)' <= dinode'[j].nlink
    <3>2. p \notin Pending(j)'
      BY <1>5 DEF Pending
    <3>3. Counted(j) \in Nat /\ Counted(j)' \in Nat /\ dinode[j].nlink \in Int
      BY <1>1, CountedNat, CountedNext DEF FsTyped, Dinode
    <3>4. /\ IsDir(d) /\ \A k \in Inum : dinode'[k].type = dinode[k].type
          /\ \A k \in Inum : \A m \in Name : k # d \/ m # n => entries'[k][m] = entries[k][m]
          /\ \A k \in Inum : \A m \in Name : entries[k][m] \in Inum \cup {Null}
      BY <1>t, <1>2, <1>7, NamesTyped
    <3>5. entries[d][n] = Null /\ entries'[d][n] = i /\ j # Null
      BY <1>0, <1>7, NullInum
    <3>6. ((Counted(j)' + Names(d, n, j)) + NamesSub(d, n, j)) + Pends(p, j)
          = ((Counted(j) + Names(d, n, j)') + NamesSub(d, n, j)') + Pends(p, j)'
      BY <1>6, <3>4, EntryCounted
    <3>7. /\ Names(d, n, j) = 0 /\ NamesSub(d, n, j) = 0 /\ Pends(p, j) = 0 /\ Pends(p, j)' = 0
          /\ Names(d, n, j)' = IF j = i THEN 1 ELSE 0
      BY <1>2, <3>2, <3>5 DEF Names, NamesSub, Pends
    <3>8. NamesSub(d, n, j)' = IF j = d /\ IsDir(i)' THEN 1 ELSE 0
      BY <1>2, <3>5 DEF NamesSub, IsDir
    <3>9. CASE j = i
      <4>1. NamesSub(d, n, j)' = 0 /\ Names(d, n, j)' = 1 /\ dinode'[j].nlink = 1 /\ dinode[j].nlink = 0
        BY <1>2, <1>3, <1>4, <3>7, <3>8, <3>9
      <4> QED
        BY <2>1, <3>3, <3>6, <3>7, <4>1
    <3>10. CASE j = d /\ IsDir(i)
      <4>1. NamesSub(d, n, j)' = 1 /\ Names(d, n, j)' = 0 /\ dinode'[j].nlink = dinode[j].nlink + 1
        BY <1>3, <1>4, <1>8, <3>7, <3>8, <3>10
      <4> QED
        BY <2>1, <3>3, <3>6, <3>7, <4>1
    <3>11. CASE j # i /\ ~(j = d /\ IsDir(i))
      <4>1. NamesSub(d, n, j)' = 0 /\ Names(d, n, j)' = 0 /\ dinode'[j].nlink = dinode[j].nlink
        BY <1>4, <1>8, <3>7, <3>8, <3>11
      <4> QED
        BY <2>1, <3>3, <3>6, <3>7, <4>1
    <3> QED
      BY <3>9, <3>10, <3>11
  <2>3. dinode'[j].type = "free" => dinode'[j].nlink = 0
    BY <1>t, <1>2, <1>4, <2>1 DEF Usable
  <2>4. ~IsDir(j)' => \A m \in Name : entries'[j][m] = Null
    BY <1>2, <1>7, <1>8, <2>1
  <2>5. IsDir(j)' /\ ~Fresh(j)' => entries'[j]["."] = j
    BY <1>2, <1>7, <1>8, <2>1
  <2> QED
    BY <2>2, <2>3, <2>4, <2>5
<1>10. Frame(p)
  <2>1. Points(p, d) /\ Usable(d) /\ lock[d] = p /\ Mine(p, i) /\ Points(p, i)
    BY <1>i, <1>a, <1>2 DEF Points
  <2> QED
    BY <1>0, <1>t, <1>4, <1>5, <1>7, <2>1 DEF Frame
<1>11. Live(p)'
  <2>1. cwd[p] \in Inum /\ file[p] \in Inum \cup {Null} /\ Usable(cwd[p]) /\ (file[p] # Null => Usable(file[p]))
    BY <1>1 DEF ProcTyped, Live
  <2>2. Usable(d)' /\ Usable(i)'
    BY <1>2, <1>3, <1>8
  <2>3. cwd[p] # i /\ (file[p] # Null => file[p] # i)
    BY <1>2, <2>1 DEF Usable
  <2> QED
    BY <1>5, <1>8, <2>1, <2>2, <2>3 DEF Live
<1>12. Alone(p)' /\ Seen(p)'
  BY <1>5 DEF Alone, Seen
<1> QED
  BY <1>p, <1>0, <1>6, <1>9, <1>10, <1>11, <1>12, StepLInv DEF Panics

\* ialloc() takes an inode that has no links and is in no directory.
LEMMA IallocNewLInv ==
  ASSUME IInv, IInv', LInv, NEW p \in Proc, At(p, "parent"), args[p].call \in {"creat", "mkdir"},
         Dirlookup(dp[p], args[p].name) = Null, NEW f \in Inum, dinode[f].type = "free",
         dinode' = [dinode EXCEPT ![f] = [type |-> IF args[p].call = "mkdir" THEN "dir" ELSE "file",
                                          nlink |-> 0]],
         Iget(f, {dp[p]}), ip' = [ip EXCEPT ![p] = f],
         Goto(p, "create_new"), UNCHANGED <<entries, owned, args, dp, puts, phase>>
  PROVE  LInv'
<1>p. /\ pc[p] = "parent" /\ puts[p] = <<>> /\ panicked = "no" /\ args[p].call \in {"creat", "mkdir"}
      /\ entries[dp[p]][args[p].name] = Null /\ dinode[f].type = "free"
  BY DEF At, Dirlookup
<1>1. /\ FsTyped /\ ProcTyped /\ Place(p) /\ Freeing(p) /\ TreeInv /\ Typed
      /\ Live(p) /\ Alone(p) /\ Seen(p)
  BY <1>p DEF IInv, LInv, Typed
<1>q. dp[p] \in Inum /\ IsDir(dp[p]) /\ Usable(dp[p]) /\ args[p].name # ".."
  BY <1>p, <1>1, NewName DEF Seen
<1>i. PICK d \in Inum : d = dp[p]
  BY <1>q
<1>0. /\ dinode' = [dinode EXCEPT ![f] = [type |-> IF args[p].call = "mkdir" THEN "dir" ELSE "file",
                                          nlink |-> 0]]
      /\ ip' = [ip EXCEPT ![p] = f] /\ pc' = [pc EXCEPT ![p] = "create_new"] /\ entries' = entries
      /\ cwd' = cwd /\ file' = file /\ args' = args /\ dp' = dp /\ puts' = puts /\ phase' = phase
  BY DEF Goto, owned
<1>2. /\ phase[p] = "lock" /\ args[p].call # "link2" /\ d # f /\ \A j \in Inum : p \notin Pending(j)
  BY <1>p, <1>1, <1>q, <1>i DEF Place, Pending, Usable
<1>3. panicked' \in Panics
  <2>1. \A j \in {dp[p]} : LockPanic(j) = "no"
    BY <1>p, <1>q, HeldNoPanic
  <2> QED
    BY <2>1, IgetPanics
<1>4. /\ \A j \in Inum : j # f => dinode'[j] = dinode[j]
      /\ dinode'[f].type = IF args[p].call = "mkdir" THEN "dir" ELSE "file"
      /\ dinode'[f].type # "free" /\ dinode'[f].nlink = 0
  BY <1>0, <1>1 DEF FsTyped
<1>5. /\ dp'[p] = dp[p] /\ ip'[p] = f /\ cwd'[p] = cwd[p] /\ file'[p] = file[p]
      /\ puts'[p] = <<>> /\ pc'[p] = "create_new" /\ phase'[p] = "lock" /\ args'[p] = args[p]
  BY <1>p, <1>0, <1>1, <1>2 DEF ProcTyped
<1>6. Others(p)
  BY <1>0, <1>1 DEF Others, ProcTyped
<1>7. \A j \in Inum : j # f => ref'[j] = ref[j]
  <2>1. \A j \in Inum : ref'[j] = ref[j] + One(j = f) /\ ref[j] \in Nat
    BY <1>1, <1>q, IgetFacts DEF FsTyped
  <2> QED
    BY <2>1 DEF One
<1>8. /\ dinode[f].nlink = 0 /\ Entries(f) = {} /\ f # Root
      /\ \A m \in Name : entries[f][m] = Null
  <2>1. dinode[f].nlink = 0 /\ ~IsDir(f)
    BY <1>p, <1>1 DEF TreeInv, IsDir
  <2> QED
    BY <1>1, <2>1, Unlinked0 DEF TreeInv
<1>9. /\ \A j \in Inum : j # f => (Fresh(j)' <=> Fresh(j)) /\ (Usable(j)' <=> Usable(j)) /\ (IsDir(j)' <=> IsDir(j))
      /\ Fresh(f)' /\ ~Usable(f)
  <2>1. \A j \in Inum : j # f => (Fresh(j)' <=> Fresh(j))
    BY <1>p, <1>5, <1>6 DEF Fresh, Others
  <2>2. Fresh(f)'
    BY <1>5 DEF Fresh
  <2> QED
    BY <1>p, <1>4, <2>1, <2>2 DEF Usable, IsDir
<1>10. TreeInv'
  <2> SUFFICES ASSUME NEW j \in Inum
               PROVE  /\ Counted(j)' <= dinode'[j].nlink
                      /\ dinode'[j].type = "free" => dinode'[j].nlink = 0
                      /\ ~IsDir(j)' => \A m \in Name : entries'[j][m] = Null
                      /\ IsDir(j)' /\ ~Fresh(j)' => entries'[j]["."] = j
    BY DEF TreeInv
  <2>1. /\ Counted(j) <= dinode[j].nlink
        /\ dinode[j].type = "free" => dinode[j].nlink = 0
        /\ ~IsDir(j) => \A m \in Name : entries[j][m] = Null
        /\ IsDir(j) /\ ~Fresh(j) => entries[j]["."] = j
    BY <1>1 DEF TreeInv
  <2>2. Entries(j)' = Entries(j)
    <3>1. ASSUME NEW k \in Inum, NEW m \in Name
          PROVE  (dinode'[k].type = "dir" /\ entries'[k][m] = j) <=> (dinode[k].type = "dir" /\ entries[k][m] = j)
      BY <1>p, <1>0, <1>4, <1>8, NullInum
    <3> QED
      BY <3>1 DEF Entries
  <2>3. Subs(j)' = Subs(j)
    <3>1. ASSUME NEW m \in Name
          PROVE  (IsDir(j)' /\ entries'[j][m] # Null /\ IsDir(entries[j][m])')
                 <=> (IsDir(j) /\ entries[j][m] # Null /\ IsDir(entries[j][m]))
      <4>1. entries[j][m] \in Inum \cup {Null} /\ entries'[j][m] = entries[j][m]
        BY <1>0, NamesTyped
      <4>2. CASE j = f
        BY <1>8, <4>1, <4>2
      <4>3. CASE j # f /\ entries[j][m] # f
        <5>1. \A k \in Inum : k # f => (dinode'[k].type = "dir" <=> dinode[k].type = "dir")
          BY <1>4
        <5> QED
          BY <4>1, <4>3, <5>1 DEF IsDir
      <4>4. CASE j # f /\ entries[j][m] = f
        <5>1. ~IsDir(j)
          BY <1>1, <1>8, <4>4, NamedLinked
        <5> QED
          BY <1>9, <4>4, <5>1
      <4> QED
        BY <4>2, <4>3, <4>4
    <3> QED
      BY <3>1 DEF Subs
  <2>4. Cardinality(Pending(j)') <= Cardinality(Pending(j))
    <3>1. p \notin Pending(j)'
      BY <1>2, <1>5 DEF Pending
    <3> QED
      BY <1>6, <3>1, PendingFalls
  <2>5. Counted(j)' <= Counted(j)
    BY <2>2, <2>3, <2>4, CountedNat, CountedNext DEF Counted
  <2>6. dinode[j].nlink \in Int /\ Counted(j) \in Nat /\ Counted(j)' \in Nat
    BY <1>1, CountedNat, CountedNext DEF FsTyped, Dinode
  <2>7. dinode'[j].nlink = dinode[j].nlink
    BY <1>4, <1>8
  <2>8. Counted(j)' <= dinode'[j].nlink
    BY <2>1, <2>5, <2>6, <2>7
  <2>9. dinode'[j].type = "free" => dinode'[j].nlink = 0
    BY <1>4, <2>1
  <2>10. ~IsDir(j)' => \A m \in Name : entries'[j][m] = Null
    BY <1>0, <1>8, <1>9, <2>1
  <2> QED
    BY <1>0, <1>9, <2>1, <2>8, <2>9, <2>10
<1>11. Frame(p)
  BY <1>p, <1>0, <1>4, <1>5, <1>7 DEF Frame
<1>12. Live(p)'
  <2>1. cwd[p] \in Inum /\ file[p] \in Inum \cup {Null} /\ Usable(cwd[p]) /\ (file[p] # Null => Usable(file[p]))
    BY <1>1 DEF ProcTyped, Live
  <2>2. \A j \in Inum : Usable(j) => Usable(j)'
    BY <1>9
  <2> QED
    BY <1>5, <1>q, <2>1, <2>2 DEF Live
<1>13. Alone(p)' /\ Seen(p)'
  <2>1. ASSUME NEW q \in Proc, pc'[q] = "create_new", ip'[q] = f PROVE q = p
    <3> SUFFICES ASSUME q # p PROVE FALSE
      OBVIOUS
    <3>1. pc[q] = "create_new" /\ ip[q] = f
      BY <1>6, <2>1 DEF Others
    <3>2. Seen(q)
      BY <1>p DEF LInv
    <3> QED
      BY <1>p, <3>1, <3>2 DEF Seen
  <2>2. IsDir(dp[p])'
    BY <1>5, <1>9, <1>i, <1>2, <1>q
  <2> QED
    BY <1>p, <1>q, <1>0, <1>2, <1>4, <1>5, <2>1, <2>2 DEF Alone, Seen
<1> QED
  BY <1>p, <1>3, <1>6, <1>10, <1>11, <1>12, <1>13, StepLInv

\* create(): ialloc() and iget() of the new inode, with the directory locked.
LEMMA IallocLInv ==
  ASSUME IInv, IInv', LInv, NEW p \in Proc, Ialloc(p)
  PROVE  LInv'
<1> DEFINE free == {i \in Inum : dinode[i].type = "free"}
           f == CHOOSE j \in free : \A k \in free : j <= k
<1>1. /\ At(p, "parent") /\ args[p].call \in {"creat", "mkdir"}
      /\ Dirlookup(dp[p], args[p].name) = Null
      /\ Goto(p, "create_new") /\ UNCHANGED <<entries, owned, args, dp, puts, phase>>
  BY DEF Ialloc
<1>2. CASE free = {}
  <2>1. panicked' = "ialloc: no inodes" /\ UNCHANGED <<dinode, ref, valid, ip>>
    BY <1>2 DEF Ialloc
  <2>2. UNCHANGED <<dinode, ref, ip, entries, owned, args, dp, puts, phase>>
    BY <1>1, <2>1
  <2> QED
    BY <1>1, <2>1, <2>2, IallocFullLInv
<1>3. CASE free # {}
  <2>1. f \in free
    BY <1>3, FirstInum
  <2>2. /\ dinode' = [dinode EXCEPT ![f] = [type |-> IF args[p].call = "mkdir" THEN "dir" ELSE "file",
                                            nlink |-> 0]]
        /\ Iget(f, {dp[p]}) /\ ip' = [ip EXCEPT ![p] = f]
    BY <1>3 DEF Ialloc
  <2>3. f \in Inum /\ dinode[f].type = "free"
    BY <2>1
  <2> HIDE DEF f
  <2> QED
    BY <1>1, <2>2, <2>3, IallocNewLInv
<1> QED
  BY <1>2, <1>3

\* iput() frees an inode that has no links and to which nobody else points.
LEMMA IputFreeLInv ==
  ASSUME IInv, IInv', LInv, NEW p \in Proc, IputFree(p)
  PROVE  LInv'
<1>p. puts[p] # <<>> /\ phase[p] = "free" /\ panicked = "no"
  BY DEF IputFree
<1>1. /\ FsTyped /\ ProcTyped /\ Place(p) /\ Freeing(p) /\ TreeInv /\ Typed
      /\ Live(p) /\ Alone(p) /\ Seen(p)
  BY <1>p DEF IInv, LInv, Typed
<1>i. PICK h \in Inum : h = Head(puts[p])
  BY <1>p, FreesAlone
<1>2. /\ puts[p][1] = h /\ Len(puts[p]) >= 1
      /\ Usable(h) /\ dinode[h].nlink = 0 /\ lock[h] = p
      /\ \A q \in Proc : q # p => ~Points(q, h)
      /\ cwd[p] # h /\ file[p] # h /\ dp[p] # h
      /\ ip[p] # h /\ (Len(puts[p]) >= 2 => puts[p][2] # h)
  BY <1>p, <1>1, <1>i, FreesAlone DEF Freeing
<1>0. /\ entries' = [entries EXCEPT ![h] = NoEntries] /\ dinode' = [dinode EXCEPT ![h] = FreeInode]
      /\ phase' = [phase EXCEPT ![p] = "unref"]
      /\ ref' = ref /\ cwd' = cwd /\ file' = file /\ pc' = pc /\ args' = args /\ dp' = dp
      /\ ip' = ip /\ puts' = puts /\ panicked' = panicked
  BY <1>i DEF IputFree, owned
<1>3. /\ \A j \in Inum : j # h => dinode'[j] = dinode[j] /\ entries'[j] = entries[j]
      /\ dinode'[h].type = "free" /\ dinode'[h].nlink = 0
      /\ \A m \in Elem : entries'[h][m] = Null
  BY <1>0, <1>1 DEF FsTyped, FreeInode, NoEntries
<1>4. phase'[p] = "unref"
  BY <1>0, <1>1 DEF ProcTyped
<1>5. Others(p)
  BY <1>0, <1>1 DEF Others, ProcTyped
<1>6. \A j \in Inum : /\ Fresh(j)' <=> Fresh(j)
                      /\ j # h => (Usable(j)' <=> Usable(j)) /\ (IsDir(j)' <=> IsDir(j))
                      /\ IsDir(j)' => j # h /\ IsDir(j)
  BY <1>0, <1>3 DEF Fresh, Usable, IsDir
<1>7. TreeInv'
  <2> SUFFICES ASSUME NEW j \in Inum
               PROVE  /\ Counted(j)' <= dinode'[j].nlink
                      /\ dinode'[j].type = "free" => dinode'[j].nlink = 0
                      /\ ~IsDir(j)' => \A m \in Name : entries'[j][m] = Null
                      /\ IsDir(j)' /\ ~Fresh(j)' => entries'[j]["."] = j
    BY DEF TreeInv
  <2>1. /\ Counted(j) <= dinode[j].nlink
        /\ dinode[j].type = "free" => dinode[j].nlink = 0
        /\ ~IsDir(j) => \A m \in Name : entries[j][m] = Null
        /\ IsDir(j) /\ ~Fresh(j) => entries[j]["."] = j
    BY <1>1 DEF TreeInv
  <2>2. Entries(j)' \subseteq Entries(j)
    <3>1. ASSUME NEW k \in Inum, NEW m \in Name, dinode'[k].type = "dir" /\ entries'[k][m] = j
          PROVE  dinode[k].type = "dir" /\ entries[k][m] = j
      BY <1>3, <3>1
    <3> QED
      BY <3>1 DEF Entries
  <2>3. Subs(j)' \subseteq Subs(j)
    <3>1. ASSUME NEW m \in Name, IsDir(j)' /\ entries'[j][m] # Null /\ IsDir(entries[j][m])'
          PROVE  IsDir(j) /\ entries[j][m] # Null /\ IsDir(entries[j][m])
      <4>1. j # h /\ IsDir(j) /\ entries'[j][m] = entries[j][m]
        BY <1>3, <1>6, <3>1
      <4>2. entries[j][m] \in Inum
        BY <3>1, <4>1, NamesTyped
      <4>3. dinode'[entries[j][m]].type = "dir"
        BY <3>1, <4>1 DEF IsDir
      <4> QED
        BY <1>3, <3>1, <4>1, <4>2, <4>3 DEF IsDir
    <3> QED
      BY <3>1 DEF Subs
  <2>4. Pending(j)' = Pending(j)
    BY <1>0 DEF Pending
  <2>5. /\ Cardinality(Entries(j)') <= Cardinality(Entries(j))
        /\ Cardinality(Subs(j)') <= Cardinality(Subs(j))
    <3>1. IsFiniteSet(Entries(j)) /\ IsFiniteSet(Subs(j))
      BY CountedNat
    <3> HIDE DEF Entries, Subs
    <3> QED
      BY <2>2, <2>3, <3>1, FS_Subset
  <2>6. Counted(j)' <= Counted(j)
    BY <2>4, <2>5, CountedNat, CountedNext DEF Counted
  <2>7. dinode[j].nlink \in Int /\ Counted(j) \in Nat /\ Counted(j)' \in Nat
    BY <1>1, CountedNat, CountedNext DEF FsTyped, Dinode
  <2>8. dinode'[j].nlink = dinode[j].nlink
    BY <1>2, <1>3
  <2>9. Counted(j)' <= dinode'[j].nlink
    BY <2>1, <2>6, <2>7, <2>8
  <2>10. dinode'[j].type = "free" => dinode'[j].nlink = 0
    BY <1>3, <2>1
  <2>11. ~IsDir(j)' => \A m \in Name : entries'[j][m] = Null
    BY <1>3, <1>6, <2>1 DEF Elem
  <2>12. IsDir(j)' /\ ~Fresh(j)' => entries'[j]["."] = j
    BY <1>3, <1>6, <2>1
  <2> QED
    BY <2>9, <2>10, <2>11, <2>12
<1>8. Frame(p)
  <2>1. pc'[p] = "create_new" => Mine(p, ip'[p])
    BY <1>0 DEF Mine
  <2> QED
    BY <1>0, <1>2, <1>3, <2>1 DEF Frame
<1>9. Live(p)'
  <2>1. /\ cwd[p] \in Inum /\ file[p] \in Inum \cup {Null} /\ dp[p] \in Inum \cup {Null}
        /\ ip[p] \in Inum \cup {Null} /\ puts[p] \in Seq(Inum) /\ Len(puts[p]) <= 2
    BY <1>1 DEF ProcTyped
  <2>2. \A j \in Inum : j # h /\ Usable(j) => Usable(j)'
    BY <1>6
  <2>3. ASSUME NEW k \in 1..Len(puts'[p]), k > 1 PROVE Usable(puts[p][k])'
    <3>1. k = 2 /\ Len(puts[p]) >= 2 /\ puts[p][k] \in Inum /\ puts'[p][k] = puts[p][k]
      BY <1>0, <2>1, <2>3
    <3>2. Usable(puts[p][k]) /\ puts[p][k] # h
      BY <1>1, <1>2, <2>1, <3>1 DEF Live
    <3> QED
      BY <1>0, <2>2, <3>1, <3>2
  <2> QED
    BY <1>0, <1>1, <1>2, <1>4, <2>1, <2>2, <2>3 DEF Live
<1>10. Alone(p)'
  BY <1>4 DEF Alone
<1>11. Seen(p)'
  <2>1. dp[p] \in Inum \cup {Null} /\ ip[p] \in Inum \cup {Null}
    BY <1>1 DEF ProcTyped
  <2>2. dp[p] # Null => IsDir(dp[p])' = IsDir(dp[p]) /\ entries'[dp[p]] = entries[dp[p]]
    BY <1>0, <1>2, <1>3, <2>1 DEF IsDir
  <2>3. ip[p] # Null => IsDir(ip[p])' = IsDir(ip[p]) /\ dinode'[ip[p]] = dinode[ip[p]]
    BY <1>0, <1>2, <1>3, <2>1 DEF IsDir
  <2>4. /\ pc[p] \in {"parent", "create_new", "unlink_ip"} => dp[p] # Null
        /\ pc[p] = "create_new" \/ args[p].call = "link2" => ip[p] # Null
    BY <1>1 DEF Place, DpPC, IpPC
  <2>5. Plain(args[p].path)' = Plain(args[p].path) /\ Plain(args[p].new)' = Plain(args[p].new)
    BY <1>0 DEF Plain
  <2> QED
    BY <1>0, <1>1, <2>2, <2>3, <2>4, <2>5 DEF Seen
<1> QED
  BY <1>p, <1>0, <1>5, <1>7, <1>8, <1>9, <1>10, <1>11, StepLInv DEF Panics

-----------------------------------------------------------------------------
(***************************************************************************)
(* The invariant of the links                                              *)
(***************************************************************************)
\* The paths of the programs do not go up.
NoDotDot ==
  /\ \A s \in AbsPaths \cup RelPaths : Plain(s)
  /\ \A s \in LinkPaths : Plain(s[1]) /\ Plain(s[2])

\* mkfs makes a root directory with one link and no names.
LEMMA InitLInv == Init => LInv
<1> SUFFICES ASSUME Init PROVE LInv
  OBVIOUS
<1>1. ASSUME NEW i \in Inum
      PROVE  /\ Counted(i) <= dinode[i].nlink
             /\ dinode[i].type = "free" => dinode[i].nlink = 0
             /\ ~IsDir(i) => \A n \in Name : entries[i][n] = Null
             /\ IsDir(i) /\ ~Fresh(i) => entries[i]["."] = i
  <2>1. \A j \in Inum : j # Root => dinode[j] = FreeInode /\ entries[j] = NoEntries
    BY DEF Init
  <2>2. /\ dinode[Root] = [type |-> "dir", nlink |-> 1]
        /\ entries[Root] = [NoEntries EXCEPT !["."] = Root, ![".."] = Root]
    BY NullInum DEF Init
  <2>3. \A j \in Inum : \A n \in Name : entries[j][n] = Null
    <3>1. \A n \in Name : n # "." /\ n # ".." /\ n \in Elem
      BY InodeAssumption DEF Elem
    <3> QED
      BY <2>1, <2>2, <3>1 DEF NoEntries
  <2>4. entries[Root]["."] = Root
    <3>1. "." \in Elem
      BY DEF Elem
    <3> QED
      BY <2>2, <3>1 DEF NoEntries
  <2>5. Entries(i) = {} /\ Subs(i) = {} /\ Pending(i) = {}
    BY <2>3, NullInum DEF Entries, Subs, Pending, Init
  <2>6. Counted(i) = IF i = Root THEN 1 ELSE 0
    <3>1. Cardinality({}) = 0
      BY FS_EmptySet
    <3> QED
      BY <2>5, <3>1 DEF Counted
  <2>7. dinode[i].nlink = (IF i = Root THEN 1 ELSE 0) /\ (dinode[i].type = "dir" => i = Root)
    BY <2>1, <2>2 DEF FreeInode
  <2>8. dinode[i].type = "free" => i # Root
    BY <2>2
  <2> QED
    BY <2>3, <2>4, <2>6, <2>7, <2>8 DEF IsDir
<1>2. ASSUME NEW p \in Proc PROVE Live(p)
  <2>1. dinode[Root].type = "dir"
    BY NullInum DEF Init
  <2>2. Usable(Root)
    BY <2>1 DEF Usable, Fresh, Init
  <2>3. cwd[p] = Root /\ file[p] = Null /\ dp[p] = Null /\ ip[p] = Null /\ puts[p] = <<>>
    BY DEF Init
  <2> QED
    BY <2>2, <2>3 DEF Live
<1>3. ASSUME NEW p \in Proc PROVE Alone(p) /\ Seen(p)
  <2>1. pc[p] = "idle" /\ phase[p] = "lock" /\ args[p].call = "none"
    BY DEF Init, NoArgs
  <2> QED
    BY <2>1 DEF Alone, Seen
<1>4. panicked = "no"
  BY DEF Init
<1> QED
  BY <1>1, <1>2, <1>3, <1>4 DEF LInv, TreeInv

\* A step that changes nothing.
LEMMA SameLInv == LInv /\ UNCHANGED vars => LInv'
<1> SUFFICES ASSUME LInv, UNCHANGED vars PROVE LInv'
  OBVIOUS
<1>1. /\ dinode' = dinode /\ entries' = entries /\ ref' = ref /\ cwd' = cwd /\ file' = file
      /\ pc' = pc /\ args' = args /\ dp' = dp /\ ip' = ip /\ puts' = puts /\ phase' = phase
      /\ panicked' = panicked
  BY DEF vars, disk, icache, owned
<1>3. TreeInv'
  BY <1>1 DEF LInv, TreeInv, Counted, Entries, Subs, Pending, IsDir, Fresh
<1>4. ASSUME NEW p \in Proc PROVE Live(p)'
  <2>1. Live(p)
    BY DEF LInv
  <2>2. /\ Usable(cwd[p])' = Usable(cwd[p]) /\ Usable(file[p])' = Usable(file[p])
        /\ Usable(dp[p])' = Usable(dp[p]) /\ Usable(ip[p])' = Usable(ip[p])
        /\ \A k \in 1..Len(puts[p]) : Usable(puts[p][k])' = Usable(puts[p][k])
    BY <1>1 DEF Usable, Fresh
  <2> QED
    BY <1>1, <2>1, <2>2 DEF Live
<1>2. panicked' = "no" => \A p \in Proc : Alone(p)' /\ Seen(p)'
  BY <1>1 DEF LInv, Alone, Seen, IsDir, Plain
<1> QED
  BY <1>1, <1>2, <1>3, <1>4 DEF LInv

\* Every step of the system calls preserves the invariant.
LEMMA NextLInv == NoDotDot /\ IInv /\ IInv' /\ LInv /\ [Next]_vars => LInv'
<1> SUFFICES ASSUME NoDotDot, IInv, IInv', LInv, [Next]_vars PROVE LInv'
  OBVIOUS
<1>e. Plain(<<>>)
  BY DEF Plain
<1>1. ASSUME NEW p \in Proc, NEW what \in Calls, NEW s \in AbsPaths, Begin(p, what, s, <<>>, Root)
      PROVE  LInv'
  <2>1. /\ s \in Seq(Elem) /\ <<>> \in Seq(Elem) /\ Plain(s) /\ Root \in Inum
        /\ what \in {"open", "creat", "mkdir", "unlink", "chdir", "link"}
    BY Paths, NullInum DEF NoDotDot
  <2> QED
    BY <1>1, <1>e, <2>1, BeginLInv
<1>2. ASSUME NEW p \in Proc, NEW what \in Calls, NEW s \in RelPaths, Begin(p, what, s, <<>>, cwd[p])
      PROVE  LInv'
  <2>1. /\ s \in Seq(Elem) /\ <<>> \in Seq(Elem) /\ Plain(s) /\ cwd[p] \in Inum
        /\ what \in {"open", "creat", "mkdir", "unlink", "chdir", "link"}
    BY Paths DEF NoDotDot, IInv, Typed, ProcTyped
  <2> QED
    BY <1>2, <1>e, <2>1, BeginLInv
<1>3. ASSUME NEW p \in Proc, NEW s \in LinkPaths, Begin(p, "link", s[1], s[2], Root)
      PROVE  LInv'
  <2>1. /\ s[1] \in Seq(Elem) /\ s[2] \in Seq(Elem) /\ Plain(s[1]) /\ Plain(s[2]) /\ Root \in Inum
        /\ "link" \in {"open", "creat", "mkdir", "unlink", "chdir", "link"}
    BY Paths, NullInum DEF NoDotDot
  <2> QED
    BY <1>3, <2>1, BeginLInv
<1>4. ASSUME NEW p \in Proc, IputLock(p) \/ IputFree(p) \/ IputUnref(p)
      PROVE  LInv'
  BY <1>4, IputLockLInv, IputFreeLInv, IputUnrefLInv
<1>5. ASSUME NEW p \in Proc, NamexEnds(p) \/ NamexStep(p)
      PROVE  LInv'
  BY <1>5, NamexEndsLInv, NamexStepLInv
<1>6. ASSUME NEW p \in Proc, Chdir(p) \/ UseFile(p) \/ CloseFile(p)
      PROVE  LInv'
  BY <1>6, ChdirLInv, UseFileLInv, CloseFileLInv
<1>7. ASSUME NEW p \in Proc, CreateFound(p) \/ Ialloc(p) \/ CreateNew(p)
      PROVE  LInv'
  BY <1>7, CreateFoundLInv, IallocLInv, CreateNewLInv
<1>8. ASSUME NEW p \in Proc, NEW ok \in BOOLEAN, Open(p, ok) \/ CreateExists(p, ok) \/ Created(p, ok)
      PROVE  LInv'
  BY <1>8, OpenLInv, CreateExistsLInv, CreatedLInv
<1>9. ASSUME NEW p \in Proc, UnlinkLookup(p) \/ UnlinkIp(p) \/ UnlinkBad(p) \/ Unlinked(p)
      PROVE  LInv'
  BY <1>9, UnlinkLookupLInv, UnlinkIpLInv, UnlinkBadLInv, UnlinkedLInv
<1>10. ASSUME NEW p \in Proc,
              LinkCount(p) \/ LinkDirectory(p) \/ LinkEntry(p) \/ LinkExists(p) \/ LinkBad(p)
       PROVE  LInv'
  BY <1>10, LinkCountLInv, LinkDirectoryLInv, LinkEntryLInv, LinkExistsLInv, LinkBadLInv
<1>11. ASSUME UNCHANGED vars PROVE LInv'
  BY <1>11, SameLInv
<1> QED
  BY <1>1, <1>2, <1>3, <1>4, <1>5, <1>6, <1>7, <1>8, <1>9, <1>10, <1>11 DEF Next, Halted

\* What the invariant says of the files in use.
LEMMA LInvInUse == IInv /\ LInv => NothingInUseIsFree
<1> SUFFICES ASSUME IInv, LInv PROVE NothingInUseIsFree
  OBVIOUS
<1>1. ASSUME NEW i \in Inum PROVE Cardinality(Entries(i)) <= dinode[i].nlink
  <2>1. Counted(i) <= dinode[i].nlink /\ dinode[i].nlink \in Int
    BY DEF LInv, TreeInv, IInv, Typed, FsTyped, Dinode
  <2>2. /\ Cardinality(Entries(i)) \in Nat /\ Cardinality(Subs(i)) \in Nat
        /\ Cardinality(Pending(i)) \in Nat /\ Counted(i) \in Nat
    BY CountedNat
  <2>3. Cardinality(Entries(i)) <= Counted(i)
    BY <2>2 DEF Counted
  <2> QED
    BY <2>1, <2>2, <2>3
<1>2. ASSUME NEW p \in Proc, NEW i \in {cwd[p], file[p]} \ {Null} PROVE dinode[i].type # "free"
  BY <1>2 DEF LInv, Live, Usable
<1>3. panicked \in {"no", "ialloc: no inodes", "iget: no inodes"}
  BY DEF LInv
<1> QED
  BY <1>1, <1>2, <1>3 DEF NothingInUseIsFree

(***************************************************************************)
(* Programs that use no path with "..": an inode has as many links as      *)
(* names and subdirectories, what is open or a current directory is        *)
(* allocated, and the panics of ilock() and sys_unlink() are not reached,  *)
(* for every number of processes, inodes and names (fs.c, sysfile.c).      *)
(***************************************************************************)
THEOREM NothingInUseIsFreeThm == NoDotDot /\ Spec => []NothingInUseIsFree
<1>1. NoDotDot /\ Spec => []LInv
  <2> SUFFICES ASSUME NoDotDot PROVE Spec => []LInv
    OBVIOUS
  <2>1. IInv /\ IInv' /\ LInv /\ [Next]_vars => LInv'
    BY NextLInv
  <2>2. Init => LInv
    BY InitLInv
  <2> QED
    BY <2>1, <2>2, InodeInvariant, PTL DEF Spec
<1>2. IInv /\ LInv => NothingInUseIsFree
  BY LInvInUse
<1> QED
  BY <1>1, <1>2, InodeInvariant, PTL
=============================================================================
