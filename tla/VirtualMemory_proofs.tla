------------------------ MODULE VirtualMemory_proofs ------------------------
(***************************************************************************)
(* Physical pages and address spaces for any number of pages, processes    *)
(* and page table entries.                                                 *)
(***************************************************************************)
EXTENDS VirtualMemory, FiniteSetTheorems, WellFoundedInduction, TLAPS

Tables == {PDX(v) : v \in VPN}

Directory == [kpt : SUBSET Page, pde : [Tables -> Page \cup {Null}],
              pte : [VPN -> Page \cup {Null}], super : SUBSET VPN]

Locals == [for : {"none", "sbrk", "exec", "segment", "stack"},
           pgdir : Page \cup {Null}, mem : Page \cup {Null}, a : Nat, oldsz : Nat,
           newsz : Nat, child : Proc, prog : Seq(ProgramHeader),
           arglen : 0..UINT-KERNBASE]

PC == {"unused", "embryo", "user", "switchuvm", "alloc", "map", "copyuvm", "copy",
       "copymap", "exec", "segment", "args", "commit", "freeold", "sched", "zombie"}

TypeOK ==
  /\ free \subseteq Page /\ lost \subseteq Page
  /\ DOMAIN dir \subseteq Page /\ dir \in [DOMAIN dir -> Directory]
  /\ pgdir \in [Proc -> Page \cup {Null}] /\ kstack \in [Proc -> Page \cup {Null}]
  /\ sz \in [Proc -> 0..KERNBASE]
  /\ cr3 \in [Proc -> Page \cup {kpgdir}] /\ stale \in [Proc -> BOOLEAN]
  /\ pc \in [Proc -> PC] /\ loc \in [Proc -> Locals]
  /\ panicked = FALSE

-----------------------------------------------------------------------------
(***************************************************************************)
(* The inductive invariant                                                 *)
(***************************************************************************)
\* Exactly the pages below n are mapped.
Upto(d, n) == d \in DOMAIN dir /\ \A v \in VPN : Mapped(d, v) <=> v * PGSIZE < n

\* The loop of allocuvm() or copyuvm() has mapped the pages below a, on its way to n.
Progress(p, n) ==
  /\ Upto(loc[p].pgdir, loc[p].a)
  /\ \E m \in Nat : loc[p].a = m * PGSIZE
  /\ loc[p].a <= PGROUNDUP(n)

AllocInv(p) ==
  /\ loc[p].for \in {"sbrk", "segment", "stack"}
  /\ loc[p].for = "sbrk" => loc[p].pgdir = pgdir[p] /\ loc[p].oldsz = sz[p]
  /\ loc[p].for # "sbrk" => Upto(pgdir[p], sz[p])
  /\ loc[p].for = "segment" =>
       /\ loc[p].prog # <<>> /\ SegmentOK(Head(loc[p].prog))
       /\ (Head(loc[p].prog).vaddr + Head(loc[p].prog).memsz) % UINT <= loc[p].newsz
  /\ loc[p].for = "stack" => loc[p].newsz >= 2 * PGSIZE
  /\ loc[p].oldsz <= loc[p].newsz /\ loc[p].newsz <= KERNBASE
  /\ PGROUNDUP(loc[p].oldsz) <= loc[p].a
  /\ Progress(p, loc[p].newsz)

\* What is mapped at each place of the system calls.
SpaceInv(p) ==
  /\ pc[p] = "user" /\ (\E v \in VPN : Mapped(pgdir[p], v))
       => Upto(pgdir[p], sz[p]) /\ ~stale[p]
  /\ pc[p] \in {"alloc", "map"} => AllocInv(p)
  /\ pc[p] = "map" => loc[p].a < loc[p].newsz
  /\ pc[p] \in {"copyuvm", "copy", "copymap", "exec", "segment", "args", "commit",
                "switchuvm", "freeold"} => Upto(pgdir[p], sz[p])
  /\ pc[p] \in {"copy", "copymap"} => Progress(p, sz[p])
  /\ pc[p] = "copymap" => loc[p].a < sz[p]
  /\ pc[p] = "segment" => loc[p].oldsz <= KERNBASE /\ Upto(loc[p].pgdir, loc[p].oldsz)
  /\ pc[p] \in {"args", "commit"} =>
       loc[p].newsz <= KERNBASE /\ Upto(loc[p].pgdir, loc[p].newsz)

\* The local variables and the pages p has at each place.
LocInv(p) ==
  /\ pc[p] \in {"unused", "embryo", "user", "sched", "zombie"} => loc[p] = NoLocals
  /\ pc[p] \in {"copyuvm", "copy", "copymap", "exec"} => loc[p].for = "none"
  /\ pc[p] \in {"copyuvm", "exec"} =>
       loc[p].pgdir = Null /\ loc[p].a = 0 /\ loc[p].oldsz = 0
  /\ pc[p] = "segment" => loc[p].for \in {"exec", "segment"}
  /\ pc[p] \in {"args", "commit"} => loc[p].for = "stack"
  /\ pc[p] = "switchuvm" =>
       loc[p] = NoLocals \/ (loc[p].for = "exec" /\ loc[p].pgdir # Null)
  /\ pc[p] = "freeold" => loc[p].for = "exec" /\ loc[p].pgdir # Null
  /\ loc[p].mem # Null <=> pc[p] \in {"map", "copymap"}
  /\ loc[p].pgdir # Null => loc[p].pgdir \in DOMAIN dir
  /\ IF pc[p] \in {"unused", "embryo"} THEN pgdir[p] = Null ELSE pgdir[p] \in DOMAIN dir
  /\ kstack[p] = Null <=> pc[p] = "unused"

\* The processor of p.
CpuInv(p) ==
  /\ pc[p] \in {"unused", "embryo", "zombie"} => cr3[p] = kpgdir
  /\ pc[p] \notin {"unused", "embryo", "zombie"} =>
       \/ cr3[p] = pgdir[p]
       \/ pc[p] = "switchuvm" /\ cr3[p] = loc[p].pgdir /\ loc[p].for = "exec"
  /\ stale[p] => pc[p] \in {"user", "switchuvm", "sched"}

ProcInv(p) == SpaceInv(p) /\ LocInv(p) /\ CpuInv(p)

\* The directory that p builds or frees beside its own.
Call(p) == IF loc[p].for = "sbrk" THEN Null ELSE loc[p].pgdir

DirInv ==
  /\ \A p, q \in Proc : pgdir[p] # Null /\ pgdir[p] = pgdir[q] => p = q
  /\ \A p, q \in Proc : Call(p) # Null /\ Call(p) = Call(q) => p = q
  /\ \A p, q \in Proc : pgdir[p] # Null => pgdir[p] # Call(q)
  /\ \A d \in DOMAIN dir : \E p \in Proc : pgdir[p] = d \/ Call(p) = d

\* The slot that fork() fills in.
ForkPC == {"copyuvm", "copy", "copymap"}
ForkInv ==
  /\ \A p \in Proc : pc[p] \in ForkPC => pc[loc[p].child] = "embryo"
  /\ \A p, q \in Proc : pc[p] \in ForkPC /\ pc[q] \in ForkPC /\ loc[p].child = loc[q].child
                          => p = q

TableInv ==
  \A d \in DOMAIN dir : \A v \in VPN : dir[d].pte[v] # Null => dir[d].pde[PDX(v)] # Null

\* The uses of a page x.
Stack(x, p) == p \in Proc /\ kstack[p] = x
Mem(x, p) == p \in Proc /\ loc[p].mem = x
InKpt(x, d) == d \in DOMAIN dir /\ x \in dir[d].kpt
InPde(x, d, i) == d \in DOMAIN dir /\ i \in Tables /\ dir[d].pde[i] = x
InPte(x, d, v) == d \in DOMAIN dir /\ v \in VPN /\ dir[d].pte[v] = x

\* x has one use, of kind k, by the process or directory o, at index i.
Entry(x, k, o, i) ==
  /\ k \in {"free", "lost", "kstack", "mem", "pgdir", "kpt", "pde", "pte"}
  /\ x \in free <=> k = "free"
  /\ x \in lost <=> k = "lost"
  /\ \A p : Stack(x, p) <=> k = "kstack" /\ o = p
  /\ \A p : Mem(x, p) <=> k = "mem" /\ o = p
  /\ x \in DOMAIN dir <=> k = "pgdir"
  /\ \A d : InKpt(x, d) <=> k = "kpt" /\ o = d
  /\ \A d, j : InPde(x, d, j) <=> k = "pde" /\ o = d /\ i = j
  /\ \A d, v : InPte(x, d, v) <=> k = "pte" /\ o = d /\ i = v

PageInv == \A x \in Page : \E k, o, i : Entry(x, k, o, i)

IInv ==
  /\ TypeOK
  /\ \A p \in Proc : ProcInv(p)
  /\ DirInv /\ ForkInv /\ TableInv /\ PageInv

-----------------------------------------------------------------------------
(***************************************************************************)
(* Addresses and page numbers                                              *)
(***************************************************************************)
\* The constants of param.h, mmu.h and memlayout.h as the proofs use them.
LEMMA Constants ==
  /\ init \in Proc /\ NPage \in Nat /\ KTables \in Nat /\ NPage >= KTables + 4
  /\ PGSIZE \in Int /\ PGSIZE > 0 /\ NPTENTRIES \in Int /\ NPTENTRIES > 0
  /\ KERNBASE \in Int /\ KERNBASE >= 4 /\ UINT \in Int /\ UINT >= 2 * KERNBASE
  /\ Increments \subseteq Int /\ ArgLens \subseteq 0..UINT-KERNBASE
  /\ Programs \subseteq Seq(ProgramHeader)
  /\ kpgdir \notin Page /\ Null \notin Page /\ kpgdir # Null
  BY VirtualMemoryAssumption DEF kpgdir, Page, Null

\* When a system call returns (Return) its locals hold no page and no directory.
LEMMA NoLocalsFacts ==
  /\ NoLocals \in Locals
  /\ NoLocals.for = "none" /\ NoLocals.pgdir = Null /\ NoLocals.mem = Null
  /\ NoLocals.a = 0 /\ NoLocals.oldsz = 0
<1>1. /\ init \in Proc /\ Null \in Page \cup {Null} /\ 0 \in 0..UINT-KERNBASE
      /\ <<>> \in Seq(ProgramHeader) /\ 0 \in Nat
  <2>1. 0 \in 0..UINT-KERNBASE
    BY Constants
  <2> QED
    BY <2>1, Constants
<1>2. NoLocals \in Locals
  BY <1>1 DEF NoLocals, Locals
<1> QED
  BY <1>2 DEF NoLocals

\* The addresses of pages are ordered as their numbers.
LEMMA PageOrder ==
  ASSUME NEW v \in Int, NEW m \in Int
  PROVE  /\ v * PGSIZE < m * PGSIZE <=> v < m
         /\ (m * PGSIZE) \div PGSIZE = m
         /\ m * PGSIZE \in Int
<1>1. PGSIZE \in Int /\ PGSIZE > 0
  BY Constants
<1>2. ASSUME v < m PROVE v * PGSIZE < m * PGSIZE
  BY <1>1, <1>2
<1>3. ASSUME v >= m PROVE v * PGSIZE >= m * PGSIZE
  BY <1>1, <1>3
<1>4. (m * PGSIZE) \div PGSIZE = m
  BY <1>1
<1>5. v * PGSIZE \in Int /\ m * PGSIZE \in Int
  BY <1>1
<1> QED
  BY <1>2, <1>3, <1>4, <1>5

\* User memory is a whole number of pages.
LEMMA UserPages ==
  \E b \in Nat : /\ b > 0 /\ KERNBASE = b * PGSIZE /\ VPN = 0..b-1
<1>1. /\ PGSIZE \in Int /\ PGSIZE > 0 /\ NPTENTRIES \in Int /\ NPTENTRIES > 0
      /\ KERNBASE \in Int /\ KERNBASE > 0 /\ KERNBASE % (PGSIZE * NPTENTRIES) = 0
  BY Constants, VirtualMemoryAssumption
<1>2. PICK k \in Int : k = PGSIZE * NPTENTRIES /\ k > 0
  BY <1>1
<1>3. PICK c \in Int : KERNBASE = k * c
  <2>1. KERNBASE = k * (KERNBASE \div k) + (KERNBASE % k)
    BY <1>1, <1>2
  <2>2. KERNBASE % k = 0 /\ KERNBASE \div k \in Int
    BY <1>1, <1>2
  <2> QED
    BY <2>1, <2>2, <1>2
<1>4. PICK b \in Int : b = NPTENTRIES * c
  BY <1>1
<1>5. KERNBASE = b * PGSIZE
  BY <1>1, <1>2, <1>3, <1>4
<1>6. b > 0
  BY <1>1, <1>5
<1>7. KERNBASE \div PGSIZE = b
  BY <1>5, PageOrder
<1> QED
  BY <1>5, <1>6, <1>7 DEF VPN

\* PGROUNDUP(n) is the first address of a page that is not below n.
LEMMA RoundUp ==
  ASSUME NEW n \in Nat
  PROVE  /\ PGROUNDUP(n) \in Nat /\ n <= PGROUNDUP(n) /\ PGROUNDUP(n) < n + PGSIZE
         /\ \E m \in Nat : PGROUNDUP(n) = m * PGSIZE
<1>1. PGSIZE \in Int /\ PGSIZE > 0
  BY Constants
<1>2. PICK m \in Int : m = (n + PGSIZE - 1) \div PGSIZE
  BY <1>1
<1>3. /\ (n + PGSIZE - 1) % PGSIZE \in 0..PGSIZE-1
      /\ n + PGSIZE - 1 = PGSIZE * m + ((n + PGSIZE - 1) % PGSIZE)
  BY <1>1, <1>2
<1>4. PICK k \in Int : k = m * PGSIZE /\ k = PGSIZE * m
  BY <1>1
<1>5. n <= k /\ k < n + PGSIZE
  BY <1>1, <1>3, <1>4
<1>6. m >= 0
  <2>1. k > (-1) * PGSIZE \/ k >= 0
    BY <1>1, <1>5
  <2>2. k >= 0
    BY <1>1, <1>5
  <2>3. ~(m < 0)
    <3> SUFFICES ASSUME m < 0 PROVE FALSE
      OBVIOUS
    <3>1. m * PGSIZE < 0 * PGSIZE
      BY PageOrder
    <3> QED
      BY <3>1, <2>2, <1>1, <1>4
  <2> QED
    BY <2>3
<1>7. PGROUNDUP(n) = k
  BY <1>2, <1>4 DEF PGROUNDUP
<1> QED
  BY <1>1, <1>4, <1>5, <1>6, <1>7

\* Rounding does not change which pages begin below a size.
LEMMA BelowRoundUp ==
  ASSUME NEW n \in Nat, NEW v \in Int
  PROVE  v * PGSIZE < PGROUNDUP(n) <=> v * PGSIZE < n
<1>1. PICK m \in Nat : PGROUNDUP(n) = m * PGSIZE
  BY RoundUp
<1>2. /\ PGSIZE \in Int /\ PGSIZE > 0 /\ n <= m * PGSIZE /\ m * PGSIZE < n + PGSIZE
      /\ v * PGSIZE \in Int /\ m * PGSIZE \in Int
  BY <1>1, RoundUp, Constants, PageOrder
<1>3. ASSUME v * PGSIZE < m * PGSIZE PROVE v * PGSIZE < n
  <2>1. v < m
    BY <1>3, PageOrder
  <2>2. (v + 1) * PGSIZE = v * PGSIZE + PGSIZE
    BY <1>2
  <2>3. ~(m < v + 1)
    BY <2>1
  <2>4. v + 1 \in Int /\ m \in Int
    OBVIOUS
  <2>5. ~(m * PGSIZE < (v + 1) * PGSIZE)
    BY <2>3, <2>4, PageOrder
  <2> QED
    BY <1>2, <2>2, <2>5
<1> QED
  BY <1>1, <1>2, <1>3

\* The page of an address.
LEMMA PageOf ==
  ASSUME NEW a \in Nat
  PROVE  /\ a \div PGSIZE \in Nat
         /\ (a \div PGSIZE) * PGSIZE <= a /\ a < (a \div PGSIZE) * PGSIZE + PGSIZE
         /\ a \div PGSIZE \in VPN <=> a < KERNBASE
<1>1. PGSIZE \in Int /\ PGSIZE > 0
  BY Constants
<1>2. PICK v \in Int : v = a \div PGSIZE
  BY <1>1
<1>3. a = PGSIZE * v + (a % PGSIZE) /\ a % PGSIZE \in 0..PGSIZE-1
  BY <1>1, <1>2
<1>4. PICK k \in Int : k = v * PGSIZE /\ k = PGSIZE * v
  BY <1>1
<1>5. k <= a /\ a < k + PGSIZE
  BY <1>1, <1>3, <1>4
<1>6. v >= 0
  <2> SUFFICES ASSUME v < 0 PROVE FALSE
    OBVIOUS
  <2>1. v + 1 <= 0 /\ ~(0 < v + 1) /\ v + 1 \in Int /\ 0 \in Int
    OBVIOUS
  <2>2. ~(0 * PGSIZE < (v + 1) * PGSIZE)
    BY <2>1, PageOrder
  <2>3. (v + 1) * PGSIZE = k + PGSIZE /\ 0 * PGSIZE = 0
    BY <1>1, <1>4
  <2> QED
    BY <1>1, <1>5, <2>2, <2>3
<1>7. v \in VPN <=> a < KERNBASE
  <2>1. PICK b \in Nat : KERNBASE = b * PGSIZE /\ VPN = 0..b-1
    BY UserPages
  <2>2. v * PGSIZE < b * PGSIZE <=> v < b
    BY PageOrder
  <2>3. ASSUME v < b PROVE a < KERNBASE
    <3>1. ~(b < v + 1) /\ v + 1 \in Int
      BY <2>3
    <3>2. ~(b * PGSIZE < (v + 1) * PGSIZE) /\ b * PGSIZE \in Int
      BY <3>1, PageOrder
    <3>3. (v + 1) * PGSIZE = k + PGSIZE
      BY <1>1, <1>4
    <3> QED
      BY <1>1, <1>5, <2>1, <3>2, <3>3
  <2>4. ASSUME a < KERNBASE PROVE v < b
    <3>1. b * PGSIZE \in Int
      BY PageOrder
    <3> QED
      BY <1>4, <1>5, <2>1, <2>2, <2>4, <3>1
  <2> QED
    BY <1>6, <2>1, <2>3, <2>4
<1> QED
  BY <1>2, <1>4, <1>5, <1>6, <1>7

\* kalloc() returns a page of the free list whenever the list is not empty.
LEMMA Kalloc ==
  ASSUME free \subseteq Page
  PROVE  /\ IsFiniteSet(free)
         /\ CanAlloc(1) => kalloc \in free
         /\ ~CanAlloc(1) => free = {}
<1>1. NPage \in Nat /\ free \subseteq Nat
  BY Constants DEF Page
<1>2. IsFiniteSet(Page)
  BY <1>1, FS_Interval DEF Page
<1>3. IsFiniteSet(free) /\ Cardinality(free) \in Nat
  BY <1>2, FS_Subset, FS_CardinalityType
<1>4. Cardinality(free) = 0 <=> free = {}
  BY <1>3, FS_EmptySet
<1>5. ASSUME free # {} PROVE kalloc \in free
  <2>1. PICK x \in free : \A y \in free : ~(<<y, x>> \in OpToRel(<, Nat))
    BY <1>1, <1>5, NatLessThanWellFounded, WFMin
  <2>2. \A y \in free : ~(y < x)
    BY <1>1, <2>1 DEF OpToRel
  <2>3. {y \in free : y < x} = {}
    BY <2>2
  <2>4. Cardinality({y \in free : y < x}) = 0
    BY <2>3, FS_EmptySet
  <2>5. x \in Take(1)
    BY <2>4 DEF Take
  <2>6. kalloc \in Take(1)
    BY <2>5 DEF kalloc
  <2> QED
    BY <2>6 DEF Take
<1> QED
  BY <1>3, <1>4, <1>5 DEF CanAlloc

-----------------------------------------------------------------------------
(***************************************************************************)
(* What is mapped                                                          *)
(***************************************************************************)
\* The loop of allocuvm() or copyuvm() has mapped all that lies below n once a has
\* passed n.
LEMMA UptoReached ==
  ASSUME NEW d, NEW n \in Nat, NEW a \in Nat, Upto(d, a), n <= a, a <= PGROUNDUP(n)
  PROVE  Upto(d, n)
<1>1. ASSUME NEW v \in VPN PROVE v * PGSIZE < a <=> v * PGSIZE < n
  <2>1. v \in Int
    BY Constants DEF VPN
  <2>2. v * PGSIZE \in Int
    BY <2>1, PageOrder
  <2>3. PGROUNDUP(n) \in Nat
    BY RoundUp
  <2> QED
    BY <2>1, <2>2, <2>3, BelowRoundUp
<1> QED
  BY <1>1 DEF Upto

\* allocuvm() and exec() may round a size up to whole pages (PGROUNDUP): the same
\* pages lie below it.
LEMMA UptoRound ==
  ASSUME NEW d, NEW n \in Nat, Upto(d, n)
  PROVE  Upto(d, PGROUNDUP(n))
<1>1. ASSUME NEW v \in VPN PROVE v * PGSIZE < PGROUNDUP(n) <=> v * PGSIZE < n
  <2>1. v \in Int
    BY Constants DEF VPN
  <2> QED
    BY <2>1, BelowRoundUp
<1> QED
  BY <1>1 DEF Upto

\* A byte below the size is in a page that is mapped.
LEMMA ByteMapped ==
  ASSUME NEW d, NEW n \in 0..KERNBASE, Upto(d, n), NEW a \in Nat, a < n
  PROVE  Mapped(d, a \div PGSIZE)
<1>1. /\ a \div PGSIZE \in Nat /\ (a \div PGSIZE) * PGSIZE <= a
      /\ a \div PGSIZE \in VPN <=> a < KERNBASE
  BY PageOf
<1>2. a < KERNBASE /\ KERNBASE \in Int
  BY Constants
<1>3. (a \div PGSIZE) * PGSIZE \in Int
  BY <1>1, PageOrder
<1>4. (a \div PGSIZE) * PGSIZE < n
  BY <1>1, <1>3
<1> QED
  BY <1>1, <1>2, <1>4 DEF Upto

-----------------------------------------------------------------------------
(***************************************************************************)
(* Pages move                                                              *)
(***************************************************************************)
\* A page that no step of kalloc(), kfree() or mappages() touches keeps its one use.
LEMMA Stays ==
  ASSUME NEW x, \E k, o, i : Entry(x, k, o, i),
         x \in free' <=> x \in free, x \in lost' <=> x \in lost,
         \A p : Stack(x, p)' <=> Stack(x, p), \A p : Mem(x, p)' <=> Mem(x, p),
         x \in DOMAIN dir' <=> x \in DOMAIN dir,
         \A d : InKpt(x, d)' <=> InKpt(x, d),
         \A d, j : InPde(x, d, j)' <=> InPde(x, d, j),
         \A d, v : InPte(x, d, v)' <=> InPte(x, d, v)
  PROVE  \E k, o, i : Entry(x, k, o, i)'
<1>1. PICK k, o, i : Entry(x, k, o, i)
  OBVIOUS
<1>2. Entry(x, k, o, i)'
  BY <1>1 DEF Entry
<1> QED
  BY <1>2

\* A page on kmem.freelist has no other use.
LEMMA FreePage ==
  ASSUME PageInv, NEW x \in Page, x \in free
  PROVE  /\ x \notin lost /\ x \notin DOMAIN dir
         /\ \A p : ~Stack(x, p) /\ ~Mem(x, p)
         /\ \A d : ~InKpt(x, d)
         /\ \A d, j : ~InPde(x, d, j) /\ ~InPte(x, d, j)
<1>1. PICK k, o, i : Entry(x, k, o, i)
  BY DEF PageInv
<1>2. k = "free"
  BY <1>1 DEF Entry
<1> QED
  BY <1>1, <1>2 DEF Entry

\* kalloc() into a local variable of allocuvm() or copyuvm() keeps one use per page.
LEMMA GainMem ==
  ASSUME TypeOK, PageInv, NEW p \in Proc, NEW x \in free,
         free' = free \ {x}, UNCHANGED <<lost, dir, kstack>>,
         loc[p].mem = Null, loc'[p].mem = x,
         \A q \in Proc : q # p => loc'[q].mem = loc[q].mem
  PROVE  PageInv'
<1>1. x \in Page /\ Null \notin Page
  BY Constants DEF TypeOK
<1>2. /\ x \notin lost /\ x \notin DOMAIN dir
      /\ \A q : ~Stack(x, q) /\ ~Mem(x, q)
      /\ \A d : ~InKpt(x, d)
      /\ \A d, j : ~InPde(x, d, j) /\ ~InPte(x, d, j)
  BY <1>1, FreePage
<1>3. \A y, q : y \in Page => (Mem(y, q)' <=> IF q = p THEN y = x ELSE Mem(y, q))
  BY DEF Mem
<1>4. ~\E y \in Page : Mem(y, p)
  BY <1>1 DEF Mem
<1>5. \A y : /\ \A q : Stack(y, q)' <=> Stack(y, q)
             /\ \A d : InKpt(y, d)' <=> InKpt(y, d)
             /\ \A d, j : /\ InPde(y, d, j)' <=> InPde(y, d, j)
                          /\ InPte(y, d, j)' <=> InPte(y, d, j)
  BY DEF Stack, InKpt, InPde, InPte
<1>6. ASSUME NEW y \in Page PROVE \E k, o, i : Entry(y, k, o, i)'
  <2>1. CASE y = x
    <3>1. Entry(x, "mem", p, 0)'
      BY <1>1, <1>2, <1>3, <1>5 DEF Entry
    <3> QED
      BY <2>1, <3>1
  <2>2. CASE y # x
    <3>1. \A q : Mem(y, q)' <=> Mem(y, q)
      BY <1>3, <1>4, <2>2
    <3>2. \E k, o, i : Entry(y, k, o, i)
      BY DEF PageInv
    <3>3. y \in free' <=> y \in free
      BY <2>2
    <3> QED
      BY <1>5, <3>1, <3>2, <3>3, Stays
  <2> QED
    BY <2>1, <2>2
<1> QED
  BY <1>6 DEF PageInv

\* kalloc() of a kernel stack in allocproc() keeps one use per page.
LEMMA GainStack ==
  ASSUME TypeOK, PageInv, NEW p \in Proc, NEW x \in free,
         free' = free \ {x}, UNCHANGED <<lost, dir>>,
         kstack[p] = Null, kstack' = [kstack EXCEPT ![p] = x],
         \A q \in Proc : loc'[q].mem = loc[q].mem
  PROVE  PageInv'
<1>1. x \in Page /\ Null \notin Page /\ kstack \in [Proc -> Page \cup {Null}]
  BY Constants DEF TypeOK
<1>2. /\ x \notin lost /\ x \notin DOMAIN dir
      /\ \A q : ~Stack(x, q) /\ ~Mem(x, q)
      /\ \A d : ~InKpt(x, d)
      /\ \A d, j : ~InPde(x, d, j) /\ ~InPte(x, d, j)
  BY <1>1, FreePage
<1>3. \A y, q : y \in Page => (Stack(y, q)' <=> IF q = p THEN y = x ELSE Stack(y, q))
  BY <1>1 DEF Stack
<1>4. ~\E y \in Page : Stack(y, p)
  BY <1>1 DEF Stack
<1>5. \A y : /\ \A q : Mem(y, q)' <=> Mem(y, q)
             /\ \A d : InKpt(y, d)' <=> InKpt(y, d)
             /\ \A d, j : /\ InPde(y, d, j)' <=> InPde(y, d, j)
                          /\ InPte(y, d, j)' <=> InPte(y, d, j)
  BY DEF Mem, InKpt, InPde, InPte
<1>6. ASSUME NEW y \in Page PROVE \E k, o, i : Entry(y, k, o, i)'
  <2>1. CASE y = x
    <3>1. Entry(x, "kstack", p, 0)'
      BY <1>1, <1>2, <1>3, <1>5 DEF Entry
    <3> QED
      BY <2>1, <3>1
  <2>2. CASE y # x
    <3>1. \A q : Stack(y, q)' <=> Stack(y, q)
      BY <1>3, <1>4, <2>2
    <3>2. \E k, o, i : Entry(y, k, o, i)
      BY DEF PageInv
    <3>3. y \in free' <=> y \in free
      BY <2>2
    <3> QED
      BY <1>5, <3>1, <3>2, <3>3, Stays
  <2> QED
    BY <2>1, <2>2
<1> QED
  BY <1>6 DEF PageInv

\* setupkvm(): the pages of S become a directory and the kernel's tables.
SetsUp(d, S) ==
  /\ d \in S /\ free' = free \ S
  /\ DOMAIN dir' = DOMAIN dir \cup {d} /\ dir'[d].kpt = S \ {d}
  /\ \A j \in Tables : dir'[d].pde[j] = Null
  /\ \A v \in VPN : dir'[d].pte[v] = Null
  /\ \A e \in DOMAIN dir : dir'[e] = dir[e]

\* setupkvm() keeps one use per page: d becomes a directory and the rest of S its
\* kernel tables.
LEMMA GainDir ==
  ASSUME TypeOK, PageInv, NEW S \in SUBSET free, NEW d, SetsUp(d, S),
         UNCHANGED <<lost, kstack>>, \A q \in Proc : loc'[q].mem = loc[q].mem
  PROVE  PageInv'
<1> USE DEF SetsUp
<1>1. S \subseteq Page /\ Null \notin Page
  BY Constants DEF TypeOK
<1>2. ASSUME NEW x \in S
      PROVE  /\ x \notin lost /\ x \notin DOMAIN dir
             /\ \A q : ~Stack(x, q) /\ ~Mem(x, q)
             /\ \A e : ~InKpt(x, e)
             /\ \A e, j : ~InPde(x, e, j) /\ ~InPte(x, e, j)
  BY <1>1, FreePage
<1>3. d \notin DOMAIN dir
  BY <1>2
<1>4. \A y \in Page : /\ \A q : Stack(y, q)' <=> Stack(y, q)
                      /\ \A q : Mem(y, q)' <=> Mem(y, q)
                      /\ \A e : InKpt(y, e)' <=> InKpt(y, e) \/ (e = d /\ y \in S \ {d})
  BY <1>3 DEF Stack, Mem, InKpt
<1>5. \A y \in Page : \A e, j : /\ InPde(y, e, j)' <=> InPde(y, e, j)
                                /\ InPte(y, e, j)' <=> InPte(y, e, j)
  BY <1>1, <1>3 DEF InPde, InPte
<1>6. ASSUME NEW y \in Page PROVE \E k, o, i : Entry(y, k, o, i)'
  <2>1. CASE y = d
    <3>1. Entry(d, "pgdir", 0, 0)'
      BY <1>1, <1>2, <1>4, <1>5 DEF Entry
    <3> QED
      BY <2>1, <3>1
  <2>2. CASE y \in S \ {d}
    <3>1. Entry(y, "kpt", d, 0)'
      BY <2>2, <1>1, <1>2, <1>4, <1>5 DEF Entry
    <3> QED
      BY <3>1
  <2>3. CASE y \notin S
    <3>1. \E k, o, i : Entry(y, k, o, i)
      BY DEF PageInv
    <3>2. /\ y \in free' <=> y \in free
          /\ y \in DOMAIN dir' <=> y \in DOMAIN dir
          /\ \A e : InKpt(y, e)' <=> InKpt(y, e)
      BY <2>3, <1>4
    <3> QED
      BY <1>4, <1>5, <3>1, <3>2, Stays
  <2> QED
    BY <2>1, <2>2, <2>3
<1> QED
  BY <1>6 DEF PageInv

\* Pages of S are given back, and those of T are forgotten.
Released(S, T) ==
  /\ S \cap T = {}
  /\ free' = free \cup S /\ lost' = lost \cup T
  /\ \A x \in S \cup T : x \notin free /\ x \notin lost
  /\ \A x \in Page :
       /\ \A p : Stack(x, p)' <=> Stack(x, p) /\ x \notin S \cup T
       /\ \A p : Mem(x, p)' <=> Mem(x, p) /\ x \notin S \cup T
       /\ x \in DOMAIN dir' <=> x \in DOMAIN dir /\ x \notin S \cup T
       /\ \A d : InKpt(x, d)' <=> InKpt(x, d) /\ x \notin S \cup T
       /\ \A d, j : InPde(x, d, j)' <=> InPde(x, d, j) /\ x \notin S \cup T
       /\ \A d, j : InPte(x, d, j)' <=> InPte(x, d, j) /\ x \notin S \cup T

\* kfree() of pages whose last pointers go, or the loss of those pointers, keeps one
\* use per page.
LEMMA Release ==
  ASSUME PageInv, NEW S, NEW T, Released(S, T)
  PROVE  PageInv'
<1>1. ASSUME NEW y \in Page PROVE \E k, o, i : Entry(y, k, o, i)'
  <2>1. CASE y \in S
    <3>1. Entry(y, "free", 0, 0)'
      BY <2>1 DEF Entry, Released
    <3> QED
      BY <3>1
  <2>2. CASE y \in T
    <3>1. Entry(y, "lost", 0, 0)'
      BY <2>2 DEF Entry, Released
    <3> QED
      BY <3>1
  <2>3. CASE y \notin S \cup T
    <3>1. \E k, o, i : Entry(y, k, o, i)
      BY DEF PageInv
    <3>2. /\ y \in free' <=> y \in free
          /\ y \in lost' <=> y \in lost
          /\ \A p : Stack(y, p)' <=> Stack(y, p)
          /\ \A p : Mem(y, p)' <=> Mem(y, p)
          /\ y \in DOMAIN dir' <=> y \in DOMAIN dir
          /\ \A d : InKpt(y, d)' <=> InKpt(y, d)
          /\ \A d, j : InPde(y, d, j)' <=> InPde(y, d, j)
          /\ \A d, j : InPte(y, d, j)' <=> InPte(y, d, j)
      BY <2>3 DEF Released
    <3> QED
      BY <3>1, <3>2, Stays
  <2> QED
    BY <2>1, <2>2, <2>3
<1> QED
  BY <1>1 DEF PageInv

\* mappages(): the page of a local variable, and perhaps a free page for the page
\* table, go into the directory d.
Maps(d, v, t, mem) ==
  /\ \/ dir[d].pde[PDX(v)] = t /\ free' = free
     \/ dir[d].pde[PDX(v)] = Null /\ t \in free /\ free' = free \ {t}
  /\ DOMAIN dir' = DOMAIN dir /\ \A e \in DOMAIN dir : e # d => dir'[e] = dir[e]
  /\ dir'[d].kpt = dir[d].kpt
  /\ \A j \in Tables : dir'[d].pde[j] = IF j = PDX(v) THEN t ELSE dir[d].pde[j]
  /\ \A w \in VPN : dir'[d].pte[w] = IF w = v THEN mem ELSE dir[d].pte[w]

\* mappages() keeps one use per page: the page leaves the local variable for the
\* directory, and the table that walkpgdir() takes leaves the free list.
LEMMA MapPage ==
  ASSUME TypeOK, PageInv, NEW p \in Proc, NEW d \in DOMAIN dir, NEW v \in VPN,
         NEW t \in Page, NEW mem \in Page, loc[p].mem = mem, dir[d].pte[v] = Null,
         Maps(d, v, t, mem), UNCHANGED <<lost, kstack>>,
         loc'[p].mem = Null, \A q \in Proc : q # p => loc'[q].mem = loc[q].mem
  PROVE  PageInv'
<1> USE DEF Maps
<1>1. Null \notin Page /\ PDX(v) \in Tables
  BY Constants DEF Tables
<1>2. PICK km, om, im : Entry(mem, km, om, im)
  BY DEF PageInv
<1>3. km = "mem" /\ om = p
  <2>1. Mem(mem, p)
    BY DEF Mem
  <2> QED
    BY <1>2, <2>1 DEF Entry
<1>4. \A y \in Page :
        /\ \A q : Stack(y, q)' <=> Stack(y, q)
        /\ \A q : Mem(y, q)' <=> Mem(y, q) /\ y # mem
        /\ \A e : InKpt(y, e)' <=> InKpt(y, e)
  <2>1. \A q : Mem(mem, q) <=> q = p
    BY <1>2, <1>3 DEF Entry
  <2> QED
    BY <1>1, <2>1 DEF Stack, Mem, InKpt
<1>5. \A y \in Page : \A e, w :
        InPte(y, e, w)' <=> InPte(y, e, w) \/ (y = mem /\ e = d /\ w = v)
  BY <1>1 DEF InPte
<1>6. \A y \in Page : \A e, j :
        InPde(y, e, j)' <=> InPde(y, e, j) \/ (y = t /\ e = d /\ j = PDX(v))
  BY <1>1 DEF InPde
<1>7. t # mem
  <2>1. CASE t \in free
    BY <2>1, <1>2, <1>3 DEF Entry
  <2>2. CASE dir[d].pde[PDX(v)] = t
    <3>1. InPde(t, d, PDX(v))
      BY <2>2, <1>1 DEF InPde
    <3> QED
      BY <3>1, <1>2, <1>3 DEF Entry
  <2> QED
    BY <2>1, <2>2
<1>8. ASSUME NEW y \in Page PROVE \E k, o, i : Entry(y, k, o, i)'
  <2>1. CASE y = mem
    <3>1. mem \notin free' /\ mem \notin lost' /\ mem \notin DOMAIN dir'
      BY <1>2, <1>3 DEF Entry
    <3>2. Entry(mem, "pte", d, v)'
      BY <3>1, <1>2, <1>3, <1>4, <1>5, <1>6, <1>7 DEF Entry
    <3> QED
      BY <2>1, <3>2
  <2>2. CASE y = t /\ t \in free /\ free' = free \ {t}
    <3>1. /\ t \notin lost /\ t \notin DOMAIN dir
          /\ \A q : ~Stack(t, q) /\ ~Mem(t, q)
          /\ \A e : ~InKpt(t, e)
          /\ \A e, j : ~InPde(t, e, j) /\ ~InPte(t, e, j)
      BY <2>2, FreePage
    <3>2. Entry(t, "pde", d, PDX(v))'
      BY <2>2, <3>1, <1>4, <1>5, <1>6, <1>7 DEF Entry
    <3> QED
      BY <2>2, <3>2
  <2>3. CASE y # mem /\ (y = t => dir[d].pde[PDX(v)] = t /\ free' = free)
    <3>1. \E k, o, i : Entry(y, k, o, i)
      BY DEF PageInv
    <3>2. /\ y \in free' <=> y \in free
          /\ \A q : Mem(y, q)' <=> Mem(y, q)
          /\ \A e, w : InPte(y, e, w)' <=> InPte(y, e, w)
      BY <2>3, <1>4, <1>5
    <3>3. \A e, j : InPde(y, e, j)' <=> InPde(y, e, j)
      BY <2>3, <1>1, <1>6 DEF InPde
    <3> QED
      BY <1>4, <3>1, <3>2, <3>3, Stays
  <2> QED
    BY <2>1, <2>2, <2>3
<1> QED
  BY <1>8 DEF PageInv

\* Two slots have no kernel stack in common, nor two calls a page in a local variable.
LEMMA OneUse ==
  ASSUME TypeOK, PageInv, NEW p \in Proc, NEW q \in Proc
  PROVE  /\ kstack[p] # Null /\ kstack[p] = kstack[q] => p = q
         /\ loc[p].mem # Null /\ loc[p].mem = loc[q].mem => p = q
         /\ kstack[p] # Null => kstack[p] # loc[q].mem
<1>1. /\ kstack[p] \in Page \cup {Null} /\ loc[p].mem \in Page \cup {Null}
  BY DEF TypeOK, Locals
<1>2. ASSUME kstack[p] # Null
      PROVE  kstack[p] # loc[q].mem /\ (kstack[p] = kstack[q] => p = q)
  <2>1. PICK k, o, i : Entry(kstack[p], k, o, i)
    BY <1>1, <1>2 DEF PageInv
  <2>2. Stack(kstack[p], p) /\ (kstack[p] = kstack[q] => Stack(kstack[p], q))
        /\ (kstack[p] = loc[q].mem => Mem(kstack[p], q))
    BY DEF Stack, Mem
  <2> QED
    BY <2>1, <2>2 DEF Entry
<1>3. ASSUME loc[p].mem # Null
      PROVE  loc[p].mem = loc[q].mem => p = q
  <2>1. PICK k, o, i : Entry(loc[p].mem, k, o, i)
    BY <1>1, <1>3 DEF PageInv
  <2>2. Mem(loc[p].mem, p) /\ (loc[p].mem = loc[q].mem => Mem(loc[p].mem, q))
    BY DEF Mem
  <2> QED
    BY <2>1, <2>2 DEF Entry
<1> QED
  BY <1>2, <1>3

\* The pages that p has in M go to the free list, and those in T are lost; the
\* callers clear the pointers to them.
Dropped(M, T) ==
  /\ M \cap T = {}
  /\ \A x \in M \cup T : x \in Page /\ \E q : Stack(x, q) \/ Mem(x, q)
  /\ \A q \in Proc : /\ kstack'[q] = IF kstack[q] \in M \cup T THEN Null ELSE kstack[q]
                     /\ loc'[q].mem = IF loc[q].mem \in M \cup T THEN Null ELSE loc[q].mem
  /\ lost' = lost \cup T

\* The stack and the local page that a failing fork() drops were in no directory and
\* not on the free list, so kfree() frees none twice.
LEMMA DroppedFacts ==
  ASSUME TypeOK, PageInv, NEW M, NEW T, Dropped(M, T)
  PROVE  /\ \A x \in Page : /\ \A q : Stack(x, q)' <=> Stack(x, q) /\ x \notin M \cup T
                            /\ \A q : Mem(x, q)' <=> Mem(x, q) /\ x \notin M \cup T
         /\ \A x \in M \cup T :
              /\ x \in Page /\ x \notin free /\ x \notin lost /\ x \notin DOMAIN dir
              /\ \A d : ~InKpt(x, d)
              /\ \A d, j : ~InPde(x, d, j) /\ ~InPte(x, d, j)
<1>1. Null \notin Page
  BY Constants
<1>2. \A x \in Page : /\ \A q : Stack(x, q)' <=> Stack(x, q) /\ x \notin M \cup T
                      /\ \A q : Mem(x, q)' <=> Mem(x, q) /\ x \notin M \cup T
  BY <1>1 DEF Dropped, Stack, Mem
<1>3. ASSUME NEW x \in M \cup T
      PROVE  /\ x \in Page /\ x \notin free /\ x \notin lost /\ x \notin DOMAIN dir
             /\ \A d : ~InKpt(x, d)
             /\ \A d, j : ~InPde(x, d, j) /\ ~InPte(x, d, j)
  <2>1. x \in Page /\ \E q : Stack(x, q) \/ Mem(x, q)
    BY DEF Dropped
  <2>2. PICK k, o, i : Entry(x, k, o, i)
    BY <2>1 DEF PageInv
  <2>3. k \in {"kstack", "mem"}
    BY <2>1, <2>2 DEF Entry
  <2> QED
    BY <2>1, <2>2, <2>3 DEF Entry
<1> QED
  BY <1>2, <1>3

\* freevm() of the directory d, its tables and its pages frees each of them once.
LEMMA ReleaseDir ==
  ASSUME TypeOK, PageInv, NEW d \in DOMAIN dir, NEW M, NEW T, Dropped(M, T),
         free' = free \cup (Owned(d) \cup M),
         DOMAIN dir' = DOMAIN dir \ {d}, \A e \in DOMAIN dir : e # d => dir'[e] = dir[e]
  PROVE  PageInv'
<1>1. Null \notin Page /\ d \in Page /\ dir[d] \in Directory
  BY Constants DEF TypeOK
<1>2. PICK S : S = Owned(d)
  OBVIOUS
<1>3. S \subseteq Page
  BY <1>1, <1>2 DEF Owned, Directory, Tables
<1>4. \A x \in Page : x \in S <=> \/ x = d \/ InKpt(x, d) \/ (\E j : InPde(x, d, j))
                                  \/ (\E v : InPte(x, d, v))
  BY <1>1, <1>2 DEF Owned, InKpt, InPde, InPte, Tables
<1>5. /\ \A x \in Page : /\ \A q : Stack(x, q)' <=> Stack(x, q) /\ x \notin M \cup T
                         /\ \A q : Mem(x, q)' <=> Mem(x, q) /\ x \notin M \cup T
      /\ \A x \in M \cup T :
           /\ x \in Page /\ x \notin free /\ x \notin lost /\ x \notin DOMAIN dir
           /\ \A e : ~InKpt(x, e)
           /\ \A e, j : ~InPde(x, e, j) /\ ~InPte(x, e, j)
  BY DroppedFacts
<1>6. /\ \A x, e : InKpt(x, e)' <=> InKpt(x, e) /\ e # d
      /\ \A x, e, j : InPde(x, e, j)' <=> InPde(x, e, j) /\ e # d
      /\ \A x, e, j : InPte(x, e, j)' <=> InPte(x, e, j) /\ e # d
  BY DEF InKpt, InPde, InPte
<1>7. ASSUME NEW x \in S \cup (M \cup T) PROVE x \notin free /\ x \notin lost
  <2>1. CASE x \in M \cup T
    BY <2>1, <1>5
  <2>2. CASE x \in S
    <3>1. x \in Page
      BY <2>2, <1>3
    <3>2. PICK k, o, i : Entry(x, k, o, i)
      BY <3>1 DEF PageInv
    <3>3. k \in {"pgdir", "kpt", "pde", "pte"}
      BY <2>2, <3>1, <3>2, <1>4 DEF Entry
    <3> QED
      BY <3>2, <3>3 DEF Entry
  <2> QED
    BY <2>1, <2>2
<1>8. ASSUME NEW x \in Page
      PROVE  /\ \A p : Stack(x, p)' <=> Stack(x, p) /\ x \notin (S \cup M) \cup T
             /\ \A p : Mem(x, p)' <=> Mem(x, p) /\ x \notin (S \cup M) \cup T
             /\ x \in DOMAIN dir' <=> x \in DOMAIN dir /\ x \notin (S \cup M) \cup T
             /\ \A e : InKpt(x, e)' <=> InKpt(x, e) /\ x \notin (S \cup M) \cup T
             /\ \A e, j : InPde(x, e, j)' <=> InPde(x, e, j) /\ x \notin (S \cup M) \cup T
             /\ \A e, j : InPte(x, e, j)' <=> InPte(x, e, j) /\ x \notin (S \cup M) \cup T
  <2>1. PICK k, o, i : Entry(x, k, o, i)
    BY DEF PageInv
  <2>2. x \in S <=> (k = "pgdir" /\ x = d) \/ (k \in {"kpt", "pde", "pte"} /\ o = d)
    BY <2>1, <1>4 DEF Entry
  <2>3. x \in M \cup T => k \in {"kstack", "mem"}
    BY <2>1, <1>5 DEF Entry
  <2>4. /\ \A p : Stack(x, p)' <=> Stack(x, p) /\ x \notin (S \cup M) \cup T
        /\ \A p : Mem(x, p)' <=> Mem(x, p) /\ x \notin (S \cup M) \cup T
    BY <2>1, <2>2, <1>5 DEF Entry
  <2>5. x \in DOMAIN dir' <=> x \in DOMAIN dir /\ x \notin (S \cup M) \cup T
    BY <2>1, <2>2, <2>3 DEF Entry
  <2>6. /\ \A e : InKpt(x, e)' <=> InKpt(x, e) /\ x \notin (S \cup M) \cup T
        /\ \A e, j : InPde(x, e, j)' <=> InPde(x, e, j) /\ x \notin (S \cup M) \cup T
        /\ \A e, j : InPte(x, e, j)' <=> InPte(x, e, j) /\ x \notin (S \cup M) \cup T
    BY <2>1, <2>2, <2>3, <1>6 DEF Entry
  <2> QED
    BY <2>4, <2>5, <2>6
<1>9. (S \cup M) \cap T = {}
  <2>1. \A x \in T : x \notin S
    BY <1>3, <1>4, <1>5
  <2> QED
    BY <2>1 DEF Dropped
<1>10. free' = free \cup (S \cup M) /\ lost' = lost \cup T
  BY <1>2 DEF Dropped
<1>11. \A x \in (S \cup M) \cup T : x \notin free /\ x \notin lost
  BY <1>7
<1>12. Released(S \cup M, T)
  BY <1>8, <1>9, <1>10, <1>11 DEF Released
<1> QED
  BY <1>12, Release

\* deallocuvm() gives back the pages at V and, with it, those in M.
Unmaps(d, V, M) ==
  /\ \A v \in V : dir[d].pte[v] # Null
  /\ free' = free \cup ({dir[d].pte[v] : v \in V} \cup M)
  /\ DOMAIN dir' = DOMAIN dir /\ \A e \in DOMAIN dir : e # d => dir'[e] = dir[e]
  /\ dir'[d].kpt = dir[d].kpt /\ dir'[d].pde = dir[d].pde
  /\ \A v \in VPN : dir'[d].pte[v] = IF v \in V THEN Null ELSE dir[d].pte[v]

\* deallocuvm() of the pages at V frees each of them once and leaves the tables.
LEMMA ReleasePages ==
  ASSUME TypeOK, PageInv, NEW d \in DOMAIN dir, NEW V \in SUBSET VPN, NEW M, Dropped(M, {}),
         Unmaps(d, V, M)
  PROVE  PageInv'
<1> USE DEF Unmaps
<1>1. Null \notin Page /\ d \in Page /\ dir[d] \in Directory
  BY Constants DEF TypeOK
<1>2. PICK S : S = {dir[d].pte[v] : v \in V}
  OBVIOUS
<1>3. S \subseteq Page
  BY <1>1, <1>2 DEF Directory
<1>4. \A x \in Page : x \in S <=> \E v \in V : InPte(x, d, v)
  BY <1>1, <1>2 DEF InPte
<1>5. /\ \A x \in Page : /\ \A q : Stack(x, q)' <=> Stack(x, q) /\ x \notin M
                         /\ \A q : Mem(x, q)' <=> Mem(x, q) /\ x \notin M
      /\ \A x \in M :
           /\ x \in Page /\ x \notin free /\ x \notin lost /\ x \notin DOMAIN dir
           /\ \A e : ~InKpt(x, e)
           /\ \A e, j : ~InPde(x, e, j) /\ ~InPte(x, e, j)
  BY DroppedFacts
<1>6. /\ \A x, e : InKpt(x, e)' <=> InKpt(x, e)
      /\ \A x, e, j : InPde(x, e, j)' <=> InPde(x, e, j)
  BY DEF InKpt, InPde
<1>7. \A x \in Page : \A e, j : InPte(x, e, j)' <=> InPte(x, e, j) /\ ~(e = d /\ j \in V)
  BY <1>1 DEF InPte
<1>8. ASSUME NEW x \in S \cup M PROVE x \notin free /\ x \notin lost
  <2>1. CASE x \in M
    BY <2>1, <1>5
  <2>2. CASE x \in S
    <3>1. x \in Page
      BY <2>2, <1>3
    <3>2. PICK k, o, i : Entry(x, k, o, i)
      BY <3>1 DEF PageInv
    <3>3. k = "pte"
      BY <2>2, <3>1, <3>2, <1>4 DEF Entry
    <3> QED
      BY <3>2, <3>3 DEF Entry
  <2> QED
    BY <2>1, <2>2
<1>9. ASSUME NEW x \in Page
      PROVE  /\ \A p : Stack(x, p)' <=> Stack(x, p) /\ x \notin (S \cup M) \cup {}
             /\ \A p : Mem(x, p)' <=> Mem(x, p) /\ x \notin (S \cup M) \cup {}
             /\ x \in DOMAIN dir' <=> x \in DOMAIN dir /\ x \notin (S \cup M) \cup {}
             /\ \A e : InKpt(x, e)' <=> InKpt(x, e) /\ x \notin (S \cup M) \cup {}
             /\ \A e, j : InPde(x, e, j)' <=> InPde(x, e, j) /\ x \notin (S \cup M) \cup {}
             /\ \A e, j : InPte(x, e, j)' <=> InPte(x, e, j) /\ x \notin (S \cup M) \cup {}
  <2>1. PICK k, o, i : Entry(x, k, o, i)
    BY DEF PageInv
  <2>2. x \in S <=> k = "pte" /\ o = d /\ i \in V
    BY <2>1, <1>4 DEF Entry
  <2>3. x \in M => k \in {"kstack", "mem"}
    BY <2>1, <1>5 DEF Entry
  <2>4. /\ \A p : Stack(x, p)' <=> Stack(x, p) /\ x \notin (S \cup M) \cup {}
        /\ \A p : Mem(x, p)' <=> Mem(x, p) /\ x \notin (S \cup M) \cup {}
    BY <2>1, <2>2, <1>5 DEF Entry
  <2>5. x \in DOMAIN dir' <=> x \in DOMAIN dir /\ x \notin (S \cup M) \cup {}
    BY <2>1, <2>2, <2>3 DEF Entry
  <2>6. /\ \A e : InKpt(x, e)' <=> InKpt(x, e) /\ x \notin (S \cup M) \cup {}
        /\ \A e, j : InPde(x, e, j)' <=> InPde(x, e, j) /\ x \notin (S \cup M) \cup {}
    BY <2>1, <2>2, <2>3, <1>6 DEF Entry
  <2>7. \A e, j : InPte(x, e, j)' <=> InPte(x, e, j) /\ x \notin (S \cup M) \cup {}
    BY <2>1, <2>2, <2>3, <1>7 DEF Entry
  <2> QED
    BY <2>4, <2>5, <2>6, <2>7
<1>10. free' = free \cup (S \cup M) /\ lost' = lost \cup {}
  BY <1>2 DEF Dropped
<1>11. \A x \in (S \cup M) \cup {} : x \notin free /\ x \notin lost
  BY <1>8
<1>12. (S \cup M) \cap {} = {}
  OBVIOUS
<1>13. Released(S \cup M, {})
  BY <1>9, <1>10, <1>11, <1>12 DEF Released
<1> QED
  BY <1>13, Release

-----------------------------------------------------------------------------
(***************************************************************************)
(* What the functions of vm.c change                                       *)
(***************************************************************************)
\* A step leaves p, or the directory d, as it is.
Same(p) == /\ pc'[p] = pc[p] /\ pgdir'[p] = pgdir[p] /\ sz'[p] = sz[p]
           /\ kstack'[p] = kstack[p] /\ loc'[p] = loc[p] /\ cr3'[p] = cr3[p]
           /\ stale'[p] = stale[p]
SameDir(d) == d \in DOMAIN dir => d \in DOMAIN dir' /\ dir'[d] = dir[d]

\* A process keeps its invariant through a step of another that leaves its directories
\* and its slot alone.
LEMMA Frame ==
  ASSUME NEW p \in Proc, ProcInv(p), Same(p), SameDir(pgdir[p]), SameDir(loc[p].pgdir)
  PROVE  ProcInv(p)'
<1>1. LocInv(p)'
  BY DEF ProcInv, LocInv, Same, SameDir
<1>2. CpuInv(p)'
  BY DEF ProcInv, CpuInv, Same
<1>3. SpaceInv(p)'
  <2>1. \A n : Upto(pgdir[p], n) =>
          /\ pgdir'[p] \in DOMAIN dir'
          /\ \A v \in VPN : (v \in VPN /\ dir'[pgdir'[p]].pte[v] # Null) <=> v * PGSIZE < n
    BY DEF Upto, Mapped, Same, SameDir
  <2>2. \A n : Upto(loc[p].pgdir, n) =>
          /\ loc'[p].pgdir \in DOMAIN dir'
          /\ \A v \in VPN : (v \in VPN /\ dir'[loc'[p].pgdir].pte[v] # Null) <=> v * PGSIZE < n
    BY DEF Upto, Mapped, Same, SameDir
  <2>3. Upto(pgdir[p], sz[p]) => Upto(pgdir[p], sz[p])'
    BY <2>1 DEF Upto, Mapped, Same
  <2>4. \A n : Progress(p, n) =>
          /\ Upto(loc[p].pgdir, loc[p].a)'
          /\ \E m \in Nat : loc'[p].a = m * PGSIZE
          /\ loc'[p].a <= PGROUNDUP(n)
    BY <2>2 DEF Progress, Upto, Mapped, Same
  <2>5. /\ Upto(loc[p].pgdir, loc[p].oldsz) => Upto(loc[p].pgdir, loc[p].oldsz)'
        /\ Upto(loc[p].pgdir, loc[p].newsz) => Upto(loc[p].pgdir, loc[p].newsz)'
    BY <2>2 DEF Upto, Mapped, Same
  <2>6. /\ Progress(p, sz[p]) => Progress(p, sz[p])'
        /\ Progress(p, loc[p].newsz) => Progress(p, loc[p].newsz)'
    BY <2>4 DEF Progress, Same
  <2>7. AllocInv(p) => AllocInv(p)'
    BY <2>3, <2>6 DEF AllocInv, Same
  <2>8. pc[p] = "user" /\ (\E v \in VPN : Mapped(pgdir[p], v)') => \E v \in VPN : Mapped(pgdir[p], v)
    <3>1. pc[p] = "user" => pgdir[p] \in DOMAIN dir
      BY DEF ProcInv, LocInv
    <3> QED
      BY <3>1 DEF Mapped, Same, SameDir
  <2> QED
    BY <2>3, <2>5, <2>6, <2>7, <2>8 DEF ProcInv, SpaceInv, Same
<1> QED
  BY <1>1, <1>2, <1>3 DEF ProcInv

\* While p and r take a step (fork(), wait()) on their own directories, the other
\* processes keep their invariants.
LEMMA FrameRest ==
  ASSUME \A q \in Proc : ProcInv(q), DirInv, TypeOK, NEW p \in Proc, NEW r \in Proc,
         \A q \in Proc : q # p /\ q # r => Same(q),
         \A d \in DOMAIN dir : SameDir(d) \/ d = pgdir[p] \/ d = Call(p)
  PROVE  \A q \in Proc : q # p /\ q # r => ProcInv(q)'
<1> SUFFICES ASSUME NEW q \in Proc, q # p, q # r PROVE ProcInv(q)'
  OBVIOUS
<1>0. Null \notin DOMAIN dir
  BY Constants DEF TypeOK
<1>1. SameDir(pgdir[q])
  BY <1>0 DEF DirInv, SameDir
<1>2. SameDir(loc[q].pgdir)
  <2>1. CASE loc[q].for = "sbrk"
    <3>1. pc[q] \in {"alloc", "map"}
      <4>1. pc[q] \in PC /\ LocInv(q)
        BY DEF TypeOK, ProcInv
      <4>2. NoLocals.for # "sbrk"
        BY NoLocalsFacts
      <4> QED
        BY <4>1, <4>2, <2>1 DEF LocInv, PC
    <3>2. loc[q].pgdir = pgdir[q]
      BY <2>1, <3>1 DEF ProcInv, SpaceInv, AllocInv
    <3> QED
      BY <1>1, <3>2
  <2>2. CASE loc[q].for # "sbrk"
    <3>1. Call(q) = loc[q].pgdir
      BY <2>2 DEF Call
    <3>2. loc[q].pgdir \in DOMAIN dir => loc[q].pgdir # pgdir[p] /\ loc[q].pgdir # Call(p)
      BY <1>0, <3>1 DEF DirInv
    <3> QED
      BY <3>2 DEF SameDir
  <2> QED
    BY <2>1, <2>2
<1> QED
  BY <1>1, <1>2, Frame

\* While p takes a step on its own directories, the other processes keep their
\* invariants.
LEMMA FrameAll ==
  ASSUME \A q \in Proc : ProcInv(q), DirInv, TypeOK, NEW p \in Proc,
         \A q \in Proc : q # p => Same(q),
         \A d \in DOMAIN dir : SameDir(d) \/ d = pgdir[p] \/ d = Call(p)
  PROVE  \A q \in Proc : q # p => ProcInv(q)'
<1>1. \A q \in Proc : q # p /\ q # p => ProcInv(q)'
  BY FrameRest
<1> QED
  BY <1>1

\* What freevm(d) does to the free list and the directories.
LEMMA FreevmFacts ==
  ASSUME TypeOK, TableInv, NEW d \in DOMAIN dir, NEW more, freevm(d, more)
  PROVE  /\ free' = free \cup (Owned(d) \cup more)
         /\ DOMAIN dir' = DOMAIN dir \ {d} /\ \A e \in DOMAIN dir : e # d => dir'[e] = dir[e]
         /\ dir' \in [DOMAIN dir' -> Directory] /\ DOMAIN dir' \subseteq Page
         /\ Owned(d) \subseteq Page
         /\ TableInv'
<1>1. dir' = [e \in DOMAIN dir \ {d} |-> dir[e]]
  BY DEF freevm
<1>2. DOMAIN dir' = DOMAIN dir \ {d} /\ \A e \in DOMAIN dir : e # d => dir'[e] = dir[e]
  BY <1>1
<1>3. dir' \in [DOMAIN dir' -> Directory] /\ DOMAIN dir' \subseteq Page
  BY <1>1 DEF TypeOK
<1>4. TableInv'
  BY <1>2 DEF TableInv
<1>5. Owned(d) \subseteq Page
  <2>1. d \in Page /\ dir[d] \in Directory
    BY DEF TypeOK
  <2> QED
    BY <2>1 DEF Owned, Directory, Tables
<1> QED
  BY <1>2, <1>3, <1>4, <1>5 DEF freevm, kfree

\* What deallocuvm(d, oldsz, newsz) does: it unmaps and frees the mapped pages it finds
\* from newsz on, and leaves what is below.
LEMMA DeallocFacts ==
  ASSUME TypeOK, TableInv, NEW d \in DOMAIN dir, NEW oldsz \in Nat, NEW newsz \in Nat,
         NEW more, deallocuvm(d, oldsz, newsz, more)
  PROVE  \E V \in SUBSET VPN :
         /\ V = Victims(d, oldsz, newsz) /\ Unmaps(d, V, more)
         /\ dir' \in [DOMAIN dir' -> Directory] /\ DOMAIN dir' \subseteq Page
         /\ {dir[d].pte[v] : v \in V} \subseteq Page
         /\ TableInv'
<1>1. PICK V \in SUBSET VPN : V = Victims(d, oldsz, newsz) /\ \A v \in V : dir[d].pte[v] # Null
  <2>1. Victims(d, oldsz, newsz) \subseteq VPN
    BY DEF Victims
  <2>2. \A v \in Victims(d, oldsz, newsz) : dir[d].pte[v] # Null
    BY DEF Victims, Mapped
  <2> QED
    BY <2>1, <2>2
<1>2. dir[d] \in Directory /\ dir \in [DOMAIN dir -> Directory] /\ DOMAIN dir \subseteq Page
  BY DEF TypeOK
<1>3. /\ free' = free \cup ({dir[d].pte[v] : v \in V} \cup more)
      /\ dir' = [dir EXCEPT ![d] = Unmap(dir[d], V)]
  BY <1>1 DEF deallocuvm, kfree
<1>4. PICK f \in Directory :
        /\ f = Unmap(dir[d], V) /\ f.kpt = dir[d].kpt /\ f.pde = dir[d].pde
        /\ \A v \in VPN : f.pte[v] = IF v \in V THEN Null ELSE dir[d].pte[v]
  <2>1. PICK g \in [VPN -> Page \cup {Null}] :
          g = [v \in VPN |-> IF v \in V THEN Null ELSE dir[d].pte[v]]
    <3>1. [v \in VPN |-> IF v \in V THEN Null ELSE dir[d].pte[v]] \in [VPN -> Page \cup {Null}]
      BY <1>2 DEF Directory
    <3> QED
      BY <3>1
  <2>2. PICK h \in SUBSET VPN : h = dir[d].super \ V
    <3>1. dir[d].super \ V \in SUBSET VPN
      BY <1>2 DEF Directory
    <3> QED
      BY <3>1
  <2>3. Unmap(dir[d], V) = [dir[d] EXCEPT !.pte = g, !.super = h]
    BY <2>1, <2>2 DEF Unmap
  <2>4. [dir[d] EXCEPT !.pte = g, !.super = h] \in Directory
    BY <1>2 DEF Directory
  <2>5. LET f == [dir[d] EXCEPT !.pte = g, !.super = h] IN
        f.kpt = dir[d].kpt /\ f.pde = dir[d].pde /\ f.pte = g
    BY <1>2 DEF Directory
  <2>6. PICK f \in Directory : /\ f = Unmap(dir[d], V)
                              /\ f.kpt = dir[d].kpt /\ f.pde = dir[d].pde /\ f.pte = g
    BY <2>3, <2>4, <2>5
  <2>7. \A v \in VPN : f.pte[v] = IF v \in V THEN Null ELSE dir[d].pte[v]
    BY <2>1, <2>6
  <2> QED
    BY <2>6, <2>7
<1>5. dir' = [dir EXCEPT ![d] = f]
  BY <1>3, <1>4
<1>6. /\ DOMAIN dir' = DOMAIN dir /\ \A e \in DOMAIN dir : e # d => dir'[e] = dir[e]
      /\ dir'[d] = f /\ dir' \in [DOMAIN dir' -> Directory]
  BY <1>2, <1>5
<1>7. TableInv'
  BY <1>4, <1>6 DEF TableInv
<1>8. {dir[d].pte[v] : v \in V} \subseteq Page
  BY <1>1, <1>2 DEF Directory
<1>9. Unmaps(d, V, more)
  BY <1>1, <1>3, <1>4, <1>6 DEF Unmaps
<1> QED
  BY <1>1, <1>2, <1>6, <1>7, <1>8, <1>9

\* What setupkvm() does: a directory that maps no user page, on pages that were free.
LEMMA SetupFacts ==
  ASSUME TypeOK, TableInv, NEW d \in free, d \notin DOMAIN dir, setupkvm(d)
  PROVE  \E S \in SUBSET free :
         /\ SetsUp(d, S)
         /\ dir' \in [DOMAIN dir' -> Directory] /\ DOMAIN dir' \subseteq Page
         /\ TableInv'
<1>1. free \subseteq Page /\ dir \in [DOMAIN dir -> Directory] /\ DOMAIN dir \subseteq Page
  BY DEF TypeOK
<1>2. PICK S \in SUBSET free : S = Take(1 + KTables)
  BY DEF Take
<1>3. d \in S
  <2>1. PICK n \in Nat : n = Cardinality({y \in free : y < d}) /\ n < 1
    <3>1. IsFiniteSet(free)
      BY <1>1, Kalloc
    <3>2. IsFiniteSet({y \in free : y < d})
      BY <3>1, FS_Subset
    <3>3. Cardinality({y \in free : y < d}) \in Nat
      BY <3>2, FS_CardinalityType
    <3>4. Cardinality({y \in free : y < d}) < 1
      BY DEF setupkvm, Take
    <3> QED
      BY <3>3, <3>4
  <2>2. n < 1 + KTables
    BY <2>1, Constants
  <2> QED
    BY <1>2, <2>1, <2>2 DEF Take
<1>4. PICK f \in Directory :
        /\ f = [EmptyDir EXCEPT !.kpt = S \ {d}]
        /\ f.kpt = S \ {d} /\ \A j \in Tables : f.pde[j] = Null
        /\ \A v \in VPN : f.pte[v] = Null
  <2>1. PICK g \in SUBSET Page : g = S \ {d}
    <3>1. S \ {d} \in SUBSET Page
      BY <1>1
    <3> QED
      BY <3>1
  <2>2. PICK a \in [Tables -> Page \cup {Null}] : a = [j \in Tables |-> Null]
    <3>1. [j \in Tables |-> Null] \in [Tables -> Page \cup {Null}]
      OBVIOUS
    <3> QED
      BY <3>1
  <2>3. PICK b \in [VPN -> Page \cup {Null}] : b = [v \in VPN |-> Null]
    <3>1. [v \in VPN |-> Null] \in [VPN -> Page \cup {Null}]
      OBVIOUS
    <3> QED
      BY <3>1
  <2>4. [EmptyDir EXCEPT !.kpt = g] = [kpt |-> g, pde |-> a, pte |-> b, super |-> {}]
    <3>1. EmptyDir = [kpt |-> {}, pde |-> a, pte |-> b, super |-> {}]
      BY <2>2, <2>3 DEF EmptyDir, Tables
    <3> QED
      BY <3>1
  <2>5. [kpt |-> g, pde |-> a, pte |-> b, super |-> {}] \in Directory
    BY DEF Directory
  <2> QED
    BY <2>1, <2>2, <2>3, <2>4, <2>5
<1>5. /\ free' = free \ S
      /\ dir' = [e \in DOMAIN dir \cup {d} |-> IF e = d THEN f ELSE dir[e]]
  BY <1>2, <1>4 DEF setupkvm
<1>6. /\ DOMAIN dir' = DOMAIN dir \cup {d} /\ dir'[d] = f
      /\ \A e \in DOMAIN dir : dir'[e] = dir[e]
  BY <1>5
<1>7. dir' \in [DOMAIN dir' -> Directory] /\ DOMAIN dir' \subseteq Page
  BY <1>1, <1>5
<1>8. TableInv'
  <2> SUFFICES ASSUME NEW e \in DOMAIN dir', NEW v \in VPN, dir'[e].pte[v] # Null
               PROVE  dir'[e].pde[PDX(v)] # Null
    BY DEF TableInv
  <2>1. e # d /\ e \in DOMAIN dir
    BY <1>4, <1>6
  <2> QED
    BY <2>1, <1>6 DEF TableInv
<1>9. SetsUp(d, S)
  BY <1>3, <1>4, <1>5, <1>6 DEF SetsUp
<1> QED
  BY <1>7, <1>8, <1>9

\* What mappages() of one page does to a directory in which it is not mapped yet.
LEMMA MapFacts ==
  ASSUME TypeOK, TableInv, PageInv, NEW d \in DOMAIN dir, NEW v \in VPN, NEW mem \in Page,
         NEW perm \in SUBSET VPN, CanMap(d, v), mappages(d, v, mem, perm)
  PROVE  \E t \in Page :
         /\ Maps(d, v, t, mem)
         /\ dir' \in [DOMAIN dir' -> Directory]
         /\ TableInv'
<1>1. /\ dir \in [DOMAIN dir -> Directory] /\ dir[d] \in Directory /\ free \subseteq Page
      /\ PDX(v) \in Tables /\ Null \notin Page
  BY Constants DEF TypeOK, Tables
<1>2. PICK t \in Page :
         /\ t = IF HasTable(d, v) THEN dir[d].pde[PDX(v)] ELSE kalloc
         /\ \/ dir[d].pde[PDX(v)] = t
            \/ dir[d].pde[PDX(v)] = Null /\ t \in free
  <2>1. dir[d].pde[PDX(v)] \in Page \cup {Null}
    BY <1>1 DEF Directory
  <2>2. CASE HasTable(d, v)
    BY <2>1, <2>2 DEF HasTable
  <2>3. CASE ~HasTable(d, v)
    <3>1. CanAlloc(1) /\ dir[d].pde[PDX(v)] = Null
      BY <2>3 DEF CanMap, HasTable
    <3>2. kalloc \in free
      BY <1>1, <3>1, Kalloc
    <3> QED
      BY <1>1, <2>3, <3>1, <3>2
  <2> QED
    BY <2>2, <2>3
<1>3. /\ free' = free \ {t}
      /\ dir' = [dir EXCEPT ![d].pde[PDX(v)] = t, ![d].pte[v] = mem,
                            ![d].super = @ \cup perm]
  BY <1>2 DEF mappages
<1>4. dir[d].pde[PDX(v)] = t => t \notin free
  <2>1. dir[d].pde[PDX(v)] = t => InPde(t, d, PDX(v))
    BY <1>1 DEF InPde
  <2> QED
    BY <2>1, FreePage
<1>5. PICK f \in Directory :
        /\ f = [dir[d] EXCEPT !.pde[PDX(v)] = t, !.pte[v] = mem, !.super = @ \cup perm]
        /\ f.kpt = dir[d].kpt
        /\ \A j \in Tables : f.pde[j] = IF j = PDX(v) THEN t ELSE dir[d].pde[j]
        /\ \A w \in VPN : f.pte[w] = IF w = v THEN mem ELSE dir[d].pte[w]
  <2>1. PICK a \in [Tables -> Page \cup {Null}] : a = [dir[d].pde EXCEPT ![PDX(v)] = t]
    <3>1. [dir[d].pde EXCEPT ![PDX(v)] = t] \in [Tables -> Page \cup {Null}]
      BY <1>1 DEF Directory
    <3> QED
      BY <3>1
  <2>2. PICK b \in [VPN -> Page \cup {Null}] : b = [dir[d].pte EXCEPT ![v] = mem]
    <3>1. [dir[d].pte EXCEPT ![v] = mem] \in [VPN -> Page \cup {Null}]
      BY <1>1 DEF Directory
    <3> QED
      BY <3>1
  <2>3. PICK s \in SUBSET VPN : s = dir[d].super \cup perm
    <3>1. dir[d].super \cup perm \in SUBSET VPN
      BY <1>1 DEF Directory
    <3> QED
      BY <3>1
  <2>4. [dir[d] EXCEPT !.pde[PDX(v)] = t, !.pte[v] = mem, !.super = @ \cup perm]
          = [dir[d] EXCEPT !.pde = a, !.pte = b, !.super = s]
    BY <2>1, <2>2, <2>3, <1>1 DEF Directory
  <2>5. PICK f : f = [dir[d] EXCEPT !.pde = a, !.pte = b, !.super = s]
    OBVIOUS
  <2>6. f \in Directory /\ f.kpt = dir[d].kpt /\ f.pde = a /\ f.pte = b
    BY <1>1, <2>5 DEF Directory
  <2>7. /\ \A j \in Tables : a[j] = IF j = PDX(v) THEN t ELSE dir[d].pde[j]
        /\ \A w \in VPN : b[w] = IF w = v THEN mem ELSE dir[d].pte[w]
    BY <1>1, <2>1, <2>2 DEF Directory
  <2>8. f = [dir[d] EXCEPT !.pde[PDX(v)] = t, !.pte[v] = mem, !.super = @ \cup perm]
    BY <2>4, <2>5
  <2> QED
    BY <2>6, <2>7, <2>8
<1>6. dir' = [dir EXCEPT ![d] = f]
  BY <1>1, <1>3, <1>5
<1>7. /\ DOMAIN dir' = DOMAIN dir /\ \A e \in DOMAIN dir : e # d => dir'[e] = dir[e]
      /\ dir'[d] = f /\ dir' \in [DOMAIN dir' -> Directory]
  BY <1>1, <1>6
<1>8. TableInv'
  <2> SUFFICES ASSUME NEW w \in VPN, f.pte[w] # Null PROVE f.pde[PDX(w)] # Null
    BY <1>7 DEF TableInv
  <2>1. PDX(w) \in Tables
    BY DEF Tables
  <2> QED
    BY <2>1, <1>1, <1>5 DEF TableInv
<1>9. \/ dir[d].pde[PDX(v)] = t /\ free' = free
      \/ dir[d].pde[PDX(v)] = Null /\ t \in free /\ free' = free \ {t}
  BY <1>2, <1>3, <1>4
<1>10. Maps(d, v, t, mem)
  BY <1>5, <1>7, <1>9 DEF Maps
<1> QED
  BY <1>7, <1>8, <1>10

-----------------------------------------------------------------------------
(***************************************************************************)
(* Steps that move no page                                                 *)
(***************************************************************************)
Others(p) == \A q \in Proc : q # p => Same(q)

\* No page changes its use.
Quiet ==
  /\ UNCHANGED <<free, lost, kstack>> /\ DOMAIN dir' = DOMAIN dir
  /\ \A d \in DOMAIN dir : /\ dir'[d].kpt = dir[d].kpt /\ dir'[d].pde = dir[d].pde
                           /\ dir'[d].pte = dir[d].pte
  /\ \A q \in Proc : loc'[q].mem = loc[q].mem

\* A step that moves no page, such as switchuvm() or yield(), keeps one use per page.
LEMMA QuietFacts ==
  ASSUME PageInv, TableInv, Quiet
  PROVE  PageInv' /\ TableInv'
<1>1. TableInv'
  BY DEF TableInv, Quiet
<1>2. \A x : /\ \A q : Stack(x, q)' <=> Stack(x, q)
             /\ \A q : Mem(x, q)' <=> Mem(x, q)
             /\ \A d : InKpt(x, d)' <=> InKpt(x, d)
             /\ \A d, j : InPde(x, d, j)' <=> InPde(x, d, j)
             /\ \A d, j : InPte(x, d, j)' <=> InPte(x, d, j)
  BY DEF Quiet, Stack, Mem, InKpt, InPde, InPte
<1>3. ASSUME NEW x \in Page PROVE \E k, o, i : Entry(x, k, o, i)'
  <2>1. \E k, o, i : Entry(x, k, o, i)
    BY DEF PageInv
  <2>2. /\ x \in free' <=> x \in free
        /\ x \in lost' <=> x \in lost
        /\ x \in DOMAIN dir' <=> x \in DOMAIN dir
    BY DEF Quiet
  <2> QED
    BY <1>2, <2>1, <2>2, Stays
<1>4. PageInv'
  BY <1>3 DEF PageInv
<1> QED
  BY <1>1, <1>4

\* The directories of p stay, or p exchanges the two it has.
KeepsDirs(p) ==
  \/ pgdir'[p] = pgdir[p] /\ Call(p)' = Call(p)
  \/ pgdir[p] # Null /\ Call(p) # Null /\ pgdir'[p] = Call(p) /\ Call(p)' = pgdir[p]

\* A step of p alone that moves no page keeps the invariant if it keeps what is said
\* of p.
LEMMA LocalStep ==
  ASSUME IInv, NEW p \in Proc, TypeOK', Others(p), Quiet,
         \A d \in DOMAIN dir : dir'[d] = dir[d] \/ d = Call(p),
         ProcInv(p)', KeepsDirs(p),
         pc[p] \notin ForkPC \cup {"embryo"}, pc'[p] \notin ForkPC
  PROVE  IInv'
<1> USE DEF IInv
<1>1. \A d \in DOMAIN dir : SameDir(d) \/ d = pgdir[p] \/ d = Call(p)
  BY DEF SameDir, Quiet
<1>2. \A q \in Proc : q # p => ProcInv(q)'
  BY <1>1, FrameAll DEF Others
<1>3. \A q \in Proc : q # p => pgdir'[q] = pgdir[q] /\ Call(q)' = Call(q)
  BY DEF Others, Same, Call
<1>4. DirInv'
  <2>1. DOMAIN dir' = DOMAIN dir
    BY DEF Quiet
  <2> QED
    BY <1>3, <2>1 DEF DirInv, KeepsDirs
<1>5. ForkInv'
  <2>1. \A q \in Proc : pc'[q] \in ForkPC => q # p /\ pc[q] \in ForkPC /\ loc'[q] = loc[q]
    BY DEF Others, Same
  <2>2. \A q \in Proc : pc[q] \in ForkPC => loc[q].child \in Proc /\ pc[loc[q].child] = "embryo"
    BY DEF ForkInv, TypeOK, Locals
  <2>3. \A q \in Proc : pc[q] = "embryo" => pc'[q] = "embryo"
    BY DEF Others, Same
  <2> QED
    BY <2>1, <2>2, <2>3 DEF ForkInv
<1>6. PageInv' /\ TableInv'
  BY QuietFacts
<1> QED
  BY <1>2, <1>4, <1>5, <1>6

\* A step of p that writes its own slot and locals only leaves those of the others.
LEMMA OthersFacts ==
  ASSUME TypeOK, NEW p \in Proc, NEW l, NEW here, NEW d, NEW n, NEW c, NEW s,
         pc' = [pc EXCEPT ![p] = here], loc' = [loc EXCEPT ![p] = l],
         pgdir' = [pgdir EXCEPT ![p] = d], sz' = [sz EXCEPT ![p] = n],
         cr3' = [cr3 EXCEPT ![p] = c], stale' = [stale EXCEPT ![p] = s], kstack' = kstack
  PROVE  /\ Others(p)
         /\ pc'[p] = here /\ loc'[p] = l /\ pgdir'[p] = d /\ sz'[p] = n /\ cr3'[p] = c
         /\ stale'[p] = s
         /\ here \in PC => pc' \in [Proc -> PC]
         /\ l \in Locals => loc' \in [Proc -> Locals]
         /\ d \in Page => pgdir' \in [Proc -> Page \cup {Null}]
         /\ n \in 0..KERNBASE => sz' \in [Proc -> 0..KERNBASE]
         /\ c \in Page \cup {kpgdir} => cr3' \in [Proc -> Page \cup {kpgdir}]
         /\ s \in BOOLEAN => stale' \in [Proc -> BOOLEAN]
<1>1. Others(p)
  BY DEF Others, Same, TypeOK
<1> QED
  BY <1>1 DEF TypeOK

\* The types of pc and of the locals after a step of p alone.
LEMMA TypeStep ==
  ASSUME TypeOK, Quiet, dir' \in [DOMAIN dir' -> Directory], panicked' = FALSE,
         pgdir' \in [Proc -> Page \cup {Null}], sz' \in [Proc -> 0..KERNBASE],
         cr3' \in [Proc -> Page \cup {kpgdir}], stale' \in [Proc -> BOOLEAN],
         pc' \in [Proc -> PC], loc' \in [Proc -> Locals]
  PROVE  TypeOK'
  BY DEF TypeOK, Quiet

\* switchuvm(), at the end of growproc() or of exec(), keeps the invariant.
LEMMA SwitchuvmIInv ==
  ASSUME IInv, NEW p \in Proc, Switchuvm(p)
  PROVE  IInv'
<1> USE DEF IInv
<1>1. /\ pc[p] = "switchuvm" /\ UNCHANGED <<memory, proc, loc, panicked>>
      /\ cr3' = [cr3 EXCEPT ![p] = pgdir[p]] /\ stale' = [stale EXCEPT ![p] = FALSE]
  BY DEF Switchuvm, At
<1>2. PICK here \in PC : /\ pc' = [pc EXCEPT ![p] = here]
                         /\ here = IF loc[p].for = "exec" THEN "freeold" ELSE "user"
  BY DEF Switchuvm, Goto, PC
<1>3. /\ Upto(pgdir[p], sz[p]) /\ pgdir[p] \in DOMAIN dir /\ kstack[p] # Null
      /\ loc[p] = NoLocals \/ (loc[p].for = "exec" /\ loc[p].pgdir # Null)
      /\ loc[p].mem = Null /\ (loc[p].pgdir # Null => loc[p].pgdir \in DOMAIN dir)
  BY <1>1 DEF ProcInv, SpaceInv, LocInv
<1>4. /\ Others(p) /\ pc'[p] = here /\ cr3'[p] = pgdir[p] /\ stale'[p] = FALSE
      /\ pc' \in [Proc -> PC] /\ cr3' \in [Proc -> Page \cup {kpgdir}]
      /\ stale' \in [Proc -> BOOLEAN]
  BY <1>1, <1>2, <1>3 DEF Others, Same, proc, TypeOK
<1>5. Quiet /\ dir' = dir /\ pgdir' = pgdir /\ sz' = sz /\ kstack' = kstack /\ loc' = loc
  BY <1>1 DEF Quiet, memory, proc
<1>6. TypeOK'
  BY <1>1, <1>4, <1>5 DEF TypeOK, memory, proc
<1>7. ProcInv(p)'
  <2>1. Upto(pgdir[p], sz[p])'
    BY <1>3, <1>5 DEF Upto, Mapped
  <2>2. SpaceInv(p)'
    BY <1>2, <1>4, <2>1 DEF SpaceInv
  <2>3. LocInv(p)'
    BY <1>2, <1>3, <1>4, <1>5 DEF LocInv, NoLocals
  <2>4. CpuInv(p)'
    BY <1>2, <1>4, <1>5 DEF CpuInv
  <2> QED
    BY <2>2, <2>3, <2>4 DEF ProcInv
<1>8. KeepsDirs(p)
  BY <1>5 DEF KeepsDirs, Call
<1> QED
  BY <1>1, <1>2, <1>4, <1>5, <1>6, <1>7, <1>8, LocalStep DEF ForkPC

\* A process that makes a system call has exactly the pages below its size and no
\* stale translation.
LEMMA InUserFacts ==
  ASSUME IInv, NEW p \in Proc, InUser(p)
  PROVE  /\ pc[p] = "user" /\ loc[p] = NoLocals /\ Upto(pgdir[p], sz[p]) /\ stale[p] = FALSE
         /\ cr3[p] = pgdir[p] /\ pgdir[p] \in DOMAIN dir /\ pgdir[p] \in Page
         /\ kstack[p] # Null /\ sz[p] \in 0..KERNBASE
<1> USE DEF IInv
<1>1. pc[p] = "user" /\ \E v \in VPN : Mapped(pgdir[p], v)
  BY DEF InUser, At
<1>2. loc[p] = NoLocals /\ pgdir[p] \in DOMAIN dir /\ kstack[p] # Null
  BY <1>1 DEF ProcInv, LocInv
<1>3. Upto(pgdir[p], sz[p]) /\ ~stale[p]
  BY <1>1 DEF ProcInv, SpaceInv
<1>4. cr3[p] = pgdir[p]
  BY <1>1 DEF ProcInv, CpuInv
<1> QED
  BY <1>1, <1>2, <1>3, <1>4 DEF TypeOK

\* exit() keeps the invariant: the scheduler loads kpgdir (switchkvm) before wait() may
\* free the directory.
LEMMA ExitIInv ==
  ASSUME IInv, NEW p \in Proc, Exit(p) \/ Switchkvm(p)
  PROVE  IInv'
<1> USE DEF IInv
<1>1. /\ UNCHANGED <<memory, proc, loc, panicked>>
      /\ \/ /\ pc[p] = "user" /\ pc' = [pc EXCEPT ![p] = "sched"] /\ UNCHANGED cpu
         \/ /\ pc[p] = "sched" /\ pc' = [pc EXCEPT ![p] = "zombie"]
            /\ cr3' = [cr3 EXCEPT ![p] = kpgdir] /\ stale' = [stale EXCEPT ![p] = FALSE]
  BY DEF Exit, Switchkvm, At, Goto
<1>2. pgdir[p] \in DOMAIN dir /\ kstack[p] # Null /\ loc[p] = NoLocals
  BY <1>1 DEF ProcInv, LocInv
<1>3. Quiet /\ dir' = dir /\ pgdir' = pgdir /\ sz' = sz /\ kstack' = kstack /\ loc' = loc
  BY <1>1 DEF Quiet, memory, proc
<1>4. Others(p) /\ TypeOK'
  BY <1>1, <1>3 DEF Others, Same, memory, proc, cpu, TypeOK, PC
<1>5. pc'[p] \in {"sched", "zombie"} /\ pc[p] \in {"user", "sched"}
  BY <1>1 DEF TypeOK
<1>6. ProcInv(p)'
  <2>1. SpaceInv(p)'
    BY <1>5 DEF SpaceInv
  <2>2. LocInv(p)'
    BY <1>2, <1>3, <1>5 DEF LocInv, NoLocals
  <2>3. CpuInv(p)'
    BY <1>1, <1>3 DEF CpuInv, ProcInv, cpu, TypeOK
  <2> QED
    BY <2>1, <2>2, <2>3 DEF ProcInv
<1>7. KeepsDirs(p)
  BY <1>3 DEF KeepsDirs, Call
<1> QED
  BY <1>3, <1>4, <1>5, <1>6, <1>7, LocalStep DEF ForkPC

\* A timer interrupt (yield, scheduler, switchuvm) keeps the invariant.
LEMMA YieldIInv ==
  ASSUME IInv, NEW p \in Proc, Yield(p)
  PROVE  IInv'
<1> USE DEF IInv
<1>1. /\ pc[p] \notin {"unused", "embryo", "sched", "zombie"}
      /\ UNCHANGED <<memory, proc, pc, loc, panicked>>
      /\ cr3' = [cr3 EXCEPT ![p] = pgdir[p]] /\ stale' = [stale EXCEPT ![p] = FALSE]
  BY DEF Yield
<1>2. pgdir[p] \in DOMAIN dir /\ pgdir[p] \in Page
  BY <1>1 DEF ProcInv, LocInv, TypeOK
<1>3. /\ Quiet /\ dir' = dir /\ pgdir' = pgdir /\ sz' = sz /\ kstack' = kstack /\ loc' = loc
      /\ pc' = pc
  BY <1>1 DEF Quiet, memory, proc
<1>4. \A q \in Proc : q # p => Same(q)
  BY <1>1, <1>3 DEF Same, TypeOK
<1>5. TypeOK'
  BY <1>1, <1>2, <1>3 DEF memory, TypeOK
<1>6. cr3'[p] = pgdir[p] /\ stale'[p] = FALSE
  BY <1>1 DEF TypeOK
<1>7. ProcInv(p)'
  <2>1. SpaceInv(p)'
    BY <1>3, <1>6 DEF ProcInv, SpaceInv, AllocInv, Progress, Upto, Mapped
  <2>2. LocInv(p)'
    BY <1>3 DEF ProcInv, LocInv, NoLocals
  <2>3. CpuInv(p)'
    BY <1>1, <1>3, <1>6 DEF CpuInv
  <2> QED
    BY <2>1, <2>2, <2>3 DEF ProcInv
<1>8. \A q \in Proc : ProcInv(q)'
  <2>1. \A d \in DOMAIN dir : SameDir(d)
    BY <1>3 DEF SameDir
  <2> QED
    BY <1>4, <1>7, <2>1, FrameAll
<1>9. DirInv' /\ ForkInv'
  BY <1>3 DEF DirInv, ForkInv, Call
<1>10. PageInv' /\ TableInv'
  BY <1>3, QuietFacts
<1> QED
  BY <1>5, <1>8, <1>9, <1>10

\* exec() commits and keeps the invariant: the new image becomes proc->pgdir and the old
\* one the directory still to be freed.
LEMMA ExecCommitIInv ==
  ASSUME IInv, NEW p \in Proc, ExecCommit(p)
  PROVE  IInv'
<1> USE DEF IInv
<1>1. /\ pc[p] = "commit" /\ UNCHANGED <<memory, kstack, cpu, panicked>>
      /\ loc' = [loc EXCEPT ![p] = [NoLocals EXCEPT !.for = "exec", !.pgdir = pgdir[p]]]
      /\ pgdir' = [pgdir EXCEPT ![p] = loc[p].pgdir]
      /\ sz' = [sz EXCEPT ![p] = loc[p].newsz]
      /\ pc' = [pc EXCEPT ![p] = "switchuvm"]
  BY DEF ExecCommit, At, Goto
<1>2. /\ pgdir[p] \in DOMAIN dir /\ pgdir[p] \in Page /\ kstack[p] # Null
      /\ loc[p].pgdir \in DOMAIN dir /\ loc[p].pgdir \in Page /\ loc[p].for = "stack"
      /\ loc[p].mem = Null /\ loc[p].newsz \in 0..KERNBASE
      /\ Upto(loc[p].pgdir, loc[p].newsz) /\ cr3[p] = pgdir[p] /\ stale[p] = FALSE
  <2>1. loc[p].newsz \in Nat /\ KERNBASE \in Int
    BY Constants DEF TypeOK, Locals
  <2> QED
    BY <1>1, <2>1 DEF ProcInv, SpaceInv, LocInv, CpuInv, Upto, TypeOK
<1>3. PICK l \in Locals :
        /\ l = [NoLocals EXCEPT !.for = "exec", !.pgdir = pgdir[p]]
        /\ l.for = "exec" /\ l.pgdir = pgdir[p] /\ l.mem = Null
  <2>1. PICK l : l = [NoLocals EXCEPT !.for = "exec", !.pgdir = pgdir[p]]
    OBVIOUS
  <2>2. l.for = "exec" /\ l.pgdir = pgdir[p] /\ l.mem = Null
    BY <2>1 DEF NoLocals
  <2>3. l \in Locals
    BY <1>2, <2>1, NoLocalsFacts DEF Locals
  <2> QED
    BY <2>1, <2>2, <2>3
<1>4. loc' = [loc EXCEPT ![p] = l]
  BY <1>1, <1>3
<1>5. /\ Others(p) /\ pc'[p] = "switchuvm" /\ loc'[p] = l /\ pgdir'[p] = loc[p].pgdir
      /\ sz'[p] = loc[p].newsz /\ cr3' = cr3 /\ stale' = stale
  BY <1>1, <1>4 DEF Others, Same, TypeOK, cpu
<1>6. Quiet /\ dir' = dir /\ kstack' = kstack
  BY <1>1, <1>2, <1>3, <1>5 DEF Quiet, memory, Others, Same
<1>7. TypeOK'
  BY <1>1, <1>2, <1>4, <1>6 DEF TypeOK, PC, memory, cpu
<1>8. ProcInv(p)'
  <2>1. Upto(pgdir[p], sz[p])'
    BY <1>2, <1>5, <1>6 DEF Upto, Mapped
  <2>2. SpaceInv(p)'
    BY <1>5, <2>1 DEF SpaceInv
  <2>3. LocInv(p)'
    <3>1. pgdir[p] # Null
      BY <1>2, Constants
    <3> QED
      BY <3>1, <1>2, <1>3, <1>5, <1>6 DEF LocInv
  <2>4. CpuInv(p)'
    BY <1>2, <1>3, <1>5 DEF CpuInv
  <2> QED
    BY <2>2, <2>3, <2>4 DEF ProcInv
<1>9. KeepsDirs(p)
  <2>1. Null \notin Page
    BY Constants
  <2> QED
    BY <1>2, <1>3, <1>5, <2>1 DEF KeepsDirs, Call
<1> QED
  BY <1>1, <1>5, <1>6, <1>7, <1>8, <1>9, LocalStep DEF ForkPC

\* sys_exec() keeps the invariant, with its arguments fetched or giving up before it
\* has any memory.
LEMMA SysExecIInv ==
  ASSUME IInv, NEW p \in Proc, NEW n \in ArgLens, SysExec(p, n)
  PROVE  IInv'
<1> USE DEF IInv
<1>1. /\ UNCHANGED <<memory, proc, cpu, panicked>>
      /\ loc' = [loc EXCEPT ![p] = [loc[p] EXCEPT !.arglen = n]]
      /\ pc' = [pc EXCEPT ![p] = "exec"]
  BY DEF SysExec, Goto
<1>2. /\ pc[p] = "user" /\ loc[p] = NoLocals /\ Upto(pgdir[p], sz[p]) /\ stale[p] = FALSE
      /\ cr3[p] = pgdir[p] /\ pgdir[p] \in DOMAIN dir /\ kstack[p] # Null
  BY InUserFacts DEF SysExec
<1>3. PICK l \in Locals : /\ l = [NoLocals EXCEPT !.arglen = n]
                          /\ l.for = "none" /\ l.pgdir = Null /\ l.mem = Null
                          /\ l.a = 0 /\ l.oldsz = 0
  <2>1. PICK l : l = [NoLocals EXCEPT !.arglen = n]
    OBVIOUS
  <2>2. l.for = "none" /\ l.pgdir = Null /\ l.mem = Null /\ l.a = 0 /\ l.oldsz = 0
    BY <2>1 DEF NoLocals
  <2>3. l \in Locals
    BY <2>1, NoLocalsFacts, Constants DEF Locals
  <2> QED
    BY <2>1, <2>2, <2>3
<1>4. loc' = [loc EXCEPT ![p] = l]
  BY <1>1, <1>2, <1>3
<1>5. Others(p) /\ pc'[p] = "exec" /\ loc'[p] = l
  BY <1>1, <1>4 DEF Others, Same, TypeOK, proc, cpu
<1>6. /\ Quiet /\ dir' = dir /\ pgdir' = pgdir /\ sz' = sz /\ kstack' = kstack
      /\ cr3' = cr3 /\ stale' = stale
  <2>1. loc[p].mem = Null /\ loc[p].pgdir = Null
    BY <1>2 DEF NoLocals
  <2> QED
    BY <1>1, <1>3, <1>5, <2>1 DEF Quiet, memory, proc, cpu, Others, Same
<1>7. TypeOK'
  BY <1>1, <1>4, <1>6 DEF TypeOK, PC, memory
<1>8. ProcInv(p)'
  <2>1. Upto(pgdir[p], sz[p])'
    BY <1>2, <1>6 DEF Upto, Mapped
  <2>2. SpaceInv(p)'
    BY <1>5, <2>1 DEF SpaceInv
  <2>3. LocInv(p)'
    BY <1>2, <1>3, <1>5, <1>6 DEF LocInv
  <2>4. CpuInv(p)'
    BY <1>2, <1>3, <1>5, <1>6 DEF CpuInv
  <2> QED
    BY <2>2, <2>3, <2>4 DEF ProcInv
<1>9. KeepsDirs(p)
  BY <1>2, <1>3, <1>5, <1>6 DEF KeepsDirs, Call, NoLocals
<1> QED
  BY <1>2, <1>5, <1>6, <1>7, <1>8, <1>9, LocalStep DEF ForkPC

-----------------------------------------------------------------------------
(***************************************************************************)
(* Steps of one process that move pages                                    *)
(***************************************************************************)
\* A step of p that keeps its directories leaves every directory with one owner.
LEMMA DirKept ==
  ASSUME IInv, NEW p \in Proc, Others(p), KeepsDirs(p), DOMAIN dir' = DOMAIN dir
  PROVE  DirInv'
<1>1. \A q \in Proc : q # p => pgdir'[q] = pgdir[q] /\ Call(q)' = Call(q)
  BY DEF Others, Same, Call
<1> QED
  BY <1>1 DEF IInv, DirInv, KeepsDirs

\* freevm() of the directory that p built or replaced leaves every other directory with
\* one owner.
LEMMA DirFreed ==
  ASSUME IInv, NEW p \in Proc, Others(p), pgdir'[p] = pgdir[p],
         Call(p) # Null, Call(p)' = Null, DOMAIN dir' = DOMAIN dir \ {Call(p)}
  PROVE  DirInv'
<1>1. \A q \in Proc : q # p => pgdir'[q] = pgdir[q] /\ Call(q)' = Call(q)
  BY DEF Others, Same, Call
<1>2. DirInv
  BY DEF IInv
<1>3. \A d \in DOMAIN dir' : \E q \in Proc : pgdir'[q] = d \/ Call(q)' = d
  BY <1>1, <1>2 DEF DirInv
<1> QED
  BY <1>1, <1>2, <1>3 DEF DirInv

\* setupkvm() in a call of p gives the new directory one owner.
LEMMA DirGained ==
  ASSUME IInv, NEW p \in Proc, NEW d, Others(p), pgdir'[p] = pgdir[p], d \notin DOMAIN dir,
         d # Null, Call(p) = Null, Call(p)' = d, DOMAIN dir' = DOMAIN dir \cup {d}
  PROVE  DirInv'
<1>1. \A q \in Proc : q # p => pgdir'[q] = pgdir[q] /\ Call(q)' = Call(q)
  BY DEF Others, Same, Call
<1>2. DirInv
  BY DEF IInv
<1>3. \A q \in Proc : pgdir[q] # d /\ Call(q) # d
  BY DEF IInv, ProcInv, LocInv, Call
<1>4. \A e \in DOMAIN dir' : \E q \in Proc : pgdir'[q] = e \/ Call(q)' = e
  <2>1. Null \notin DOMAIN dir
    BY Constants DEF IInv, TypeOK
  <2> QED
    BY <1>1, <1>2, <2>1 DEF DirInv
<1> QED
  BY <1>1, <1>2, <1>3, <1>4 DEF DirInv

\* A step of p that changes its own directories only keeps the invariant if it keeps
\* what is said of p, of pages and of directories.
LEMMA OwnStep ==
  ASSUME IInv, NEW p \in Proc, TypeOK', Others(p), PageInv', TableInv', DirInv', ProcInv(p)',
         \A d \in DOMAIN dir : SameDir(d) \/ d = pgdir[p] \/ d = Call(p),
         pc[p] # "embryo",
         pc'[p] \in ForkPC => pc[p] \in ForkPC /\ loc'[p].child = loc[p].child
  PROVE  IInv'
<1> USE DEF IInv
<1>1. \A q \in Proc : q # p => ProcInv(q)'
  BY FrameAll DEF Others
<1>2. ForkInv'
  <2>1. \A q \in Proc : pc'[q] \in ForkPC => pc[q] \in ForkPC /\ loc'[q].child = loc[q].child
    BY DEF Others, Same
  <2>2. \A q \in Proc : pc[q] \in ForkPC => loc[q].child \in Proc /\ pc[loc[q].child] = "embryo"
    BY DEF ForkInv, TypeOK, Locals
  <2>3. \A q \in Proc : pc[q] = "embryo" => pc'[q] = "embryo"
    BY DEF Others, Same
  <2> QED
    BY <2>1, <2>2, <2>3 DEF ForkInv
<1> QED
  BY <1>1, <1>2

\* The state after a system call of p returns to user mode (Return).
LEMMA ReturnFacts ==
  ASSUME TypeOK, NEW p \in Proc, Return(p), UNCHANGED <<proc, cpu>>
  PROVE  /\ Others(p) /\ pc'[p] = "user" /\ loc'[p] = NoLocals
         /\ pc' \in [Proc -> PC] /\ loc' \in [Proc -> Locals]
         /\ pgdir' = pgdir /\ sz' = sz /\ kstack' = kstack /\ cr3' = cr3 /\ stale' = stale
         /\ Call(p)' = Null
<1>1. pc' = [pc EXCEPT ![p] = "user"] /\ loc' = [loc EXCEPT ![p] = NoLocals]
  BY DEF Return, Goto
<1>2. pgdir' = pgdir /\ sz' = sz /\ kstack' = kstack /\ cr3' = cr3 /\ stale' = stale
  BY DEF proc, cpu
<1>3. pc'[p] = "user" /\ loc'[p] = NoLocals
  BY <1>1 DEF TypeOK
<1>4. pc' \in [Proc -> PC] /\ loc' \in [Proc -> Locals]
  BY <1>1, NoLocalsFacts DEF TypeOK, PC
<1>5. Others(p)
  BY <1>1, <1>2 DEF Others, Same, TypeOK
<1>6. Call(p)' = Null
  BY <1>3, NoLocalsFacts DEF Call
<1> QED
  BY <1>2, <1>3, <1>4, <1>5, <1>6

\* A system call of p that returns with the pages below sz mapped keeps what is said
\* of p.
LEMMA ReturnProcInv ==
  ASSUME TypeOK, NEW p \in Proc, Return(p), UNCHANGED <<proc, cpu>>, Upto(pgdir[p], sz[p])',
         kstack[p] # Null, cr3[p] = pgdir[p], stale[p] = FALSE
  PROVE  ProcInv(p)'
<1>1. /\ pc'[p] = "user" /\ loc'[p] = NoLocals
      /\ pgdir' = pgdir /\ sz' = sz /\ kstack' = kstack /\ cr3' = cr3 /\ stale' = stale
  BY ReturnFacts
<1>2. SpaceInv(p)'
  BY <1>1 DEF SpaceInv
<1>3. LocInv(p)'
  <2>1. pgdir'[p] \in DOMAIN dir'
    BY DEF Upto
  <2> QED
    BY <1>1, <2>1 DEF LocInv, NoLocals
<1>4. CpuInv(p)'
  BY <1>1 DEF CpuInv
<1> QED
  BY <1>2, <1>3, <1>4 DEF ProcInv

\* The page that p holds in a local variable is freed, as allocuvm() does when
\* mappages() fails.
LEMMA DropMem ==
  ASSUME IInv, NEW p \in Proc, NEW M, M = {loc[p].mem} \ {Null}, Others(p),
         loc'[p].mem = Null, kstack' = kstack, lost' = lost
  PROVE  Dropped(M, {})
<1> USE DEF IInv
<1>1. \A x \in M : x \in Page /\ Mem(x, p)
  BY DEF TypeOK, Locals, Mem
<1>2. \A q \in Proc : kstack[q] \notin M
  <2> SUFFICES ASSUME NEW q \in Proc PROVE kstack[q] \notin M
    OBVIOUS
  <2> QED
    BY OneUse
<1>3. \A q \in Proc : q # p => loc[q].mem \notin M /\ loc'[q] = loc[q]
  <2> SUFFICES ASSUME NEW q \in Proc, q # p PROVE loc[q].mem \notin M /\ loc'[q] = loc[q]
    OBVIOUS
  <2>1. loc'[q] = loc[q]
    BY DEF Others, Same
  <2> QED
    BY <2>1, OneUse
<1>4. M = {} => loc[p].mem = Null
  OBVIOUS
<1>5. \A q \in Proc : loc'[q].mem = IF loc[q].mem \in M THEN Null ELSE loc[q].mem
  BY <1>3
<1> QED
  BY <1>1, <1>2, <1>5 DEF Dropped

\* exec() fails (goto bad) or frees the old image: freevm() and the return keep the
\* invariant.
LEMMA FreesIInv ==
  ASSUME IInv, NEW p \in Proc, pc[p] \in {"alloc", "map", "segment", "args", "freeold"},
         loc[p].for # "sbrk", freevm(loc[p].pgdir, {loc[p].mem} \ {Null}), Return(p),
         UNCHANGED <<proc, cpu, lost>>, panicked' = FALSE
  PROVE  IInv'
<1> USE DEF IInv
<1>1. PICK d : d = loc[p].pgdir
  OBVIOUS
<1>2. d \in DOMAIN dir /\ d # Null /\ Call(p) = d
  <2>1. d # Null => d \in DOMAIN dir
    BY <1>1 DEF ProcInv, LocInv
  <2>2. d # Null
    <3>1. Null \notin DOMAIN dir
      BY Constants DEF TypeOK
    <3>2. pc[p] \in {"alloc", "map", "segment", "args"} => d \in DOMAIN dir
      BY <1>1 DEF ProcInv, SpaceInv, AllocInv, Progress, Upto
    <3> QED
      BY <1>1, <3>1, <3>2 DEF ProcInv, LocInv
  <2> QED
    BY <1>1, <2>1, <2>2 DEF Call
<1>3. /\ Upto(pgdir[p], sz[p]) /\ pgdir[p] \in DOMAIN dir /\ kstack[p] # Null
      /\ cr3[p] = pgdir[p] /\ stale[p] = FALSE
  <2>1. Upto(pgdir[p], sz[p])
    BY DEF ProcInv, SpaceInv, AllocInv
  <2>2. pgdir[p] \in DOMAIN dir /\ kstack[p] # Null
    BY DEF ProcInv, LocInv
  <2>3. cr3[p] = pgdir[p] /\ stale[p] = FALSE
    BY DEF ProcInv, CpuInv, TypeOK
  <2> QED
    BY <2>1, <2>2, <2>3
<1>4. pgdir[p] # d
  <2>1. pgdir[p] # Null
    BY <1>3, Constants DEF TypeOK
  <2> QED
    BY <1>2, <2>1 DEF DirInv
<1>5. /\ Others(p) /\ pc'[p] = "user" /\ loc'[p] = NoLocals
      /\ pc' \in [Proc -> PC] /\ loc' \in [Proc -> Locals]
      /\ pgdir' = pgdir /\ sz' = sz /\ kstack' = kstack /\ cr3' = cr3 /\ stale' = stale
      /\ Call(p)' = Null
  BY ReturnFacts
<1>6. PICK M : M = {loc[p].mem} \ {Null}
  OBVIOUS
<1>7. Dropped(M, {})
  BY <1>5, <1>6, NoLocalsFacts, DropMem
<1>8. freevm(d, M)
  BY <1>1, <1>6
<1>9. /\ free' = free \cup (Owned(d) \cup M)
      /\ DOMAIN dir' = DOMAIN dir \ {d} /\ \A e \in DOMAIN dir : e # d => dir'[e] = dir[e]
      /\ dir' \in [DOMAIN dir' -> Directory] /\ DOMAIN dir' \subseteq Page
      /\ Owned(d) \subseteq Page
      /\ TableInv'
  BY <1>2, <1>8, FreevmFacts
<1>10. PageInv'
  BY <1>2, <1>7, <1>9, ReleaseDir
<1>11. TypeOK'
  <2>1. M \subseteq Page
    BY <1>7 DEF Dropped
  <2> QED
    BY <2>1, <1>5, <1>9 DEF TypeOK
<1>12. ProcInv(p)'
  <2>1. Upto(pgdir[p], sz[p])'
    BY <1>3, <1>4, <1>5, <1>9 DEF Upto, Mapped
  <2> QED
    BY <2>1, <1>3, ReturnProcInv
<1>13. DirInv'
  BY <1>2, <1>5, <1>9, DirFreed
<1>14. \A e \in DOMAIN dir : SameDir(e) \/ e = pgdir[p] \/ e = Call(p)
  BY <1>2, <1>9 DEF SameDir
<1> QED
  BY <1>5, <1>9, <1>10, <1>11, <1>12, <1>13, <1>14, OwnStep DEF ForkPC

\* deallocuvm() leaves exactly the pages below newsz of a directory that was mapped up
\* to a.
LEMMA UptoDealloc ==
  ASSUME TypeOK, NEW d \in DOMAIN dir, NEW oldsz \in Nat, NEW newsz \in Nat, NEW a \in Nat,
         Upto(d, a), newsz <= a, a <= PGROUNDUP(oldsz),
         DOMAIN dir' = DOMAIN dir,
         \A v \in VPN : dir'[d].pte[v] =
           IF v \in Victims(d, oldsz, newsz) THEN Null ELSE dir[d].pte[v]
  PROVE  \A v \in VPN : dir'[d].pte[v] # Null <=> v * PGSIZE < newsz
<1> SUFFICES ASSUME NEW v \in VPN PROVE dir'[d].pte[v] # Null <=> v * PGSIZE < newsz
  OBVIOUS
<1>1. v \in Int
  BY Constants DEF VPN
<1>2. PICK k \in Int : k = v * PGSIZE
  BY <1>1, PageOrder
<1>3. PICK o \in Nat, n \in Nat : o = PGROUNDUP(oldsz) /\ n = PGROUNDUP(newsz)
  BY RoundUp
<1>4. (k < o <=> k < oldsz) /\ (k < n <=> k < newsz)
  BY <1>1, <1>2, <1>3, BelowRoundUp
<1>5. dir[d].pte[v] # Null <=> k < a
  BY <1>2 DEF Upto, Mapped
<1>6. v \in Victims(d, oldsz, newsz) <=> k >= n /\ k < oldsz /\ dir[d].pte[v] # Null
  BY <1>2, <1>3 DEF Victims, Mapped
<1>7. dir'[d].pte[v] # Null <=> k < a /\ ~(k >= n /\ k < oldsz)
  BY <1>5, <1>6
<1> QED
  BY <1>2, <1>3, <1>4, <1>7

\* sbrk() cannot have its memory and keeps the invariant: allocuvm() gives back what
\* it took (deallocuvm(newsz, oldsz)).
LEMMA SbrkFailsIInv ==
  ASSUME IInv, NEW p \in Proc, pc[p] \in {"alloc", "map"}, loc[p].for = "sbrk",
         deallocuvm(loc[p].pgdir, loc[p].newsz, loc[p].oldsz, {loc[p].mem} \ {Null}),
         Return(p), UNCHANGED <<proc, cpu, lost, panicked>>
  PROVE  IInv'
<1> USE DEF IInv
<1>1. PICK d : d = pgdir[p]
  OBVIOUS
<1>2. /\ d = loc[p].pgdir /\ d \in DOMAIN dir /\ loc[p].oldsz = sz[p]
      /\ loc[p].oldsz \in Nat /\ loc[p].newsz \in Nat /\ loc[p].a \in Nat
      /\ Upto(d, loc[p].a) /\ PGROUNDUP(loc[p].oldsz) <= loc[p].a
      /\ loc[p].a <= PGROUNDUP(loc[p].newsz)
  BY <1>1 DEF ProcInv, SpaceInv, AllocInv, Progress, Upto, TypeOK, Locals
<1>3. loc[p].oldsz <= loc[p].a
  BY <1>2, RoundUp
<1>4. kstack[p] # Null /\ cr3[p] = pgdir[p] /\ stale[p] = FALSE
  BY DEF ProcInv, LocInv, CpuInv, TypeOK
<1>5. /\ Others(p) /\ pc'[p] = "user" /\ loc'[p] = NoLocals
      /\ pc' \in [Proc -> PC] /\ loc' \in [Proc -> Locals]
      /\ pgdir' = pgdir /\ sz' = sz /\ kstack' = kstack /\ cr3' = cr3 /\ stale' = stale
      /\ Call(p)' = Null
  BY ReturnFacts
<1>6. PICK M : M = {loc[p].mem} \ {Null}
  OBVIOUS
<1>7. Dropped(M, {})
  BY <1>5, <1>6, NoLocalsFacts, DropMem
<1>8. deallocuvm(d, loc[p].newsz, loc[p].oldsz, M)
  BY <1>2, <1>6
<1>9. PICK V \in SUBSET VPN :
         /\ V = Victims(d, loc[p].newsz, loc[p].oldsz) /\ Unmaps(d, V, M)
         /\ dir' \in [DOMAIN dir' -> Directory] /\ DOMAIN dir' \subseteq Page
         /\ {dir[d].pte[v] : v \in V} \subseteq Page
         /\ TableInv'
  BY <1>2, <1>8, DeallocFacts
<1>10. PageInv'
  BY <1>2, <1>7, <1>9, ReleasePages
<1>11. TypeOK'
  <2>1. M \subseteq Page
    BY <1>7 DEF Dropped
  <2> QED
    BY <2>1, <1>5, <1>9 DEF TypeOK, Unmaps
<1>12. ProcInv(p)'
  <2>1. \A v \in VPN : dir'[d].pte[v] # Null <=> v * PGSIZE < loc[p].oldsz
    BY <1>2, <1>3, <1>9, UptoDealloc DEF Unmaps
  <2>2. Upto(pgdir[p], sz[p])'
    BY <2>1, <1>1, <1>2, <1>5, <1>9 DEF Upto, Mapped, Unmaps
  <2> QED
    BY <2>2, <1>4, ReturnProcInv
<1>13. DirInv'
  <2>1. Call(p) = Null
    BY DEF Call
  <2> QED
    BY <2>1, <1>5, <1>9, DirKept DEF KeepsDirs, Unmaps
<1>14. \A e \in DOMAIN dir : SameDir(e) \/ e = pgdir[p] \/ e = Call(p)
  BY <1>1, <1>9 DEF SameDir, Unmaps
<1> QED
  BY <1>5, <1>9, <1>10, <1>11, <1>12, <1>13, <1>14, OwnStep DEF ForkPC

\* sbrk(n) with n < 0 keeps the invariant.
LEMMA ShrinkIInv ==
  ASSUME IInv, NEW p \in Proc, NEW newsz \in Nat, InUser(p), newsz < sz[p],
         deallocuvm(pgdir[p], sz[p], newsz, {}),
         stale' = [stale EXCEPT ![p] = TRUE],
         sz' = [sz EXCEPT ![p] = IF newsz = 0 THEN @ ELSE newsz],
         pc' = [pc EXCEPT ![p] = IF newsz = 0 THEN "user" ELSE "switchuvm"],
         UNCHANGED <<lost, loc, pgdir, kstack, cr3, panicked>>
  PROVE  IInv'
<1> USE DEF IInv
<1>1. PICK d : d = pgdir[p]
  OBVIOUS
<1>2. /\ pc[p] = "user" /\ loc[p] = NoLocals /\ Upto(d, sz[p]) /\ cr3[p] = pgdir[p]
      /\ d \in DOMAIN dir /\ kstack[p] # Null /\ sz[p] \in 0..KERNBASE
  BY <1>1, InUserFacts
<1>3. PICK n \in 0..KERNBASE : sz' = [sz EXCEPT ![p] = n] /\ n = IF newsz = 0 THEN sz[p] ELSE newsz
  <2>1. PICK n : n = IF newsz = 0 THEN sz[p] ELSE newsz
    OBVIOUS
  <2>2. n \in 0..KERNBASE
    BY <1>2, <2>1, Constants
  <2> QED
    BY <2>1, <2>2
<1>4. PICK here \in {"user", "switchuvm"} :
        pc' = [pc EXCEPT ![p] = here] /\ here = IF newsz = 0 THEN "user" ELSE "switchuvm"
  OBVIOUS
<1>5. Others(p) /\ pc'[p] = here /\ sz'[p] = n /\ stale'[p] = TRUE
  BY <1>3, <1>4 DEF Others, Same, TypeOK
<1>6. Dropped({}, {})
  BY DEF Dropped
<1>7. sz[p] \in Nat /\ sz[p] <= PGROUNDUP(sz[p]) /\ newsz <= sz[p]
  BY <1>2, RoundUp
<1>8. PICK V \in SUBSET VPN :
         /\ V = Victims(d, sz[p], newsz) /\ Unmaps(d, V, {})
         /\ dir' \in [DOMAIN dir' -> Directory] /\ DOMAIN dir' \subseteq Page
         /\ {dir[d].pte[v] : v \in V} \subseteq Page
         /\ TableInv'
  BY <1>1, <1>2, <1>7, DeallocFacts
<1>9. PageInv'
  BY <1>2, <1>6, <1>8, ReleasePages
<1>10. TypeOK'
  <2>1. pc' \in [Proc -> PC] /\ sz' \in [Proc -> 0..KERNBASE] /\ stale' \in [Proc -> BOOLEAN]
    BY <1>3, <1>4 DEF TypeOK, PC
  <2> QED
    BY <2>1, <1>8 DEF TypeOK, Unmaps
<1>11. ProcInv(p)'
  <2>0. DOMAIN dir' = DOMAIN dir
    BY <1>8 DEF Unmaps
  <2>1. \A v \in VPN : dir'[d].pte[v] # Null <=> v * PGSIZE < newsz
    BY <1>2, <1>7, <1>8, UptoDealloc DEF Unmaps
  <2>2. CASE newsz # 0
    <3>1. Upto(pgdir[p], sz[p])'
      BY <2>0, <2>1, <2>2, <1>1, <1>2, <1>3, <1>5 DEF Upto, Mapped
    <3>2. SpaceInv(p)'
      BY <2>2, <3>1, <1>4, <1>5 DEF SpaceInv
    <3>3. LocInv(p)'
      BY <2>0, <2>2, <1>1, <1>2, <1>4, <1>5 DEF LocInv, NoLocals
    <3>4. CpuInv(p)'
      BY <2>2, <1>1, <1>2, <1>4, <1>5 DEF CpuInv
    <3> QED
      BY <3>2, <3>3, <3>4 DEF ProcInv
  <2>3. CASE newsz = 0
    <3>1. \A v \in VPN : dir'[d].pte[v] = Null
      <4> SUFFICES ASSUME NEW v \in VPN PROVE ~(v * PGSIZE < newsz)
        BY <2>1
      <4>1. v \in Int /\ ~(v < 0) /\ PGSIZE \in Int
        BY Constants DEF VPN
      <4>2. ~(v * PGSIZE < 0 * PGSIZE)
        BY <4>1, PageOrder
      <4> QED
        BY <2>3, <4>1, <4>2
    <3>2. SpaceInv(p)'
      BY <2>3, <3>1, <1>1, <1>4, <1>5 DEF SpaceInv, Mapped
    <3>3. LocInv(p)'
      BY <2>0, <2>3, <1>1, <1>2, <1>4, <1>5 DEF LocInv, NoLocals
    <3>4. CpuInv(p)'
      BY <2>3, <1>1, <1>2, <1>4, <1>5 DEF CpuInv
    <3> QED
      BY <3>2, <3>3, <3>4 DEF ProcInv
  <2> QED
    BY <2>2, <2>3
<1>12. DirInv'
  BY <1>5, <1>8, DirKept DEF KeepsDirs, Call, Unmaps
<1>13. \A e \in DOMAIN dir : SameDir(e) \/ e = pgdir[p] \/ e = Call(p)
  BY <1>1, <1>8 DEF SameDir, Unmaps
<1> QED
  BY <1>2, <1>5, <1>8, <1>9, <1>10, <1>11, <1>12, <1>13, OwnStep DEF ForkPC

-----------------------------------------------------------------------------
(***************************************************************************)
(* allocuvm() begins and ends                                              *)
(***************************************************************************)
\* PGROUNDUP is monotonic.
LEMMA RoundUpMono ==
  ASSUME NEW a \in Nat, NEW b \in Nat, a <= b
  PROVE  PGROUNDUP(a) <= PGROUNDUP(b)
<1>1. PICK m \in Nat, k \in Nat : PGROUNDUP(a) = m * PGSIZE /\ PGROUNDUP(b) = k * PGSIZE
  BY RoundUp
<1>2. PICK x \in Int, y \in Int : x = m * PGSIZE /\ y = k * PGSIZE
  BY PageOrder
<1>3. b <= y
  BY <1>1, <1>2, RoundUp
<1>4. y < x <=> y < a
  BY <1>1, <1>2, BelowRoundUp
<1> QED
  BY <1>1, <1>2, <1>3, <1>4

\* Unsigned arithmetic on addresses wraps at most once.
LEMMA Wrap ==
  ASSUME NEW x \in Nat, x < 2 * UINT
  PROVE  x % UINT = IF x < UINT THEN x ELSE x - UINT
<1>1. UINT \in Int /\ UINT > 0
  BY Constants
<1>2. PICK q \in Int, r \in 0..UINT-1 : r = x % UINT /\ x = UINT * q + r
  <2>1. x \div UINT \in Int /\ x % UINT \in 0..UINT-1 /\ x = UINT * (x \div UINT) + (x % UINT)
    BY <1>1
  <2> QED
    BY <2>1
<1>3. q = 0 \/ q = 1
  <2>1. ~(q <= -1)
    <3> SUFFICES ASSUME q <= -1 PROVE FALSE
      OBVIOUS
    <3>1. UINT * q <= UINT * (-1)
      BY <1>1
    <3> QED
      BY <1>1, <1>2, <3>1
  <2>2. ~(q >= 2)
    <3> SUFFICES ASSUME q >= 2 PROVE FALSE
      OBVIOUS
    <3>1. UINT * q >= UINT * 2
      BY <1>1
    <3> QED
      BY <1>1, <1>2, <3>1
  <2> QED
    BY <2>1, <2>2
<1>4. UINT * 0 = 0 /\ UINT * 1 = UINT
  BY <1>1
<1> QED
  BY <1>1, <1>2, <1>3, <1>4

\* allocuvm(d, oldsz, newsz) begins its loop at PGROUNDUP(oldsz) and keeps the
\* invariant.
LEMMA AllocuvmIInv ==
  ASSUME IInv, NEW p \in Proc, NEW for \in {"sbrk", "segment", "stack"}, NEW d \in Page,
         NEW oldsz \in Nat, NEW newsz \in Nat, pc[p] \in {"user", "segment"},
         Allocuvm(p, for, d, oldsz, newsz), UNCHANGED <<memory, proc, cpu, panicked>>,
         Upto(pgdir[p], sz[p]), stale[p] = FALSE,
         Upto(d, oldsz), oldsz <= newsz, newsz <= KERNBASE,
         for = "sbrk" => d = pgdir[p] /\ oldsz = sz[p] /\ Call(p) = Null,
         for # "sbrk" => Call(p) = d,
         for = "segment" =>
           /\ loc[p].prog # <<>> /\ SegmentOK(Head(loc[p].prog))
           /\ (Head(loc[p].prog).vaddr + Head(loc[p].prog).memsz) % UINT <= newsz,
         for = "stack" => newsz >= 2 * PGSIZE
  PROVE  IInv'
<1> USE DEF IInv
<1>1. PICK a \in Nat : a = PGROUNDUP(oldsz) /\ \E m \in Nat : a = m * PGSIZE
  BY RoundUp
<1>2. PICK l \in Locals :
        /\ l = [loc[p] EXCEPT !.for = for, !.pgdir = d, !.a = a, !.oldsz = oldsz,
                              !.newsz = newsz]
        /\ l.for = for /\ l.pgdir = d /\ l.a = a /\ l.oldsz = oldsz /\ l.newsz = newsz
        /\ l.mem = loc[p].mem /\ l.prog = loc[p].prog
  <2>1. PICK l : l = [loc[p] EXCEPT !.for = for, !.pgdir = d, !.a = a, !.oldsz = oldsz,
                                    !.newsz = newsz]
    OBVIOUS
  <2>2. loc[p] \in Locals
    BY DEF TypeOK
  <2>3. l \in Locals
    BY <2>1, <2>2 DEF Locals
  <2>4. /\ l.for = for /\ l.pgdir = d /\ l.a = a /\ l.oldsz = oldsz /\ l.newsz = newsz
        /\ l.mem = loc[p].mem /\ l.prog = loc[p].prog
    BY <2>1, <2>2 DEF Locals
  <2> QED
    BY <2>1, <2>3, <2>4
<1>3. loc' = [loc EXCEPT ![p] = l] /\ pc' = [pc EXCEPT ![p] = "alloc"]
  BY <1>1, <1>2 DEF Allocuvm, Goto
<1>4. Others(p) /\ pc'[p] = "alloc" /\ loc'[p] = l
  BY <1>3 DEF Others, Same, TypeOK, proc, cpu
<1>5. /\ Quiet /\ dir' = dir /\ pgdir' = pgdir /\ sz' = sz /\ kstack' = kstack
      /\ cr3' = cr3 /\ stale' = stale
  BY <1>2, <1>4 DEF Quiet, memory, proc, cpu, Others, Same
<1>6. TypeOK'
  BY <1>3, <1>5 DEF TypeOK, PC, memory
<1>7. /\ kstack[p] # Null /\ loc[p].mem = Null /\ pgdir[p] \in DOMAIN dir
      /\ cr3[p] = pgdir[p]
  BY DEF ProcInv, LocInv, CpuInv
<1>8. ProcInv(p)'
  <2>1. Upto(pgdir[p], sz[p])'
    BY <1>5 DEF Upto, Mapped
  <2>2. Upto(d, a)
    BY <1>1, UptoRound
  <2>3. Upto(loc[p].pgdir, loc[p].a)'
    BY <2>2, <1>2, <1>4, <1>5 DEF Upto, Mapped
  <2>4. a <= PGROUNDUP(newsz)
    BY <1>1, RoundUpMono
  <2>5. Progress(p, loc[p].newsz)'
    BY <2>3, <2>4, <1>1, <1>2, <1>4 DEF Progress
  <2>6. AllocInv(p)'
    BY <2>1, <2>5, <1>1, <1>2, <1>4, <1>5 DEF AllocInv
  <2>7. SpaceInv(p)'
    BY <2>6, <1>4 DEF SpaceInv
  <2>8. LocInv(p)'
    BY <1>2, <1>4, <1>5, <1>7 DEF LocInv, Upto
  <2>9. CpuInv(p)'
    BY <1>4, <1>5, <1>7 DEF CpuInv
  <2> QED
    BY <2>7, <2>8, <2>9 DEF ProcInv
<1>9. KeepsDirs(p)
  BY <1>2, <1>4, <1>5 DEF KeepsDirs, Call
<1> QED
  BY <1>4, <1>5, <1>6, <1>8, <1>9, LocalStep DEF ForkPC

\* sys_sbrk() and growproc() keep the invariant.
LEMMA SbrkIInv ==
  ASSUME IInv, NEW p \in Proc, NEW n \in Increments, Sbrk(p, n)
  PROVE  IInv'
<1>1. PICK newsz : newsz = (sz[p] + n) % UINT
  OBVIOUS
<1>2. InUser(p) /\ UNCHANGED <<pgdir, kstack, cr3, panicked>>
  BY DEF Sbrk
<1>3. /\ pc[p] = "user" /\ loc[p] = NoLocals /\ Upto(pgdir[p], sz[p]) /\ stale[p] = FALSE
      /\ pgdir[p] \in Page /\ sz[p] \in 0..KERNBASE
  BY <1>2, InUserFacts
<1>4. newsz \in Nat
  <2>1. UINT \in Int /\ UINT > 0 /\ sz[p] + n \in Int
    BY <1>3, Constants
  <2> QED
    BY <2>1, <1>1
<1>5. ASSUME newsz < KERNBASE, newsz >= sz[p],
             Allocuvm(p, "sbrk", pgdir[p], sz[p], newsz), UNCHANGED <<memory, sz, stale>>
      PROVE  IInv'
  <2>1. UNCHANGED <<memory, proc, cpu, panicked>>
    BY <1>2, <1>5 DEF proc, cpu
  <2>2. Call(p) = Null
    BY <1>3, NoLocalsFacts DEF Call
  <2>3. sz[p] \in Nat /\ sz[p] <= newsz /\ newsz <= KERNBASE
    BY <1>3, <1>4, <1>5, Constants
  <2> QED
    BY <2>1, <2>2, <2>3, <1>3, <1>4, <1>5, AllocuvmIInv
<1>6. ASSUME newsz < sz[p], deallocuvm(pgdir[p], sz[p], newsz, {}),
             stale' = [stale EXCEPT ![p] = TRUE],
             sz' = [sz EXCEPT ![p] = IF newsz = 0 THEN @ ELSE newsz],
             Goto(p, IF newsz = 0 THEN "user" ELSE "switchuvm"), UNCHANGED <<lost, loc>>
      PROVE  IInv'
  <2>1. pc' = [pc EXCEPT ![p] = IF newsz = 0 THEN "user" ELSE "switchuvm"]
    BY <1>6 DEF Goto
  <2> QED
    BY <2>1, <1>2, <1>4, <1>6, ShrinkIInv
<1> QED
  BY <1>1, <1>5, <1>6 DEF Sbrk

\* When the loop of allocuvm() is done, the directory maps exactly what is below newsz.
LEMMA AllocDone ==
  ASSUME IInv, NEW p \in Proc, pc[p] = "alloc", loc[p].a >= loc[p].newsz
  PROVE  /\ AllocInv(p) /\ Upto(loc[p].pgdir, loc[p].newsz) /\ loc[p].newsz \in 0..KERNBASE
         /\ loc[p].pgdir \in DOMAIN dir /\ pgdir[p] \in DOMAIN dir /\ kstack[p] # Null
         /\ loc[p].mem = Null /\ cr3[p] = pgdir[p] /\ stale[p] = FALSE
<1> USE DEF IInv
<1>1. AllocInv(p)
  BY DEF ProcInv, SpaceInv
<1>2. /\ loc[p].newsz \in Nat /\ loc[p].a \in Nat /\ Upto(loc[p].pgdir, loc[p].a)
      /\ loc[p].a <= PGROUNDUP(loc[p].newsz) /\ loc[p].newsz <= KERNBASE
  BY <1>1 DEF AllocInv, Progress, TypeOK, Locals
<1>3. loc[p].newsz <= loc[p].a
  BY <1>2
<1>4. Upto(loc[p].pgdir, loc[p].newsz)
  BY <1>2, <1>3, UptoReached
<1>5. loc[p].newsz \in 0..KERNBASE
  BY <1>2, Constants
<1>6. pgdir[p] \in DOMAIN dir /\ kstack[p] # Null /\ loc[p].mem = Null
  BY DEF ProcInv, LocInv
<1>7. cr3[p] = pgdir[p] /\ stale[p] = FALSE
  BY DEF ProcInv, CpuInv, TypeOK
<1>8. loc[p].pgdir \in DOMAIN dir
  BY <1>4 DEF Upto
<1> QED
  BY <1>1, <1>4, <1>5, <1>6, <1>7, <1>8

\* growproc() sets the new size after allocuvm() and keeps the invariant.
LEMMA SbrkDoneIInv ==
  ASSUME IInv, NEW p \in Proc, SbrkDone(p)
  PROVE  IInv'
<1> USE DEF IInv
<1>1. /\ pc[p] = "alloc" /\ loc[p].for = "sbrk" /\ loc[p].a >= loc[p].newsz
      /\ sz' = [sz EXCEPT ![p] = loc[p].newsz] /\ loc' = [loc EXCEPT ![p] = NoLocals]
      /\ pc' = [pc EXCEPT ![p] = "switchuvm"]
      /\ UNCHANGED <<memory, pgdir, kstack, cpu, panicked>>
  BY DEF SbrkDone, At, Goto
<1>2. /\ AllocInv(p) /\ Upto(loc[p].pgdir, loc[p].newsz) /\ loc[p].newsz \in 0..KERNBASE
      /\ loc[p].pgdir \in DOMAIN dir /\ pgdir[p] \in DOMAIN dir /\ kstack[p] # Null
      /\ loc[p].mem = Null /\ cr3[p] = pgdir[p] /\ stale[p] = FALSE
  BY <1>1, AllocDone
<1>3. loc[p].pgdir = pgdir[p]
  BY <1>1, <1>2 DEF AllocInv
<1>4. /\ Others(p) /\ pc'[p] = "switchuvm" /\ loc'[p] = NoLocals /\ sz'[p] = loc[p].newsz
      /\ cr3' = cr3 /\ stale' = stale
  BY <1>1 DEF Others, Same, TypeOK, cpu
<1>5. Quiet /\ dir' = dir /\ pgdir' = pgdir /\ kstack' = kstack
  BY <1>1, <1>2, <1>4, NoLocalsFacts DEF Quiet, memory, Others, Same
<1>6. TypeOK'
  BY <1>1, <1>2, <1>5, NoLocalsFacts DEF TypeOK, PC, memory, cpu
<1>7. ProcInv(p)'
  <2>1. Upto(pgdir[p], sz[p])'
    BY <1>2, <1>3, <1>4, <1>5 DEF Upto, Mapped
  <2>2. SpaceInv(p)'
    BY <1>4, <2>1 DEF SpaceInv
  <2>3. LocInv(p)'
    BY <1>2, <1>4, <1>5 DEF LocInv, NoLocals
  <2>4. CpuInv(p)'
    BY <1>2, <1>4, <1>5 DEF CpuInv
  <2> QED
    BY <2>2, <2>3, <2>4 DEF ProcInv
<1>8. KeepsDirs(p)
  BY <1>1, <1>4, <1>5, NoLocalsFacts DEF KeepsDirs, Call
<1> QED
  BY <1>1, <1>4, <1>5, <1>6, <1>7, <1>8, LocalStep DEF ForkPC

-----------------------------------------------------------------------------
(***************************************************************************)
(* exec()                                                                  *)
(***************************************************************************)
\* exec() that fails with a second image frees it and keeps the invariant.
LEMMA ExecFailsIInv ==
  ASSUME IInv, NEW p \in Proc, pc[p] \in {"alloc", "segment"}, loc[p].for # "sbrk",
         ExecFails(p), UNCHANGED <<lost, proc, cpu>>
  PROVE  IInv'
<1>1. {loc[p].mem} \ {Null} = {}
  BY DEF IInv, ProcInv, LocInv
<1>2. freevm(loc[p].pgdir, {}) /\ Return(p) /\ panicked' = FALSE
  BY DEF ExecFails, IInv, TypeOK
<1> QED
  BY <1>1, <1>2, FreesIInv

\* Between two program headers exec() has mapped exactly what is below its sz.
LEMMA SegmentFacts ==
  ASSUME IInv, NEW p \in Proc, pc[p] = "segment"
  PROVE  /\ Upto(pgdir[p], sz[p]) /\ stale[p] = FALSE
         /\ loc[p].for # "sbrk" /\ Call(p) = loc[p].pgdir /\ loc[p].pgdir \in Page
         /\ loc[p].oldsz \in 0..KERNBASE /\ Upto(loc[p].pgdir, loc[p].oldsz)
         /\ loc[p].prog \in Seq(ProgramHeader)
<1> USE DEF IInv
<1>1. Upto(pgdir[p], sz[p]) /\ loc[p].oldsz <= KERNBASE /\ Upto(loc[p].pgdir, loc[p].oldsz)
  BY DEF ProcInv, SpaceInv
<1>2. stale[p] = FALSE /\ loc[p].for # "sbrk"
  BY DEF ProcInv, LocInv, CpuInv, TypeOK
<1>3. loc[p].oldsz \in Nat /\ loc[p].prog \in Seq(ProgramHeader) /\ KERNBASE \in Int
  BY Constants DEF TypeOK, Locals
<1>4. loc[p].pgdir \in Page
  BY <1>1 DEF Upto, TypeOK
<1> QED
  BY <1>1, <1>2, <1>3, <1>4 DEF Call

\* exec() checks a program header and calls allocuvm(), and keeps the invariant.
LEMMA ExecSegmentIInv ==
  ASSUME IInv, NEW p \in Proc, ExecSegment(p)
  PROVE  IInv'
<1>1. pc[p] = "segment" /\ loc[p].prog # <<>> /\ UNCHANGED <<lost, proc, cpu>>
  BY DEF ExecSegment, At
<1>2. /\ Upto(pgdir[p], sz[p]) /\ stale[p] = FALSE
      /\ loc[p].for # "sbrk" /\ Call(p) = loc[p].pgdir /\ loc[p].pgdir \in Page
      /\ loc[p].oldsz \in 0..KERNBASE /\ Upto(loc[p].pgdir, loc[p].oldsz)
      /\ loc[p].prog \in Seq(ProgramHeader)
  BY <1>1, SegmentFacts
<1>3. PICK s \in ProgramHeader : s = Head(loc[p].prog)
  BY <1>1, <1>2
<1>4. PICK end \in Nat : end = (s.vaddr + s.memsz) % UINT
  <2>1. UINT \in Int /\ UINT > 0 /\ s.vaddr \in Int /\ s.memsz \in Int
    BY Constants DEF ProgramHeader, uint
  <2> QED
    BY <2>1
<1>5. PICK newsz : newsz = IF end < loc[p].oldsz THEN loc[p].oldsz ELSE end
  OBVIOUS
<1>6. CASE ExecFails(p)
  BY <1>1, <1>2, <1>6, ExecFailsIInv
<1>7. ASSUME SegmentOK(s), end < KERNBASE,
             Allocuvm(p, "segment", loc[p].pgdir, loc[p].oldsz, newsz),
             UNCHANGED <<free, dir, panicked>>
      PROVE  IInv'
  <2>1. UNCHANGED <<memory, proc, cpu, panicked>>
    BY <1>1, <1>7 DEF memory
  <2>2. newsz \in Nat /\ loc[p].oldsz \in Nat /\ loc[p].oldsz <= newsz /\ newsz <= KERNBASE
    BY <1>2, <1>5, <1>7, Constants
  <2>3. /\ SegmentOK(Head(loc[p].prog))
        /\ (Head(loc[p].prog).vaddr + Head(loc[p].prog).memsz) % UINT <= newsz
    <3>1. end <= newsz
      <4>1. PICK m \in Nat : m = loc[p].oldsz
        BY <2>2
      <4> QED
        BY <4>1, <1>4, <1>5
    <3> QED
      BY <3>1, <1>3, <1>4, <1>7
  <2> QED
    BY <2>1, <2>2, <2>3, <1>1, <1>2, <1>7, AllocuvmIInv
<1> QED
  BY <1>3, <1>4, <1>5, <1>6, <1>7 DEF ExecSegment

\* loaduvm() finds every page of a segment that allocuvm() has been called for: its
\* panic is not reached.
LEMMA LoadFacts ==
  ASSUME NEW d, NEW n \in 0..KERNBASE, Upto(d, n), NEW s \in ProgramHeader, SegmentOK(s),
         (s.vaddr + s.memsz) % UINT <= n, s.vaddr % PGSIZE = 0
  PROVE  loaduvmFaults(d, s) = FALSE
<1>1. PICK va \in 0..UINT-1, m \in 0..UINT-1, f \in 0..UINT-1 :
        va = s.vaddr /\ m = s.memsz /\ f = s.filesz
  BY DEF ProgramHeader, uint
<1>2. UINT \in Int /\ UINT >= 2 * KERNBASE /\ KERNBASE \in Int /\ KERNBASE > 0
  BY Constants
<1>3. PICK x \in Nat : x = va + m /\ x < 2 * UINT
  BY <1>1, <1>2
<1>4. x % UINT = IF x < UINT THEN x ELSE x - UINT
  BY <1>3, Wrap
<1>5. m >= f /\ (va + m) % UINT >= va /\ (va + m) % UINT <= n
  BY <1>1 DEF SegmentOK
<1>6. va + m < UINT /\ va + m <= n
  BY <1>1, <1>2, <1>3, <1>4, <1>5
<1>7. ASSUME NEW i \in 0..f-1 PROVE Mapped(d, ((va + i) % UINT) \div PGSIZE)
  <2>1. va + i \in Nat /\ va + i < n /\ va + i < UINT /\ va + i < 2 * UINT
    BY <1>1, <1>2, <1>5, <1>6
  <2>2. (va + i) % UINT = va + i
    BY <2>1, Wrap
  <2> QED
    BY <2>1, <2>2, ByteMapped
<1>8. \A v \in PagesAt(va, f) : Mapped(d, v)
  BY <1>7 DEF PagesAt
<1> QED
  BY <1>1, <1>8 DEF loaduvmFaults

\* loaduvm() and the next program header keep the invariant.
LEMMA ExecLoadIInv ==
  ASSUME IInv, NEW p \in Proc, ExecLoad(p)
  PROVE  IInv'
<1> USE DEF IInv
<1>1. /\ pc[p] = "alloc" /\ loc[p].for = "segment" /\ loc[p].a >= loc[p].newsz
      /\ UNCHANGED <<lost, proc, cpu>>
  BY DEF ExecLoad, At
<1>2. /\ AllocInv(p) /\ Upto(loc[p].pgdir, loc[p].newsz) /\ loc[p].newsz \in 0..KERNBASE
      /\ loc[p].pgdir \in DOMAIN dir /\ pgdir[p] \in DOMAIN dir /\ kstack[p] # Null
      /\ loc[p].mem = Null /\ cr3[p] = pgdir[p] /\ stale[p] = FALSE
  BY <1>1, AllocDone
<1>3. /\ Upto(pgdir[p], sz[p]) /\ loc[p].prog # <<>> /\ SegmentOK(Head(loc[p].prog))
      /\ (Head(loc[p].prog).vaddr + Head(loc[p].prog).memsz) % UINT <= loc[p].newsz
  BY <1>1, <1>2 DEF AllocInv
<1>4. CASE ExecFails(p)
  BY <1>1, <1>4, ExecFailsIInv
<1>5. ASSUME Head(loc[p].prog).vaddr % PGSIZE = 0,
             panicked' = loaduvmFaults(loc[p].pgdir, Head(loc[p].prog)),
             loc' = [loc EXCEPT ![p].prog = Tail(@), ![p].oldsz = loc[p].newsz],
             Goto(p, "segment"), UNCHANGED <<free, dir>>
      PROVE  IInv'
  <2>1. loc[p].prog \in Seq(ProgramHeader) /\ loc[p] \in Locals
    BY DEF TypeOK, Locals
  <2>2. Head(loc[p].prog) \in ProgramHeader /\ Tail(loc[p].prog) \in Seq(ProgramHeader)
    BY <2>1, <1>3
  <2>3. panicked' = FALSE
    BY <2>2, <1>2, <1>3, <1>5, LoadFacts
  <2>4. PICK l \in Locals :
          /\ l = [loc[p] EXCEPT !.prog = Tail(loc[p].prog), !.oldsz = loc[p].newsz]
          /\ l.for = "segment" /\ l.pgdir = loc[p].pgdir /\ l.mem = Null
          /\ l.oldsz = loc[p].newsz
    <3>1. PICK l : l = [loc[p] EXCEPT !.prog = Tail(loc[p].prog), !.oldsz = loc[p].newsz]
      OBVIOUS
    <3>2. l \in Locals
      BY <3>1, <2>1, <2>2 DEF Locals
    <3>3. /\ l.for = "segment" /\ l.pgdir = loc[p].pgdir /\ l.mem = Null
          /\ l.oldsz = loc[p].newsz
      BY <3>1, <2>1, <1>1, <1>2 DEF Locals
    <3> QED
      BY <3>1, <3>2, <3>3
  <2>5. loc' = [loc EXCEPT ![p] = l] /\ pc' = [pc EXCEPT ![p] = "segment"]
    BY <2>4, <1>5 DEF Goto
  <2>6. Others(p) /\ pc'[p] = "segment" /\ loc'[p] = l
    BY <2>5, <1>1 DEF Others, Same, TypeOK, proc, cpu
  <2>7. /\ Quiet /\ dir' = dir /\ pgdir' = pgdir /\ sz' = sz /\ kstack' = kstack
        /\ cr3' = cr3 /\ stale' = stale
    BY <2>4, <2>6, <1>1, <1>2, <1>5 DEF Quiet, proc, cpu, Others, Same
  <2>8. TypeOK'
    BY <2>3, <2>5, <2>7, <1>1, <1>5 DEF TypeOK, PC
  <2>9. ProcInv(p)'
    <3>1. Upto(pgdir[p], sz[p])' /\ Upto(loc[p].pgdir, loc[p].oldsz)'
      BY <2>4, <2>6, <2>7, <1>2, <1>3 DEF Upto, Mapped
    <3>2. loc'[p].oldsz <= KERNBASE
      BY <2>4, <2>6, <1>2, Constants
    <3>3. SpaceInv(p)'
      BY <3>1, <3>2, <2>6 DEF SpaceInv
    <3>4. LocInv(p)'
      BY <2>4, <2>6, <2>7, <1>2 DEF LocInv
    <3>5. CpuInv(p)'
      BY <2>6, <2>7, <1>2 DEF CpuInv
    <3> QED
      BY <3>3, <3>4, <3>5 DEF ProcInv
  <2>10. KeepsDirs(p)
    BY <2>4, <2>6, <2>7, <1>1 DEF KeepsDirs, Call
  <2> QED
    BY <1>1, <2>6, <2>7, <2>8, <2>9, <2>10, LocalStep DEF ForkPC
<1> QED
  BY <1>4, <1>5 DEF ExecLoad

\* exec() allocates the guard page and the stack and keeps the invariant.
LEMMA ExecStackIInv ==
  ASSUME IInv, NEW p \in Proc, ExecStack(p)
  PROVE  IInv'
<1>1. pc[p] = "segment" /\ UNCHANGED <<lost, proc, cpu>>
  BY DEF ExecStack, At
<1>2. /\ Upto(pgdir[p], sz[p]) /\ stale[p] = FALSE
      /\ loc[p].for # "sbrk" /\ Call(p) = loc[p].pgdir /\ loc[p].pgdir \in Page
      /\ loc[p].oldsz \in 0..KERNBASE /\ Upto(loc[p].pgdir, loc[p].oldsz)
  BY <1>1, SegmentFacts
<1>3. PICK top \in Nat : top = PGROUNDUP(loc[p].oldsz)
  BY <1>2, RoundUp
<1>4. Upto(loc[p].pgdir, top)
  <2>1. loc[p].oldsz \in Nat
    BY <1>2
  <2> QED
    BY <2>1, <1>2, <1>3, UptoRound
<1>5. CASE ExecFails(p)
  BY <1>1, <1>2, <1>5, ExecFailsIInv
<1>6. ASSUME top + 2 * PGSIZE < KERNBASE,
             Allocuvm(p, "stack", loc[p].pgdir, top, top + 2 * PGSIZE),
             UNCHANGED <<free, dir, panicked>>
      PROVE  IInv'
  <2>1. UNCHANGED <<memory, proc, cpu, panicked>>
    BY <1>1, <1>6 DEF memory
  <2>2. PICK newsz \in Nat : newsz = top + 2 * PGSIZE /\ top <= newsz /\ newsz <= KERNBASE
                             /\ newsz >= 2 * PGSIZE
    BY <1>6, Constants
  <2>3. Allocuvm(p, "stack", loc[p].pgdir, top, newsz)
    BY <2>2, <1>6
  <2> QED
    BY <2>1, <2>2, <2>3, <1>1, <1>2, <1>4, AllocuvmIInv
<1> QED
  BY <1>3, <1>5, <1>6 DEF ExecStack

\* clearpteu() finds the guard page, which allocuvm() has just mapped, and keeps the
\* invariant.
LEMMA ExecGuardIInv ==
  ASSUME IInv, NEW p \in Proc, ExecGuard(p)
  PROVE  IInv'
<1> USE DEF IInv
<1>1. PICK d, guard : d = loc[p].pgdir /\ guard = (loc[p].newsz - 2 * PGSIZE) \div PGSIZE
  OBVIOUS
<1>2. /\ pc[p] = "alloc" /\ loc[p].for = "stack" /\ loc[p].a >= loc[p].newsz
      /\ panicked' = ~HasTable(d, guard)
      /\ dir' = [dir EXCEPT ![d].super = @ \cup {guard}]
      /\ pc' = [pc EXCEPT ![p] = "args"]
      /\ UNCHANGED <<free, lost, proc, cpu, loc>>
  BY <1>1 DEF ExecGuard, At, Goto
<1>3. /\ AllocInv(p) /\ Upto(d, loc[p].newsz) /\ loc[p].newsz \in 0..KERNBASE
      /\ d \in DOMAIN dir /\ pgdir[p] \in DOMAIN dir /\ kstack[p] # Null
      /\ loc[p].mem = Null /\ cr3[p] = pgdir[p] /\ stale[p] = FALSE
  BY <1>1, <1>2, AllocDone
<1>4. Upto(pgdir[p], sz[p]) /\ loc[p].newsz >= 2 * PGSIZE
  BY <1>2, <1>3 DEF AllocInv
<1>5. Mapped(d, guard)
  <2>1. PICK g \in Nat : g = loc[p].newsz - 2 * PGSIZE /\ g < loc[p].newsz
    <3>1. PICK m \in Int, s \in Int : m = loc[p].newsz /\ s = PGSIZE /\ s > 0 /\ m >= 2 * s
      BY <1>3, <1>4, Constants
    <3>2. m - 2 * s \in Nat /\ m - 2 * s < m
      BY <3>1
    <3> QED
      BY <3>1, <3>2
  <2> QED
    BY <2>1, <1>1, <1>3, ByteMapped
<1>6. guard \in VPN /\ panicked' = FALSE
  BY <1>2, <1>3, <1>5 DEF Mapped, HasTable, TableInv
<1>7. PICK f \in Directory :
        /\ f = [dir[d] EXCEPT !.super = dir[d].super \cup {guard}]
        /\ f.kpt = dir[d].kpt /\ f.pde = dir[d].pde /\ f.pte = dir[d].pte
  <2>1. PICK f : f = [dir[d] EXCEPT !.super = dir[d].super \cup {guard}]
    OBVIOUS
  <2>2. dir[d] \in Directory
    BY <1>3 DEF TypeOK
  <2>3. PICK s \in SUBSET VPN : s = dir[d].super \cup {guard}
    BY <2>2, <1>6 DEF Directory
  <2>4. f = [dir[d] EXCEPT !.super = s]
    BY <2>1, <2>3
  <2>5. f \in Directory /\ f.kpt = dir[d].kpt /\ f.pde = dir[d].pde /\ f.pte = dir[d].pte
    BY <2>2, <2>4 DEF Directory
  <2> QED
    BY <2>1, <2>5
<1>8. dir' = [dir EXCEPT ![d] = f]
  BY <1>2, <1>7
<1>9. /\ DOMAIN dir' = DOMAIN dir /\ \A e \in DOMAIN dir : e # d => dir'[e] = dir[e]
      /\ dir'[d] = f /\ dir' \in [DOMAIN dir' -> Directory]
  BY <1>3, <1>8 DEF TypeOK
<1>10. Others(p) /\ pc'[p] = "args"
  BY <1>2 DEF Others, Same, TypeOK, proc, cpu
<1>11. /\ pgdir' = pgdir /\ sz' = sz /\ kstack' = kstack /\ cr3' = cr3 /\ stale' = stale
       /\ loc' = loc
  BY <1>2 DEF proc, cpu
<1>12. Quiet
  BY <1>2, <1>3, <1>7, <1>9, <1>11 DEF Quiet
<1>13. TypeOK'
  BY <1>2, <1>6, <1>9, <1>11 DEF TypeOK, PC
<1>14. ProcInv(p)'
  <2>1. \A e \in DOMAIN dir : dir'[e].pte = dir[e].pte
    BY <1>7, <1>9
  <2>2. Upto(pgdir[p], sz[p])' /\ Upto(loc[p].pgdir, loc[p].newsz)'
    BY <2>1, <1>1, <1>3, <1>4, <1>9, <1>11 DEF Upto, Mapped
  <2>3. loc'[p].newsz <= KERNBASE
    BY <1>3, <1>11, Constants
  <2>4. SpaceInv(p)'
    BY <2>2, <2>3, <1>10 DEF SpaceInv
  <2>5. LocInv(p)'
    BY <1>1, <1>2, <1>3, <1>9, <1>10, <1>11 DEF LocInv
  <2>6. CpuInv(p)'
    BY <1>3, <1>10, <1>11 DEF CpuInv
  <2> QED
    BY <2>4, <2>5, <2>6 DEF ProcInv
<1>15. KeepsDirs(p) /\ Call(p) = d
  BY <1>1, <1>2, <1>11 DEF KeepsDirs, Call
<1>16. \A e \in DOMAIN dir : dir'[e] = dir[e] \/ e = Call(p)
  BY <1>9, <1>15
<1> QED
  BY <1>2, <1>10, <1>12, <1>13, <1>14, <1>15, <1>16, LocalStep DEF ForkPC

\* copyout() of the arguments finds a page table for every user address: they lie
\* below the top of the stack, or wrap to addresses from KERNBASE on.
LEMMA CopyoutFacts ==
  ASSUME TypeOK, TableInv, NEW d \in DOMAIN dir, NEW sz0 \in 0..KERNBASE, Upto(d, sz0),
         NEW n \in 0..UINT-KERNBASE
  PROVE  copyoutFaults(d, (UINT + sz0 - n) % UINT, n) = FALSE
<1>1. UINT \in Int /\ UINT >= 2 * KERNBASE /\ KERNBASE \in Int /\ KERNBASE > 0
  BY Constants
<1>2. PICK x \in Nat : x = UINT + sz0 - n /\ x < 2 * UINT
  BY <1>1
<1>3. PICK sp : sp = x % UINT
  OBVIOUS
<1>4. sp = IF x < UINT THEN x ELSE x - UINT
  BY <1>2, <1>3, Wrap
<1>5. sp \in Nat /\ sp < UINT
  BY <1>1, <1>2, <1>4
<1>6. ASSUME NEW i \in 0..n-1 PROVE HasTable(d, ((sp + i) % UINT) \div PGSIZE)
  <2>1. PICK y \in Nat : y = sp + i /\ y < 2 * UINT
    BY <1>1, <1>5
  <2>2. PICK a : a = y % UINT
    OBVIOUS
  <2>3. a = IF y < UINT THEN y ELSE y - UINT
    BY <2>1, <2>2, Wrap
  <2>4. a \in Nat /\ (a < sz0 \/ a >= KERNBASE)
    BY <2>1, <2>3, <1>1, <1>2, <1>4
  <2>5. CASE a < sz0
    <3>1. Mapped(d, a \div PGSIZE)
      BY <2>4, <2>5, ByteMapped
    <3> QED
      BY <3>1, <2>1, <2>2 DEF Mapped, HasTable, TableInv
  <2>6. CASE a >= KERNBASE
    <3>1. a \div PGSIZE \notin VPN
      BY <2>4, <2>6, <1>1, PageOf
    <3> QED
      BY <3>1, <2>1, <2>2 DEF HasTable
  <2> QED
    BY <2>4, <2>5, <2>6
<1>7. \A v \in PagesAt(sp, n) : HasTable(d, v)
  BY <1>6 DEF PagesAt
<1> QED
  BY <1>2, <1>3, <1>7 DEF copyoutFaults

\* The copyouts of exec() succeed or fail and keep the invariant.
LEMMA ExecArgsIInv ==
  ASSUME IInv, NEW p \in Proc, ExecArgs(p)
  PROVE  IInv'
<1> USE DEF IInv
<1>1. PICK d : d = loc[p].pgdir
  OBVIOUS
<1>2. PICK sp : sp = (UINT + loc[p].newsz - loc[p].arglen) % UINT
  OBVIOUS
<1>3. /\ pc[p] = "args" /\ panicked' = copyoutFaults(d, sp, loc[p].arglen)
      /\ UNCHANGED <<lost, proc, cpu>>
  BY <1>1, <1>2 DEF ExecArgs, At
<1>4. /\ loc[p].newsz \in 0..KERNBASE /\ Upto(d, loc[p].newsz) /\ d \in DOMAIN dir
      /\ Upto(pgdir[p], sz[p]) /\ loc[p].arglen \in 0..UINT-KERNBASE
  <2>1. loc[p].newsz \in Nat /\ KERNBASE \in Int /\ loc[p].arglen \in 0..UINT-KERNBASE
    BY Constants DEF TypeOK, Locals
  <2>2. loc[p].newsz <= KERNBASE /\ Upto(d, loc[p].newsz) /\ Upto(pgdir[p], sz[p])
    BY <1>1, <1>3 DEF ProcInv, SpaceInv
  <2> QED
    BY <2>1, <2>2 DEF Upto
<1>5. /\ loc[p].for = "stack" /\ loc[p].mem = Null /\ kstack[p] # Null
      /\ pgdir[p] \in DOMAIN dir /\ cr3[p] = pgdir[p] /\ stale[p] = FALSE
  BY <1>3 DEF ProcInv, LocInv, CpuInv, TypeOK
<1>6. panicked' = FALSE
  BY <1>2, <1>3, <1>4, CopyoutFacts
<1>7. ASSUME freevm(d, {}), Return(p) PROVE IInv'
  <2>1. {loc[p].mem} \ {Null} = {}
    BY <1>5
  <2> QED
    BY <2>1, <1>1, <1>3, <1>5, <1>6, <1>7, FreesIInv
<1>8. ASSUME Goto(p, "commit"), UNCHANGED <<free, dir, loc>> PROVE IInv'
  <2>1. pc' = [pc EXCEPT ![p] = "commit"]
    BY <1>8 DEF Goto
  <2>2. /\ Quiet /\ dir' = dir /\ pgdir' = pgdir /\ sz' = sz /\ kstack' = kstack
        /\ cr3' = cr3 /\ stale' = stale /\ loc' = loc
    BY <1>3, <1>8 DEF Quiet, proc, cpu
  <2>3. Others(p) /\ pc'[p] = "commit"
    BY <2>1, <2>2 DEF Others, Same, TypeOK
  <2>4. TypeOK'
    BY <2>1, <2>2, <1>3, <1>6, <1>8 DEF TypeOK, PC
  <2>5. ProcInv(p)'
    <3>1. Upto(pgdir[p], sz[p])' /\ Upto(loc[p].pgdir, loc[p].newsz)'
      BY <2>2, <1>1, <1>4 DEF Upto, Mapped
    <3>2. loc'[p].newsz <= KERNBASE
      BY <2>2, <1>4, Constants
    <3>3. SpaceInv(p)'
      BY <3>1, <3>2, <2>3 DEF SpaceInv
    <3>4. LocInv(p)'
      BY <2>2, <2>3, <1>1, <1>4, <1>5 DEF LocInv
    <3>5. CpuInv(p)'
      BY <2>2, <2>3, <1>5 DEF CpuInv
    <3> QED
      BY <3>3, <3>4, <3>5 DEF ProcInv
  <2>6. KeepsDirs(p)
    BY <2>2 DEF KeepsDirs, Call
  <2> QED
    BY <1>3, <2>2, <2>3, <2>4, <2>5, <2>6, LocalStep DEF ForkPC
<1> QED
  BY <1>1, <1>7, <1>8 DEF ExecArgs

\* exec() frees the old image after switchuvm() and keeps the invariant.
LEMMA FreeOldIInv ==
  ASSUME IInv, NEW p \in Proc, FreeOld(p)
  PROVE  IInv'
<1>1. pc[p] = "freeold" /\ freevm(loc[p].pgdir, {}) /\ Return(p)
  BY DEF FreeOld, At
<1>2. UNCHANGED <<proc, cpu, lost>> /\ panicked' = FALSE
  BY DEF FreeOld, IInv, TypeOK
<1>3. loc[p].for # "sbrk" /\ {loc[p].mem} \ {Null} = {}
  BY <1>1 DEF IInv, ProcInv, LocInv
<1> QED
  BY <1>1, <1>2, <1>3, FreesIInv

-----------------------------------------------------------------------------
(***************************************************************************)
(* setupkvm() in fork() and exec()                                         *)
(***************************************************************************)
\* setupkvm() in copyuvm() or in exec() keeps the invariant.
LEMMA SetupIInv ==
  ASSUME IInv, NEW p \in Proc, NEW d \in free, NEW l \in Locals, NEW here,
         setupkvm(d), loc' = [loc EXCEPT ![p] = l], pc' = [pc EXCEPT ![p] = here],
         l.pgdir = d, l.mem = loc[p].mem, l.a = loc[p].a, l.oldsz = loc[p].oldsz,
         l.child = loc[p].child, UNCHANGED <<lost, proc, cpu, panicked>>,
         \/ pc[p] = "copyuvm" /\ here = "copy" /\ l.for = loc[p].for
         \/ pc[p] = "exec" /\ here = "segment" /\ l.for = "exec"
  PROVE  IInv'
<1> USE DEF IInv
<1>1. d \in Page /\ d # Null
  BY Constants DEF TypeOK
<1>2. d \notin DOMAIN dir
  BY <1>1, FreePage
<1>3. PICK S \in SUBSET free :
        /\ SetsUp(d, S)
        /\ dir' \in [DOMAIN dir' -> Directory] /\ DOMAIN dir' \subseteq Page
        /\ TableInv'
  BY <1>2, SetupFacts
<1>4. /\ Upto(pgdir[p], sz[p]) /\ pgdir[p] \in DOMAIN dir /\ kstack[p] # Null
      /\ loc[p].for = "none" /\ loc[p].pgdir = Null /\ loc[p].a = 0 /\ loc[p].oldsz = 0
      /\ loc[p].mem = Null /\ cr3[p] = pgdir[p] /\ stale[p] = FALSE
  BY DEF ProcInv, SpaceInv, LocInv, CpuInv, TypeOK
<1>5. /\ pgdir' = pgdir /\ sz' = sz /\ kstack' = kstack /\ cr3' = cr3 /\ stale' = stale
      /\ lost' = lost /\ panicked' = panicked
  BY DEF proc, cpu
<1>6. Others(p) /\ pc'[p] = here /\ loc'[p] = l
  BY <1>5 DEF Others, Same, TypeOK
<1>7. PageInv'
  <2>1. \A q \in Proc : loc'[q].mem = loc[q].mem
    BY <1>6 DEF Others, Same
  <2> QED
    BY <2>1, <1>3, <1>5, GainDir
<1>8. TypeOK'
  <2>1. free' \subseteq Page
    BY <1>3 DEF SetsUp, TypeOK
  <2>2. pc' \in [Proc -> PC] /\ loc' \in [Proc -> Locals]
    BY DEF TypeOK, PC
  <2> QED
    BY <2>1, <2>2, <1>3, <1>5 DEF TypeOK
<1>9. Call(p) = Null /\ Call(p)' = d
  BY <1>4, <1>6 DEF Call
<1>10. DirInv'
  BY <1>1, <1>2, <1>3, <1>5, <1>6, <1>9, DirGained DEF SetsUp
<1>11. ProcInv(p)'
  <2>1. Upto(pgdir[p], sz[p])'
    BY <1>2, <1>3, <1>4, <1>5 DEF Upto, Mapped, SetsUp
  <2>2. /\ d \in DOMAIN dir'
        /\ \A v \in VPN : dir'[d].pte[v] = Null /\ ~(v * PGSIZE < 0)
    <3>1. d \in DOMAIN dir' /\ \A v \in VPN : dir'[d].pte[v] = Null
      BY <1>3 DEF SetsUp
    <3>2. ASSUME NEW v \in VPN PROVE ~(v * PGSIZE < 0)
      <4>1. v \in Int /\ ~(v < 0) /\ PGSIZE \in Int
        BY Constants DEF VPN
      <4>2. ~(v * PGSIZE < 0 * PGSIZE)
        BY <4>1, PageOrder
      <4> QED
        BY <4>1, <4>2
    <3> QED
      BY <3>1, <3>2
  <2>3. Upto(loc[p].pgdir, loc[p].a)' /\ Upto(loc[p].pgdir, loc[p].oldsz)'
    BY <2>2, <1>4, <1>6 DEF Upto, Mapped
  <2>4. Progress(p, sz[p])'
    <3>1. sz[p] \in Nat
      BY Constants DEF TypeOK
    <3>2. 0 <= PGROUNDUP(sz[p])
      BY <3>1, RoundUp
    <3>3. 0 = 0 * PGSIZE
      BY Constants
    <3>4. loc'[p].a = 0 /\ sz'[p] = sz[p]
      BY <1>4, <1>5, <1>6
    <3>5. \E m \in Nat : loc'[p].a = m * PGSIZE
      BY <3>3, <3>4
    <3>6. loc'[p].a <= PGROUNDUP(sz'[p])
      BY <3>2, <3>4
    <3> QED
      BY <2>3, <3>5, <3>6 DEF Progress
  <2>5. loc'[p].oldsz <= KERNBASE
    BY <1>4, <1>6, Constants
  <2>6. SpaceInv(p)'
    BY <2>1, <2>3, <2>4, <2>5, <1>6 DEF SpaceInv
  <2>7. LocInv(p)'
    BY <2>1, <2>2, <1>4, <1>5, <1>6 DEF LocInv, Upto
  <2>8. CpuInv(p)'
    BY <1>4, <1>5, <1>6 DEF CpuInv
  <2> QED
    BY <2>6, <2>7, <2>8 DEF ProcInv
<1>12. \A e \in DOMAIN dir : SameDir(e) \/ e = pgdir[p] \/ e = Call(p)
  BY <1>3 DEF SameDir, SetsUp
<1>13. pc'[p] \in ForkPC => pc[p] \in ForkPC /\ loc'[p].child = loc[p].child
  BY <1>6 DEF ForkPC
<1> QED
  BY <1>3, <1>6, <1>7, <1>8, <1>10, <1>11, <1>12, <1>13, OwnStep

\* exec() takes a directory (setupkvm) or gives up, and keeps the invariant.
LEMMA ExecIInv ==
  ASSUME IInv, NEW p \in Proc, NEW prog \in Programs, Exec(p, prog)
  PROVE  IInv'
<1> USE DEF IInv
<1>1. pc[p] = "exec" /\ UNCHANGED <<lost, proc, cpu, panicked>>
  BY DEF Exec, At
<1>2. ASSUME NEW d \in free, setupkvm(d), Goto(p, "segment"),
             loc' = [loc EXCEPT ![p].for = "exec", ![p].pgdir = d, ![p].prog = prog]
      PROVE  IInv'
  <2>1. loc[p] \in Locals /\ d \in Page /\ prog \in Seq(ProgramHeader)
    BY Constants DEF TypeOK
  <2>2. PICK l : l = [loc[p] EXCEPT !.for = "exec", !.pgdir = d, !.prog = prog]
    OBVIOUS
  <2>3. l \in Locals
    BY <2>1, <2>2 DEF Locals
  <2>4. /\ l.for = "exec" /\ l.pgdir = d /\ l.mem = loc[p].mem /\ l.a = loc[p].a
        /\ l.oldsz = loc[p].oldsz /\ l.child = loc[p].child
    BY <2>1, <2>2 DEF Locals
  <2>5. loc' = [loc EXCEPT ![p] = l] /\ pc' = [pc EXCEPT ![p] = "segment"]
    BY <2>2, <1>2 DEF Goto
  <2> QED
    BY <2>3, <2>4, <2>5, <1>1, <1>2, SetupIInv
<1>3. ASSUME Return(p), UNCHANGED <<free, dir>> PROVE IInv'
  <2>1. /\ Upto(pgdir[p], sz[p]) /\ pgdir[p] \in DOMAIN dir /\ kstack[p] # Null
        /\ loc[p].for = "none" /\ loc[p].pgdir = Null
        /\ loc[p].mem = Null /\ cr3[p] = pgdir[p] /\ stale[p] = FALSE
    BY <1>1 DEF ProcInv, SpaceInv, LocInv, CpuInv, TypeOK
  <2>2. /\ Others(p) /\ pc'[p] = "user" /\ loc'[p] = NoLocals
        /\ pc' \in [Proc -> PC] /\ loc' \in [Proc -> Locals]
        /\ pgdir' = pgdir /\ sz' = sz /\ kstack' = kstack /\ cr3' = cr3 /\ stale' = stale
        /\ Call(p)' = Null
    BY <1>1, <1>3, ReturnFacts
  <2>3. Quiet /\ dir' = dir /\ panicked' = FALSE
    BY <2>1, <2>2, <1>1, <1>3, NoLocalsFacts DEF Quiet, Others, Same, TypeOK
  <2>4. TypeOK'
    BY <2>2, <2>3, <1>1, <1>3 DEF TypeOK
  <2>5. ProcInv(p)'
    <3>1. Upto(pgdir[p], sz[p])'
      BY <2>1, <2>2, <2>3 DEF Upto, Mapped
    <3> QED
      BY <3>1, <2>1, <1>1, <1>3, ReturnProcInv
  <2>6. KeepsDirs(p)
    BY <2>1, <2>2 DEF KeepsDirs, Call
  <2> QED
    BY <1>1, <2>2, <2>3, <2>4, <2>5, <2>6, LocalStep DEF ForkPC
<1> QED
  BY <1>2, <1>3 DEF Exec

-----------------------------------------------------------------------------
(***************************************************************************)
(* The loops of allocuvm() and copyuvm()                                   *)
(***************************************************************************)
\* kalloc() of the next page in allocuvm() or copyuvm() keeps the invariant.
LEMMA HoldIInv ==
  ASSUME IInv, NEW p \in Proc, NEW here, CanAlloc(1), free' = free \ {kalloc},
         loc' = [loc EXCEPT ![p].mem = kalloc], pc' = [pc EXCEPT ![p] = here],
         UNCHANGED <<dir, proc, cpu, lost, panicked>>,
         \/ pc[p] = "alloc" /\ here = "map" /\ loc[p].a < loc[p].newsz
         \/ pc[p] = "copy" /\ here = "copymap" /\ loc[p].a < sz[p]
  PROVE  IInv'
<1> USE DEF IInv
<1>1. PICK x \in free : x = kalloc
  BY Kalloc DEF TypeOK
<1>2. x \in Page /\ x # Null /\ loc[p] \in Locals
  BY Constants DEF TypeOK
<1>3. PICK l \in Locals :
        /\ l = [loc[p] EXCEPT !.mem = x] /\ l.mem = x
        /\ l.for = loc[p].for /\ l.pgdir = loc[p].pgdir /\ l.a = loc[p].a
        /\ l.oldsz = loc[p].oldsz /\ l.newsz = loc[p].newsz /\ l.child = loc[p].child
        /\ l.prog = loc[p].prog
  <2>1. PICK l : l = [loc[p] EXCEPT !.mem = x]
    OBVIOUS
  <2>2. l \in Locals
    BY <2>1, <1>2 DEF Locals
  <2>3. /\ l.mem = x /\ l.for = loc[p].for /\ l.pgdir = loc[p].pgdir /\ l.a = loc[p].a
        /\ l.oldsz = loc[p].oldsz /\ l.newsz = loc[p].newsz /\ l.child = loc[p].child
        /\ l.prog = loc[p].prog
    BY <2>1, <1>2 DEF Locals
  <2> QED
    BY <2>1, <2>2, <2>3
<1>4. loc' = [loc EXCEPT ![p] = l]
  BY <1>1, <1>3
<1>5. /\ pgdir' = pgdir /\ sz' = sz /\ kstack' = kstack /\ cr3' = cr3 /\ stale' = stale
      /\ lost' = lost /\ dir' = dir /\ panicked' = panicked
  BY DEF proc, cpu
<1>6. Others(p) /\ pc'[p] = here /\ loc'[p] = l
  BY <1>4, <1>5 DEF Others, Same, TypeOK
<1>7. /\ pgdir[p] \in DOMAIN dir /\ kstack[p] # Null /\ loc[p].mem = Null
      /\ cr3[p] = pgdir[p] /\ stale[p] = FALSE
      /\ (loc[p].pgdir # Null => loc[p].pgdir \in DOMAIN dir)
      /\ (pc[p] = "copy" => loc[p].for = "none")
  BY DEF ProcInv, LocInv, CpuInv, TypeOK
<1>8. PageInv'
  <2>1. \A q \in Proc : q # p => loc'[q].mem = loc[q].mem
    BY <1>6 DEF Others, Same
  <2>2. loc'[p].mem = x /\ free' = free \ {x} /\ UNCHANGED <<lost, dir, kstack>>
    BY <1>1, <1>3, <1>5, <1>6
  <2> QED
    BY <2>1, <2>2, <1>7, GainMem
<1>9. TypeOK'
  <2>1. pc' \in [Proc -> PC] /\ loc' \in [Proc -> Locals]
    BY <1>4 DEF TypeOK, PC
  <2> QED
    BY <2>1, <1>5 DEF TypeOK
<1>10. ProcInv(p)'
  <2>1. SpaceInv(p)
    BY DEF ProcInv
  <2>2. SpaceInv(p)'
    <3>1. \A d, n : Upto(d, n) => /\ d \in DOMAIN dir'
                                  /\ \A v \in VPN : (v \in VPN /\ dir'[d].pte[v] # Null) <=> v * PGSIZE < n
      BY <1>5 DEF Upto, Mapped
    <3>2. Upto(pgdir[p], sz[p]) => Upto(pgdir[p], sz[p])'
      BY <3>1, <1>5 DEF Upto, Mapped
    <3>3. /\ Progress(p, loc[p].newsz) => Progress(p, loc[p].newsz)'
          /\ Progress(p, sz[p]) => Progress(p, sz[p])'
      BY <3>1, <1>3, <1>5, <1>6 DEF Progress, Upto, Mapped
    <3>4. pc[p] = "alloc" => AllocInv(p)'
      BY <2>1, <3>2, <3>3, <1>3, <1>5, <1>6 DEF SpaceInv, AllocInv
    <3> QED
      BY <2>1, <3>2, <3>3, <3>4, <1>3, <1>5, <1>6 DEF SpaceInv
  <2>3. LocInv(p)'
    BY <1>2, <1>3, <1>5, <1>6, <1>7 DEF LocInv
  <2>4. CpuInv(p)'
    BY <1>5, <1>6, <1>7 DEF CpuInv
  <2> QED
    BY <2>2, <2>3, <2>4 DEF ProcInv
<1>11. DirInv'
  BY <1>3, <1>5, <1>6, DirKept DEF KeepsDirs, Call
<1>12. TableInv' /\ \A e \in DOMAIN dir : SameDir(e)
  BY <1>5 DEF TableInv, SameDir
<1>13. pc'[p] \in ForkPC => pc[p] \in ForkPC /\ loc'[p].child = loc[p].child
  BY <1>3, <1>6 DEF ForkPC
<1> QED
  BY <1>6, <1>8, <1>9, <1>10, <1>11, <1>12, <1>13, OwnStep

\* One more page: a directory mapped up to a becomes one mapped up to a + PGSIZE, on the
\* way to n.
LEMMA NextPage ==
  ASSUME NEW m \in Nat, NEW n \in Nat, m * PGSIZE < n, n <= KERNBASE
  PROVE  /\ m \in VPN /\ (m * PGSIZE) \div PGSIZE = m
         /\ m * PGSIZE + PGSIZE = (m + 1) * PGSIZE /\ (m + 1) * PGSIZE <= PGROUNDUP(n)
         /\ \A w \in VPN : w * PGSIZE < m * PGSIZE + PGSIZE <=> w * PGSIZE < m * PGSIZE \/ w = m
<1>1. PGSIZE \in Int /\ PGSIZE > 0 /\ KERNBASE \in Int
  BY Constants
<1>2. PICK b \in Nat : KERNBASE = b * PGSIZE /\ VPN = 0..b-1
  BY UserPages
<1>3. PICK k \in Nat : PGROUNDUP(n) = k * PGSIZE /\ n <= k * PGSIZE
  BY RoundUp
<1>4. PICK x \in Int, y \in Int, z \in Int :
         x = m * PGSIZE /\ y = k * PGSIZE /\ z = (m + 1) * PGSIZE /\ z = x + PGSIZE
  BY <1>1, PageOrder
<1>5. m < k
  BY <1>3, <1>4, PageOrder
<1>6. ~(k < m + 1) /\ m + 1 \in Int
  BY <1>5
<1>7. ~(y < z)
  BY <1>4, <1>6, PageOrder
<1>8. m < b
  <2>1. b * PGSIZE \in Int
    BY PageOrder
  <2>2. m * PGSIZE < b * PGSIZE
    BY <2>1, <1>1, <1>2, <1>4
  <2> QED
    BY <2>2, PageOrder
<1>9. ASSUME NEW w \in VPN
      PROVE  w * PGSIZE < (m + 1) * PGSIZE <=> w * PGSIZE < m * PGSIZE \/ w = m
  <2>1. w \in Int
    BY <1>2
  <2>2. (w * PGSIZE < (m + 1) * PGSIZE <=> w < m + 1) /\ (w * PGSIZE < m * PGSIZE <=> w < m)
    BY <2>1, <1>6, PageOrder
  <2> QED
    BY <2>1, <2>2
<1>10. m \in VPN /\ (m * PGSIZE) \div PGSIZE = m
  BY <1>2, <1>8, PageOrder
<1>11. (m + 1) * PGSIZE <= PGROUNDUP(n)
  BY <1>3, <1>4, <1>7
<1>12. m * PGSIZE + PGSIZE = (m + 1) * PGSIZE
  BY <1>4
<1> QED
  BY <1>9, <1>10, <1>11, <1>12

\* mappages() of the next page in allocuvm() or copyuvm() keeps the invariant: the page
\* is not mapped yet, so its panic ("remap") is not reached.
LEMMA MapIInv ==
  ASSUME IInv, NEW p \in Proc, NEW here, NEW n, NEW v, NEW perm \in SUBSET VPN,
         v = loc[p].a \div PGSIZE, CanMap(loc[p].pgdir, v),
         mappages(loc[p].pgdir, v, loc[p].mem, perm),
         loc' = [loc EXCEPT ![p].mem = Null, ![p].a = @ + PGSIZE],
         pc' = [pc EXCEPT ![p] = here], UNCHANGED <<proc, cpu, lost>>,
         \/ pc[p] = "map" /\ here = "alloc" /\ n = loc[p].newsz
         \/ pc[p] = "copymap" /\ here = "copy" /\ n = sz[p]
  PROVE  IInv'
<1> USE DEF IInv
<1>1. PICK d : d = loc[p].pgdir
  OBVIOUS
<1>2. /\ pgdir[p] \in DOMAIN dir /\ kstack[p] # Null /\ loc[p].mem # Null
      /\ cr3[p] = pgdir[p] /\ stale[p] = FALSE /\ (pc[p] = "copymap" => loc[p].for = "none")
  BY DEF ProcInv, LocInv, CpuInv, TypeOK
<1>3. PICK mem \in Page : mem = loc[p].mem
  BY <1>2 DEF TypeOK, Locals
<1>4. /\ Progress(p, n) /\ loc[p].a < n /\ n <= KERNBASE /\ n \in Nat /\ loc[p].a \in Nat
      /\ (pc[p] = "map" => AllocInv(p))
      /\ (loc[p].for # "sbrk" => Upto(pgdir[p], sz[p]))
  <2>1. KERNBASE \in Int /\ sz[p] \in 0..KERNBASE /\ loc[p].newsz \in Nat /\ loc[p].a \in Nat
    BY Constants DEF TypeOK, Locals
  <2>2. CASE pc[p] = "map"
    BY <2>1, <2>2 DEF ProcInv, SpaceInv, AllocInv
  <2>3. CASE pc[p] = "copymap"
    BY <2>1, <2>3 DEF ProcInv, SpaceInv
  <2> QED
    BY <2>2, <2>3
<1>5. PICK m \in Nat : loc[p].a = m * PGSIZE
  BY <1>4 DEF Progress
<1>6. d \in DOMAIN dir /\ Upto(d, loc[p].a)
  BY <1>1, <1>4 DEF Progress, Upto
<1>7. /\ m \in VPN /\ v = m
      /\ loc[p].a + PGSIZE = (m + 1) * PGSIZE /\ (m + 1) * PGSIZE <= PGROUNDUP(n)
      /\ \A w \in VPN : w * PGSIZE < loc[p].a + PGSIZE <=> w * PGSIZE < loc[p].a \/ w = v
  BY <1>4, <1>5, NextPage
<1>8. ~Mapped(d, v) /\ dir[d].pte[v] = Null /\ v \in VPN
  BY <1>4, <1>5, <1>6, <1>7 DEF Upto, Mapped
<1>9. panicked' = FALSE
  <2>1. panicked' = Mapped(d, v)
    BY <1>1 DEF mappages
  <2> QED
    BY <2>1, <1>8 DEF Mapped
<1>10. PICK t \in Page :
        /\ Maps(d, v, t, mem)
        /\ dir' \in [DOMAIN dir' -> Directory]
        /\ TableInv'
  BY <1>1, <1>3, <1>6, <1>8, MapFacts
<1>11. PICK l \in Locals :
        /\ l = [loc[p] EXCEPT !.mem = Null, !.a = loc[p].a + PGSIZE]
        /\ l.mem = Null /\ l.a = loc[p].a + PGSIZE
        /\ l.for = loc[p].for /\ l.pgdir = d
        /\ l.oldsz = loc[p].oldsz /\ l.newsz = loc[p].newsz /\ l.child = loc[p].child
        /\ l.prog = loc[p].prog
  <2>1. PICK l : l = [loc[p] EXCEPT !.mem = Null, !.a = loc[p].a + PGSIZE]
    OBVIOUS
  <2>2. loc[p] \in Locals /\ loc[p].a + PGSIZE \in Nat
    <3>1. loc[p] \in Locals
      BY DEF TypeOK
    <3>2. loc[p].a \in Nat
      BY <3>1 DEF Locals
    <3>3. PGSIZE \in Nat
      BY Constants
    <3> QED
      BY <3>1, <3>2, <3>3
  <2>3. l \in Locals
    BY <2>1, <2>2 DEF Locals
  <2>4. /\ l.mem = Null /\ l.a = loc[p].a + PGSIZE
        /\ l.for = loc[p].for /\ l.pgdir = d
        /\ l.oldsz = loc[p].oldsz /\ l.newsz = loc[p].newsz /\ l.child = loc[p].child
        /\ l.prog = loc[p].prog
    BY <2>1, <2>2, <1>1 DEF Locals
  <2> QED
    BY <2>1, <2>3, <2>4
<1>12. loc' = [loc EXCEPT ![p] = l]
  BY <1>11
<1>13. /\ pgdir' = pgdir /\ sz' = sz /\ kstack' = kstack /\ cr3' = cr3 /\ stale' = stale
       /\ lost' = lost
  BY DEF proc, cpu
<1>14. Others(p) /\ pc'[p] = here /\ loc'[p] = l
  BY <1>12, <1>13 DEF Others, Same, TypeOK
<1>15. PageInv'
  <2>1. \A q \in Proc : q # p => loc'[q].mem = loc[q].mem
    BY <1>14 DEF Others, Same
  <2>2. loc'[p].mem = Null
    BY <1>11, <1>14
  <2> QED
    BY <2>1, <2>2, <1>3, <1>6, <1>8, <1>10, <1>13, MapPage
<1>16. TypeOK'
  <2>1. pc' \in [Proc -> PC] /\ loc' \in [Proc -> Locals]
    BY <1>12 DEF TypeOK, PC
  <2>2. free' \subseteq Page /\ DOMAIN dir' \subseteq Page
    BY <1>10 DEF TypeOK, Maps
  <2> QED
    BY <2>1, <2>2, <1>9, <1>10, <1>13 DEF TypeOK
<1>17. DOMAIN dir' = DOMAIN dir /\ \A e \in DOMAIN dir : e # d => dir'[e] = dir[e]
  BY <1>10 DEF Maps
<1>18. d = IF loc[p].for = "sbrk" THEN pgdir[p] ELSE Call(p)
  BY <1>1, <1>2, <1>4 DEF AllocInv, Call
<1>19. Upto(loc[p].pgdir, loc[p].a)'
  <2>1. \A w \in VPN : dir'[d].pte[w] = IF w = v THEN mem ELSE dir[d].pte[w]
    BY <1>10 DEF Maps
  <2>2. \A w \in VPN : dir[d].pte[w] # Null <=> w * PGSIZE < loc[p].a
    BY <1>6 DEF Upto, Mapped
  <2>3. mem # Null
    BY <1>2, <1>3
  <2>4. \A w \in VPN : dir'[d].pte[w] # Null <=> w * PGSIZE < loc[p].a + PGSIZE
    BY <2>1, <2>2, <2>3, <1>7
  <2>5. loc'[p].pgdir = d /\ loc'[p].a = loc[p].a + PGSIZE /\ d \in DOMAIN dir'
    BY <1>6, <1>11, <1>14, <1>17
  <2>6. PICK b : b = loc[p].a + PGSIZE
    OBVIOUS
  <2>7. loc'[p].a = b /\ \A w \in VPN : dir'[d].pte[w] # Null <=> w * PGSIZE < b
    BY <2>4, <2>5, <2>6
  <2> QED
    BY <2>5, <2>7 DEF Upto, Mapped
<1>20. \E k \in Nat : loc'[p].a = k * PGSIZE
  <2>1. loc'[p].a = loc[p].a + PGSIZE
    BY <1>11, <1>14
  <2>2. PICK k \in Nat : k = m + 1
    OBVIOUS
  <2>3. loc'[p].a = k * PGSIZE
    BY <2>1, <2>2, <1>7
  <2> QED
    BY <2>3
<1>21. loc'[p].a <= PGROUNDUP(n)
  BY <1>7, <1>11, <1>14
<1>22. loc[p].for # "sbrk" => Upto(pgdir[p], sz[p])'
  <2> SUFFICES ASSUME loc[p].for # "sbrk" PROVE Upto(pgdir[p], sz[p])'
    OBVIOUS
  <2>1. pgdir[p] # Null
    BY <1>2, Constants DEF TypeOK
  <2>2. pgdir[p] # d
    BY <2>1, <1>18 DEF DirInv
  <2> QED
    BY <2>2, <1>2, <1>4, <1>13, <1>17 DEF Upto, Mapped
<1>23. ProcInv(p)'
  <2>1. CASE pc[p] = "map"
    <3>1. AllocInv(p) /\ n = loc[p].newsz /\ here = "alloc"
      BY <2>1, <1>4
    <3>2. Progress(p, loc[p].newsz)'
      BY <3>1, <1>11, <1>14, <1>19, <1>20, <1>21 DEF Progress
    <3>3. PGROUNDUP(loc[p].oldsz) <= loc[p].a + PGSIZE
      <4>1. loc[p].oldsz \in Nat
        BY DEF TypeOK, Locals
      <4>2. PGROUNDUP(loc[p].oldsz) \in Nat /\ PGROUNDUP(loc[p].oldsz) <= loc[p].a
        BY <4>1, <3>1, RoundUp DEF AllocInv
      <4>3. PICK lo \in Nat, at \in Nat, page \in Nat :
              lo = PGROUNDUP(loc[p].oldsz) /\ at = loc[p].a /\ page = PGSIZE /\ lo <= at
        <5>1. loc[p].a \in Nat
          BY DEF TypeOK, Locals
        <5>2. PGSIZE \in Nat
          BY Constants
        <5> QED
          BY <4>2, <5>1, <5>2
      <4>4. lo <= at + page
        BY <4>3
      <4> QED
        BY <4>3, <4>4
    <3>4. AllocInv(p)'
      <4>1. /\ loc'[p].a = loc[p].a + PGSIZE
            /\ loc'[p].for = loc[p].for /\ loc'[p].pgdir = loc[p].pgdir
            /\ loc'[p].oldsz = loc[p].oldsz /\ loc'[p].newsz = loc[p].newsz
            /\ loc'[p].prog = loc[p].prog
        BY <1>1, <1>11, <1>14
      <4>2. PGROUNDUP(loc'[p].oldsz) <= loc'[p].a
        BY <3>3, <4>1
      <4> QED
        BY <3>1, <3>2, <4>1, <4>2, <1>13, <1>22 DEF AllocInv
    <3>5. SpaceInv(p)'
      BY <3>1, <3>4, <1>14 DEF SpaceInv
    <3>6. LocInv(p)'
      BY <3>1, <1>2, <1>6, <1>11, <1>13, <1>14, <1>17 DEF LocInv
    <3>7. CpuInv(p)'
      BY <3>1, <1>2, <1>13, <1>14 DEF CpuInv
    <3> QED
      BY <3>5, <3>6, <3>7 DEF ProcInv
  <2>2. CASE pc[p] = "copymap"
    <3>1. loc[p].for = "none" /\ n = sz[p] /\ here = "copy"
      BY <2>2, <1>2
    <3>2. Progress(p, sz[p])'
      BY <3>1, <1>13, <1>19, <1>20, <1>21 DEF Progress
    <3>3. SpaceInv(p)'
      BY <3>1, <3>2, <1>14, <1>22 DEF SpaceInv
    <3>4. LocInv(p)'
      BY <3>1, <1>2, <1>6, <1>11, <1>13, <1>14, <1>17 DEF LocInv
    <3>5. CpuInv(p)'
      BY <3>1, <1>2, <1>13, <1>14 DEF CpuInv
    <3> QED
      BY <3>3, <3>4, <3>5 DEF ProcInv
  <2> QED
    BY <2>1, <2>2
<1>24. DirInv'
  BY <1>1, <1>11, <1>13, <1>14, <1>17, DirKept DEF KeepsDirs, Call
<1>25. \A e \in DOMAIN dir : SameDir(e) \/ e = pgdir[p] \/ e = Call(p)
  BY <1>17, <1>18 DEF SameDir
<1>26. pc'[p] \in ForkPC => pc[p] \in ForkPC /\ loc'[p].child = loc[p].child
  BY <1>11, <1>14 DEF ForkPC
<1> QED
  BY <1>10, <1>14, <1>15, <1>16, <1>23, <1>24, <1>25, <1>26, OwnStep

\* allocuvm() that runs out of memory keeps the invariant, for sbrk() and for exec().
LEMMA AllocFailsIInv ==
  ASSUME IInv, NEW p \in Proc, pc[p] \in {"alloc", "map"}, AllocFails(p), Return(p),
         UNCHANGED <<proc, cpu, lost, panicked>>
  PROVE  IInv'
<1>1. panicked' = FALSE
  BY DEF IInv, TypeOK
<1>2. CASE loc[p].for = "sbrk"
  BY <1>2, SbrkFailsIInv DEF AllocFails
<1>3. CASE loc[p].for # "sbrk"
  BY <1>1, <1>3, FreesIInv DEF AllocFails
<1> QED
  BY <1>2, <1>3

\* One round of allocuvm() up to kalloc(), or its failure, keeps the invariant.
LEMMA AllocPageIInv ==
  ASSUME IInv, NEW p \in Proc, AllocPage(p)
  PROVE  IInv'
<1>1. /\ pc[p] = "alloc" /\ loc[p].a < loc[p].newsz
      /\ UNCHANGED <<proc, cpu, lost, panicked>>
  BY DEF AllocPage, At
<1>2. ASSUME CanAlloc(1), loc' = [loc EXCEPT ![p].mem = kalloc], free' = free \ {kalloc},
             Goto(p, "map"), UNCHANGED dir
      PROVE  IInv'
  <2>1. pc' = [pc EXCEPT ![p] = "map"]
    BY <1>2 DEF Goto
  <2> QED
    BY <1>1, <1>2, <2>1, HoldIInv
<1>3. ASSUME AllocFails(p), Return(p) PROVE IInv'
  BY <1>1, <1>3, AllocFailsIInv
<1> QED
  BY <1>2, <1>3 DEF AllocPage

\* The mappages() of one round of allocuvm(), or its failure, keeps the invariant.
LEMMA AllocMapIInv ==
  ASSUME IInv, NEW p \in Proc, AllocMap(p)
  PROVE  IInv'
<1>1. pc[p] = "map" /\ UNCHANGED <<proc, cpu, lost>>
  BY DEF AllocMap, At
<1>2. PICK v, n : v = loc[p].a \div PGSIZE /\ n = loc[p].newsz
  OBVIOUS
<1> PICK perm \in SUBSET VPN : perm = {}
  OBVIOUS
<1>3. ASSUME CanMap(loc[p].pgdir, v), mappages(loc[p].pgdir, v, loc[p].mem, perm),
             loc' = [loc EXCEPT ![p].mem = Null, ![p].a = @ + PGSIZE], Goto(p, "alloc")
      PROVE  IInv'
  <2>1. pc' = [pc EXCEPT ![p] = "alloc"]
    BY <1>3 DEF Goto
  <2> QED
    BY <1>1, <1>2, <1>3, <2>1, MapIInv
<1>4. ASSUME AllocFails(p), Return(p), UNCHANGED panicked PROVE IInv'
  BY <1>1, <1>4, AllocFailsIInv
<1> QED
  BY <1>2, <1>3, <1>4 DEF AllocMap

-----------------------------------------------------------------------------
(***************************************************************************)
(* fork() and wait()                                                       *)
(***************************************************************************)
\* allocproc() takes a slot and a kernel stack for fork() and keeps the invariant.
LEMMA ForkIInv ==
  ASSUME IInv, NEW p \in Proc, NEW q \in Proc, Fork(p, q)
  PROVE  IInv'
<1> USE DEF IInv
<1>1. /\ pc[q] = "unused" /\ CanAlloc(1) /\ kstack' = [kstack EXCEPT ![q] = kalloc]
      /\ free' = free \ {kalloc}
      /\ pc' = [pc EXCEPT ![p] = "copyuvm", ![q] = "embryo"]
      /\ loc' = [loc EXCEPT ![p].child = q]
      /\ UNCHANGED <<dir, lost, pgdir, sz, cr3, stale, panicked>>
  BY DEF Fork, At, cpu
<1>2. /\ pc[p] = "user" /\ loc[p] = NoLocals /\ Upto(pgdir[p], sz[p]) /\ stale[p] = FALSE
      /\ cr3[p] = pgdir[p] /\ pgdir[p] \in DOMAIN dir /\ kstack[p] # Null
  BY InUserFacts DEF Fork
<1>3. PICK x \in free : x = kalloc
  BY <1>1, Kalloc DEF TypeOK
<1>4. x \in Page /\ x # Null /\ p # q
  BY <1>1, <1>2, Constants DEF TypeOK
<1>5. /\ loc[q] = NoLocals /\ kstack[q] = Null /\ pgdir[q] = Null /\ cr3[q] = kpgdir
      /\ stale[q] = FALSE
  BY <1>1 DEF ProcInv, LocInv, CpuInv, TypeOK
<1>6. PICK l \in Locals : /\ l = [NoLocals EXCEPT !.child = q]
                          /\ l.for = "none" /\ l.pgdir = Null /\ l.mem = Null
                          /\ l.a = 0 /\ l.oldsz = 0 /\ l.child = q
  <2>1. PICK l : l = [NoLocals EXCEPT !.child = q]
    OBVIOUS
  <2>2. l \in Locals
    BY <2>1, NoLocalsFacts DEF Locals
  <2>3. /\ l.for = "none" /\ l.pgdir = Null /\ l.mem = Null /\ l.a = 0 /\ l.oldsz = 0
        /\ l.child = q
    BY <2>1 DEF NoLocals
  <2> QED
    BY <2>1, <2>2, <2>3
<1>7. loc' = [loc EXCEPT ![p] = l] /\ kstack' = [kstack EXCEPT ![q] = x]
  BY <1>1, <1>2, <1>3, <1>6
<1>8. /\ pc'[p] = "copyuvm" /\ pc'[q] = "embryo" /\ loc'[p] = l /\ loc'[q] = NoLocals
      /\ kstack'[q] = x /\ kstack'[p] = kstack[p]
      /\ \A r \in Proc : r # p /\ r # q => Same(r)
  BY <1>1, <1>4, <1>5, <1>7 DEF TypeOK, Same
<1>9. TypeOK'
  <2>1. pc' \in [Proc -> PC]
    BY <1>1 DEF TypeOK, PC
  <2>2. loc' \in [Proc -> Locals] /\ kstack' \in [Proc -> Page \cup {Null}]
    BY <1>4, <1>7 DEF TypeOK
  <2> QED
    BY <2>1, <2>2, <1>1 DEF TypeOK
<1>10. PageInv'
  <2>1. \A r \in Proc : loc'[r].mem = loc[r].mem
    BY <1>2, <1>6, <1>7, NoLocalsFacts DEF TypeOK
  <2> QED
    BY <2>1, <1>1, <1>3, <1>5, <1>7, GainStack
<1>11. ProcInv(p)'
  <2>1. Upto(pgdir[p], sz[p])'
    BY <1>1, <1>2 DEF Upto, Mapped
  <2>2. SpaceInv(p)'
    BY <2>1, <1>8 DEF SpaceInv
  <2>3. LocInv(p)'
    BY <1>1, <1>2, <1>6, <1>8 DEF LocInv
  <2>4. CpuInv(p)'
    BY <1>1, <1>2, <1>8 DEF CpuInv
  <2> QED
    BY <2>2, <2>3, <2>4 DEF ProcInv
<1>12. ProcInv(q)'
  <2>1. SpaceInv(q)'
    BY <1>8 DEF SpaceInv
  <2>2. LocInv(q)'
    BY <1>1, <1>4, <1>5, <1>8 DEF LocInv, NoLocals
  <2>3. CpuInv(q)'
    BY <1>1, <1>5, <1>8 DEF CpuInv
  <2> QED
    BY <2>1, <2>2, <2>3 DEF ProcInv
<1>13. \A r \in Proc : ProcInv(r)'
  <2>1. \A d \in DOMAIN dir : SameDir(d)
    BY <1>1 DEF SameDir
  <2>2. \A r \in Proc : r # p /\ r # q => ProcInv(r)'
    BY <2>1, <1>8, FrameRest
  <2> QED
    BY <2>2, <1>11, <1>12
<1>14. DirInv'
  <2>1. \A r \in Proc : Call(r)' = Call(r)
    BY <1>2, <1>6, <1>7, NoLocalsFacts DEF TypeOK, Call
  <2> QED
    BY <2>1, <1>1 DEF DirInv
<1>15. ForkInv'
  <2>1. \A r \in Proc : pc'[r] \in ForkPC /\ r # p => pc[r] \in ForkPC /\ loc'[r] = loc[r]
    BY <1>8 DEF Same, ForkPC
  <2>2. \A r \in Proc : pc[r] \in ForkPC => loc[r].child \in Proc /\ pc[loc[r].child] = "embryo"
    BY DEF ForkInv, TypeOK, Locals
  <2>3. \A r \in Proc : pc[r] = "embryo" => pc'[r] = "embryo" /\ r # q
    BY <1>1, <1>2, <1>8 DEF Same
  <2>4. loc'[p].child = q /\ pc'[q] = "embryo"
    BY <1>6, <1>8
  <2>5. \A r \in Proc : pc'[r] \in ForkPC /\ r # p =>
          /\ loc'[r].child = loc[r].child /\ pc[r] \in ForkPC
          /\ loc'[r].child # q /\ pc'[loc'[r].child] = "embryo"
    BY <2>1, <2>2, <2>3
  <2>6. \A r \in Proc : pc'[r] \in ForkPC => pc'[loc'[r].child] = "embryo"
    BY <2>4, <2>5
  <2>7. \A r, s \in Proc : pc'[r] \in ForkPC /\ pc'[s] \in ForkPC
                             /\ loc'[r].child = loc'[s].child => r = s
    BY <2>4, <2>5 DEF ForkInv
  <2> QED
    BY <2>6, <2>7 DEF ForkInv
<1>16. TableInv'
  BY <1>1 DEF TableInv
<1> QED
  BY <1>9, <1>10, <1>13, <1>14, <1>15, <1>16

\* A failing fork() drops the child's stack, and the page that copyuvm() held, and these
\* are two pages.
LEMMA ForkDrops ==
  ASSUME IInv, NEW p \in Proc, NEW q, q = loc[p].child, pc[p] \in ForkPC, ForkFails(p),
         lost' = lost \cup ({loc[p].mem} \ {Null})
  PROVE  /\ q \in Proc /\ q # p /\ pc[q] = "embryo" /\ kstack[q] # Null
         /\ Dropped({kstack[q]}, {loc[p].mem} \ {Null})
<1> USE DEF IInv
<1>1. q \in Proc /\ q # p /\ pc[q] = "embryo"
  BY DEF ForkInv, ForkPC, TypeOK, Locals
<1>2. kstack[q] # Null /\ loc[q].mem = Null
  BY <1>1 DEF ProcInv, LocInv
<1>3. PICK M, T : M = {kstack[q]} /\ T = {loc[p].mem} \ {Null}
  OBVIOUS
<1>4. /\ kstack' = [kstack EXCEPT ![q] = Null]
      /\ loc' = [loc EXCEPT ![p] = NoLocals]
  BY DEF ForkFails
<1>5. M \cap T = {}
  BY <1>1, <1>2, <1>3, OneUse
<1>6. \A x \in M \cup T : x \in Page /\ \E r : Stack(x, r) \/ Mem(x, r)
  <2>1. kstack[q] \in Page /\ Stack(kstack[q], q)
    BY <1>1, <1>2 DEF TypeOK, Stack
  <2>2. \A x \in T : x \in Page /\ Mem(x, p)
    BY <1>3 DEF TypeOK, Locals, Mem
  <2> QED
    BY <2>1, <2>2, <1>3
<1>7. ASSUME NEW r \in Proc
      PROVE  /\ kstack'[r] = IF kstack[r] \in M \cup T THEN Null ELSE kstack[r]
             /\ loc'[r].mem = IF loc[r].mem \in M \cup T THEN Null ELSE loc[r].mem
  <2>1. /\ kstack'[r] = IF r = q THEN Null ELSE kstack[r]
        /\ loc'[r].mem = IF r = p THEN Null ELSE loc[r].mem
    BY <1>4, NoLocalsFacts DEF TypeOK
  <2>2. kstack[r] \in M <=> r = q
    BY <1>1, <1>2, <1>3, OneUse
  <2>3. kstack[r] \notin T
    BY <1>3, OneUse
  <2>4. loc[r].mem \notin M
    BY <1>1, <1>2, <1>3, OneUse
  <2>5. loc[r].mem \in T <=> r = p /\ loc[p].mem # Null
    BY <1>3, OneUse
  <2> QED
    BY <2>1, <2>2, <2>3, <2>4, <2>5
<1>8. Dropped(M, T)
  BY <1>3, <1>5, <1>6, <1>7 DEF Dropped
<1> QED
  BY <1>1, <1>2, <1>3, <1>8

\* fork() fails: the slot is free again, and the directory that copyuvm() was filling,
\* if there is one, is gone.
LEMMA ForkFailsIInv ==
  ASSUME IInv, NEW p \in Proc, pc[p] \in ForkPC, ForkFails(p), UNCHANGED <<pgdir, sz, cpu>>,
         panicked' = FALSE, free' \subseteq Page, lost' \subseteq Page, PageInv', TableInv',
         DOMAIN dir' = DOMAIN dir \ {loc[p].pgdir},
         \A e \in DOMAIN dir : e # loc[p].pgdir => dir'[e] = dir[e],
         dir' \in [DOMAIN dir' -> Directory]
  PROVE  IInv'
<1> USE DEF IInv
<1>1. PICK q : q = loc[p].child
  OBVIOUS
<1>2. q \in Proc /\ q # p /\ pc[q] = "embryo"
  BY <1>1 DEF ForkInv, ForkPC, TypeOK, Locals
<1>3. /\ loc[q] = NoLocals /\ pgdir[q] = Null /\ cr3[q] = kpgdir /\ stale[q] = FALSE
  BY <1>2 DEF ProcInv, LocInv, CpuInv, TypeOK
<1>4. /\ kstack' = [kstack EXCEPT ![q] = Null]
      /\ pc' = [pc EXCEPT ![p] = "user", ![q] = "unused"]
      /\ loc' = [loc EXCEPT ![p] = NoLocals]
      /\ pgdir' = pgdir /\ sz' = sz /\ cr3' = cr3 /\ stale' = stale
  BY <1>1 DEF ForkFails, cpu
<1>5. /\ Upto(pgdir[p], sz[p]) /\ kstack[p] # Null /\ pgdir[p] \in DOMAIN dir
      /\ cr3[p] = pgdir[p] /\ stale[p] = FALSE /\ loc[p].for = "none"
  BY DEF ProcInv, SpaceInv, LocInv, CpuInv, TypeOK, ForkPC
<1>6. /\ pc'[p] = "user" /\ pc'[q] = "unused" /\ loc'[p] = NoLocals /\ loc'[q] = NoLocals
      /\ kstack'[q] = Null /\ kstack'[p] = kstack[p]
      /\ \A r \in Proc : r # p /\ r # q => Same(r)
  BY <1>2, <1>3, <1>4 DEF TypeOK, Same
<1>7. TypeOK'
  <2>1. pc' \in [Proc -> PC]
    BY <1>2, <1>4 DEF TypeOK, PC
  <2>2. loc' \in [Proc -> Locals] /\ kstack' \in [Proc -> Page \cup {Null}]
    BY <1>2, <1>4, NoLocalsFacts DEF TypeOK
  <2>3. DOMAIN dir' \subseteq Page
    BY DEF TypeOK
  <2> QED
    BY <2>1, <2>2, <2>3, <1>4 DEF TypeOK
<1>8. Call(p) = loc[p].pgdir
  BY <1>5 DEF Call
<1>9. pgdir[p] # loc[p].pgdir
  <2>1. pgdir[p] # Null
    BY <1>5, Constants DEF TypeOK
  <2> QED
    BY <2>1, <1>8 DEF DirInv
<1>10. ProcInv(p)'
  <2>1. Upto(pgdir[p], sz[p])'
    BY <1>4, <1>5, <1>9 DEF Upto, Mapped
  <2>2. SpaceInv(p)'
    BY <2>1, <1>4, <1>5, <1>6 DEF SpaceInv
  <2>3. LocInv(p)'
    <3>1. pgdir'[p] \in DOMAIN dir'
      BY <2>1 DEF Upto
    <3> QED
      BY <3>1, <1>5, <1>6 DEF LocInv, NoLocals
  <2>4. CpuInv(p)'
    BY <1>4, <1>5, <1>6 DEF CpuInv
  <2> QED
    BY <2>2, <2>3, <2>4 DEF ProcInv
<1>11. ProcInv(q)'
  <2>1. SpaceInv(q)'
    BY <1>6 DEF SpaceInv
  <2>2. LocInv(q)'
    BY <1>3, <1>4, <1>6 DEF LocInv, NoLocals
  <2>3. CpuInv(q)'
    BY <1>3, <1>4, <1>6 DEF CpuInv
  <2> QED
    BY <2>1, <2>2, <2>3 DEF ProcInv
<1>12. \A r \in Proc : ProcInv(r)'
  <2>1. \A d \in DOMAIN dir : SameDir(d) \/ d = pgdir[p] \/ d = Call(p)
    BY <1>8 DEF SameDir
  <2>2. \A r \in Proc : r # p /\ r # q => ProcInv(r)'
    BY <2>1, <1>2, <1>6, FrameRest
  <2> QED
    BY <2>2, <1>10, <1>11
<1>13. DirInv'
  <2>1. \A r \in Proc : Call(r)' = IF r = p THEN Null ELSE Call(r)
    BY <1>4, NoLocalsFacts DEF TypeOK, Call
  <2>2. \A d \in DOMAIN dir' : \E r \in Proc : pgdir'[r] = d \/ Call(r)' = d
    BY <2>1, <1>4, <1>8 DEF DirInv
  <2> QED
    BY <2>1, <2>2, <1>4 DEF DirInv
<1>14. ForkInv'
  <2>1. \A r \in Proc : pc'[r] \in ForkPC => /\ pc[r] \in ForkPC /\ loc'[r] = loc[r] /\ r # p
    BY <1>6 DEF Same, ForkPC
  <2>2. \A r \in Proc : pc[r] \in ForkPC => loc[r].child \in Proc /\ pc[loc[r].child] = "embryo"
    BY DEF ForkInv, TypeOK, Locals
  <2>3. \A r \in Proc : pc[r] = "embryo" /\ r # q => pc'[r] = "embryo"
    BY <1>6 DEF Same, ForkPC
  <2>4. \A r \in Proc : pc[r] \in ForkPC /\ r # p => loc[r].child # q
    BY <1>1 DEF ForkInv
  <2> QED
    BY <2>1, <2>2, <2>3, <2>4 DEF ForkInv
<1> QED
  BY <1>7, <1>12, <1>13, <1>14

\* A failing copyuvm() frees its directory (freevm), fork() the stack, and the invariant
\* is kept.
LEMMA ForkFreesIInv ==
  ASSUME IInv, NEW p \in Proc, pc[p] \in {"copy", "copymap"}, ForkFails(p),
         freevm(loc[p].pgdir, {kstack[loc[p].child]}),
         lost' = lost \cup ({loc[p].mem} \ {Null}), panicked' = FALSE,
         UNCHANGED <<pgdir, sz, cpu>>
  PROVE  IInv'
<1> USE DEF IInv
<1>1. PICK d, q, M, T : /\ d = loc[p].pgdir /\ q = loc[p].child /\ M = {kstack[q]}
                        /\ T = {loc[p].mem} \ {Null}
  OBVIOUS
<1>2. d \in DOMAIN dir
  BY <1>1 DEF ProcInv, SpaceInv, Progress, Upto
<1>3. Dropped(M, T)
  BY <1>1, ForkDrops DEF ForkPC
<1>4. freevm(d, M)
  BY <1>1
<1>5. /\ free' = free \cup (Owned(d) \cup M)
      /\ DOMAIN dir' = DOMAIN dir \ {d} /\ \A e \in DOMAIN dir : e # d => dir'[e] = dir[e]
      /\ dir' \in [DOMAIN dir' -> Directory] /\ DOMAIN dir' \subseteq Page
      /\ Owned(d) \subseteq Page
      /\ TableInv'
  BY <1>2, <1>4, FreevmFacts
<1>6. PageInv'
  BY <1>2, <1>3, <1>5, ReleaseDir
<1>7. free' \subseteq Page /\ lost' \subseteq Page
  <2>1. M \subseteq Page /\ T \subseteq Page
    BY <1>3 DEF Dropped
  <2> QED
    BY <2>1, <1>1, <1>5 DEF TypeOK
<1> QED
  BY <1>1, <1>5, <1>6, <1>7, ForkFailsIInv DEF ForkPC

\* copyuvm() takes a directory, or fork() fails, and the invariant is kept.
LEMMA CopySetupIInv ==
  ASSUME IInv, NEW p \in Proc, CopySetup(p)
  PROVE  IInv'
<1> USE DEF IInv
<1>1. pc[p] = "copyuvm" /\ UNCHANGED <<lost, pgdir, sz, cpu, panicked>>
  BY DEF CopySetup, At
<1>2. ASSUME NEW d \in free, setupkvm(d), loc' = [loc EXCEPT ![p].pgdir = d],
             Goto(p, "copy"), UNCHANGED kstack
      PROVE  IInv'
  <2>1. loc[p] \in Locals /\ d \in Page
    BY DEF TypeOK
  <2>2. PICK l : l = [loc[p] EXCEPT !.pgdir = d]
    OBVIOUS
  <2>3. l \in Locals
    BY <2>1, <2>2 DEF Locals
  <2>4. /\ l.for = loc[p].for /\ l.pgdir = d /\ l.mem = loc[p].mem /\ l.a = loc[p].a
        /\ l.oldsz = loc[p].oldsz /\ l.child = loc[p].child
    BY <2>1, <2>2 DEF Locals
  <2>5. loc' = [loc EXCEPT ![p] = l] /\ pc' = [pc EXCEPT ![p] = "copy"]
    BY <2>2, <1>2 DEF Goto
  <2>6. UNCHANGED <<lost, proc, cpu, panicked>>
    BY <1>1, <1>2 DEF proc
  <2> QED
    BY <2>3, <2>4, <2>5, <2>6, <1>1, <1>2, SetupIInv
<1>3. ASSUME ForkFails(p), kfree({kstack[loc[p].child]}), UNCHANGED dir PROVE IInv'
  <2>1. PICK q, M, T : q = loc[p].child /\ M = {kstack[q]} /\ T = {loc[p].mem} \ {Null}
    OBVIOUS
  <2>2. T = {} /\ loc[p].pgdir = Null
    BY <1>1, <2>1 DEF ProcInv, LocInv
  <2>3. Dropped(M, T)
    <3>1. lost' = lost \cup ({loc[p].mem} \ {Null})
      BY <2>1, <2>2, <1>1
    <3> QED
      BY <3>1, <2>1, <1>1, <1>3, ForkDrops DEF ForkPC
  <2>4. /\ \A x \in Page : /\ \A r : Stack(x, r)' <=> Stack(x, r) /\ x \notin M \cup T
                           /\ \A r : Mem(x, r)' <=> Mem(x, r) /\ x \notin M \cup T
        /\ \A x \in M \cup T :
             /\ x \in Page /\ x \notin free /\ x \notin lost /\ x \notin DOMAIN dir
             /\ \A d : ~InKpt(x, d)
             /\ \A d, j : ~InPde(x, d, j) /\ ~InPte(x, d, j)
    BY <2>3, DroppedFacts
  <2>5. /\ free' = free \cup M /\ lost' = lost \cup T /\ M \cap T = {}
    BY <2>1, <2>2, <1>1, <1>3 DEF kfree
  <2>6. \A x : /\ \A e : InKpt(x, e)' <=> InKpt(x, e)
               /\ \A e, j : InPde(x, e, j)' <=> InPde(x, e, j)
               /\ \A e, j : InPte(x, e, j)' <=> InPte(x, e, j)
    BY <1>3 DEF InKpt, InPde, InPte
  <2>7. Released(M, T)
    BY <2>4, <2>5, <2>6, <1>3 DEF Released
  <2>8. PageInv' /\ TableInv'
    BY <2>7, <1>3, Release DEF TableInv
  <2>9. /\ DOMAIN dir' = DOMAIN dir \ {loc[p].pgdir}
        /\ \A e \in DOMAIN dir : e # loc[p].pgdir => dir'[e] = dir[e]
        /\ dir' \in [DOMAIN dir' -> Directory]
    <3>1. dir' = dir /\ dir \in [DOMAIN dir -> Directory] /\ loc[p].pgdir \notin DOMAIN dir
      BY <2>2, <1>3, Constants DEF TypeOK
    <3> QED
      BY <3>1
  <2>10. free' \subseteq Page /\ lost' \subseteq Page /\ panicked' = FALSE
    BY <2>4, <2>5, <1>1 DEF TypeOK
  <2> QED
    BY <2>8, <2>9, <2>10, <1>1, <1>3, ForkFailsIInv DEF ForkPC
<1> QED
  BY <1>2, <1>3 DEF CopySetup

\* copyuvm() finds the parent's next page and calls kalloc(), or fork() fails; the
\* panics of copyuvm() are not reached and the invariant is kept.
LEMMA CopyPageIInv ==
  ASSUME IInv, NEW p \in Proc, CopyPage(p)
  PROVE  IInv'
<1> USE DEF IInv
<1>1. /\ pc[p] = "copy" /\ loc[p].a < sz[p] /\ panicked' = CopyPanics(p)
      /\ UNCHANGED <<lost, pgdir, sz, cpu>>
  BY DEF CopyPage, At
<1>2. ~CopyPanics(p)
  <2>1. Upto(pgdir[p], sz[p]) /\ sz[p] \in 0..KERNBASE /\ loc[p].a \in Nat
    BY <1>1 DEF ProcInv, SpaceInv, TypeOK, Locals
  <2> QED
    BY <2>1, <1>1, ByteMapped DEF CopyPanics
<1>3. panicked' = FALSE /\ panicked = FALSE
  BY <1>1, <1>2 DEF CopyPanics, TypeOK
<1>4. ASSUME CanAlloc(1), loc' = [loc EXCEPT ![p].mem = kalloc], free' = free \ {kalloc},
             Goto(p, "copymap"), UNCHANGED <<dir, kstack>>
      PROVE  IInv'
  <2>1. pc' = [pc EXCEPT ![p] = "copymap"]
    BY <1>4 DEF Goto
  <2>2. UNCHANGED <<dir, proc, cpu, lost, panicked>>
    BY <1>1, <1>3, <1>4 DEF proc
  <2> QED
    BY <2>1, <2>2, <1>1, <1>4, HoldIInv
<1>5. ASSUME freevm(loc[p].pgdir, {kstack[loc[p].child]}), ForkFails(p) PROVE IInv'
  <2>1. {loc[p].mem} \ {Null} = {}
    BY <1>1 DEF ProcInv, LocInv
  <2>2. lost' = lost \cup ({loc[p].mem} \ {Null})
    BY <2>1, <1>1
  <2> QED
    BY <2>2, <1>1, <1>3, <1>5, ForkFreesIInv
<1> QED
  BY <1>2, <1>4, <1>5 DEF CopyPage

\* The mappages() of one round of copyuvm(), or its failure, which loses the page just
\* copied, keeps the invariant.
LEMMA CopyMapIInv ==
  ASSUME IInv, NEW p \in Proc, CopyMap(p)
  PROVE  IInv'
<1> USE DEF IInv
<1>1. pc[p] = "copymap" /\ UNCHANGED <<pgdir, sz, cpu>>
  BY DEF CopyMap, At
<1>2. PICK v, n : v = loc[p].a \div PGSIZE /\ n = sz[p]
  OBVIOUS
<1>3. PICK perm \in SUBSET VPN : perm = {v} \cap dir[pgdir[p]].super
  <2>1. pgdir[p] \in DOMAIN dir
    BY <1>1 DEF ProcInv, LocInv
  <2>2. dir[pgdir[p]].super \subseteq VPN
    BY <2>1 DEF TypeOK, Directory
  <2> QED
    BY <2>2
<1>4. ASSUME CanMap(loc[p].pgdir, v), mappages(loc[p].pgdir, v, loc[p].mem, perm),
             loc' = [loc EXCEPT ![p].mem = Null, ![p].a = @ + PGSIZE], Goto(p, "copy"),
             UNCHANGED <<kstack, lost>>
      PROVE  IInv'
  <2>1. pc' = [pc EXCEPT ![p] = "copy"] /\ UNCHANGED <<proc, cpu, lost>>
    BY <1>1, <1>4 DEF Goto, proc
  <2> QED
    BY <1>1, <1>2, <1>4, <2>1, MapIInv
<1>5. ASSUME freevm(loc[p].pgdir, {kstack[loc[p].child]}), lost' = lost \cup {loc[p].mem},
             ForkFails(p), UNCHANGED panicked
      PROVE  IInv'
  <2>1. loc[p].mem # Null
    BY <1>1 DEF ProcInv, LocInv
  <2>2. lost' = lost \cup ({loc[p].mem} \ {Null}) /\ panicked' = FALSE
    BY <2>1, <1>5 DEF TypeOK
  <2> QED
    BY <2>2, <1>1, <1>5, ForkFreesIInv
<1> QED
  BY <1>2, <1>3, <1>4, <1>5 DEF CopyMap

\* fork() hands the copy to the child and keeps the invariant.
LEMMA ForkDoneIInv ==
  ASSUME IInv, NEW p \in Proc, ForkDone(p)
  PROVE  IInv'
<1> USE DEF IInv
<1>1. PICK q, d : q = loc[p].child /\ d = loc[p].pgdir
  OBVIOUS
<1>2. /\ pc[p] = "copy" /\ loc[p].a >= sz[p]
      /\ pgdir' = [pgdir EXCEPT ![q] = d] /\ sz' = [sz EXCEPT ![q] = sz[p]]
      /\ cr3' = [cr3 EXCEPT ![q] = d]
      /\ pc' = [pc EXCEPT ![p] = "user", ![q] = "user"]
      /\ loc' = [loc EXCEPT ![p] = NoLocals]
      /\ UNCHANGED <<memory, kstack, stale, panicked>>
  BY <1>1 DEF ForkDone, At
<1>3. q \in Proc /\ q # p /\ pc[q] = "embryo"
  BY <1>1, <1>2 DEF ForkInv, ForkPC, TypeOK, Locals
<1>4. loc[q] = NoLocals /\ pgdir[q] = Null /\ stale[q] = FALSE /\ kstack[q] # Null
  BY <1>3 DEF ProcInv, LocInv, CpuInv, TypeOK
<1>5. /\ Upto(pgdir[p], sz[p]) /\ Progress(p, sz[p]) /\ loc[p].for = "none"
      /\ loc[p].mem = Null /\ kstack[p] # Null /\ pgdir[p] \in DOMAIN dir
      /\ cr3[p] = pgdir[p] /\ stale[p] = FALSE /\ sz[p] \in 0..KERNBASE /\ loc[p].a \in Nat
  BY <1>2 DEF ProcInv, SpaceInv, LocInv, CpuInv, TypeOK, Locals
<1>6. Upto(d, sz[p]) /\ d \in DOMAIN dir /\ d \in Page /\ d # Null /\ Call(p) = d
  <2>1. sz[p] \in Nat /\ sz[p] <= loc[p].a
    BY <1>2, <1>5, Constants
  <2>2. Upto(d, sz[p])
    BY <2>1, <1>1, <1>5, UptoReached DEF Progress
  <2> QED
    BY <2>2, <1>1, <1>5, Constants DEF Upto, TypeOK, Call
<1>7. /\ pc'[p] = "user" /\ pc'[q] = "user" /\ loc'[p] = NoLocals /\ loc'[q] = NoLocals
      /\ pgdir'[q] = d /\ pgdir'[p] = pgdir[p] /\ sz'[q] = sz[p] /\ sz'[p] = sz[p]
      /\ cr3'[q] = d /\ cr3'[p] = cr3[p] /\ stale' = stale /\ kstack' = kstack
      /\ \A r \in Proc : r # p /\ r # q => Same(r)
  BY <1>2, <1>3, <1>4 DEF TypeOK, Same
<1>8. Quiet /\ dir' = dir
  <2>1. \A r \in Proc : loc'[r].mem = loc[r].mem
    BY <1>2, <1>5, NoLocalsFacts DEF TypeOK
  <2> QED
    BY <2>1, <1>2 DEF Quiet, memory
<1>9. PageInv' /\ TableInv'
  BY <1>8, QuietFacts
<1>10. TypeOK'
  <2>1. pc' \in [Proc -> PC] /\ loc' \in [Proc -> Locals]
    BY <1>2, <1>3, NoLocalsFacts DEF TypeOK, PC
  <2>2. /\ pgdir' \in [Proc -> Page \cup {Null}] /\ sz' \in [Proc -> 0..KERNBASE]
        /\ cr3' \in [Proc -> Page \cup {kpgdir}]
    BY <1>2, <1>3, <1>5, <1>6 DEF TypeOK
  <2> QED
    BY <2>1, <2>2, <1>2 DEF TypeOK, memory
<1>11. ProcInv(p)'
  <2>1. Upto(pgdir[p], sz[p])'
    BY <1>5, <1>7, <1>8 DEF Upto, Mapped
  <2>2. SpaceInv(p)'
    BY <2>1, <1>5, <1>7 DEF SpaceInv
  <2>3. LocInv(p)'
    BY <1>5, <1>7, <1>8 DEF LocInv, NoLocals
  <2>4. CpuInv(p)'
    BY <1>5, <1>7 DEF CpuInv
  <2> QED
    BY <2>2, <2>3, <2>4 DEF ProcInv
<1>12. ProcInv(q)'
  <2>1. Upto(pgdir[q], sz[q])'
    BY <1>6, <1>7, <1>8 DEF Upto, Mapped
  <2>2. SpaceInv(q)'
    BY <2>1, <1>4, <1>7 DEF SpaceInv
  <2>3. LocInv(q)'
    BY <1>4, <1>6, <1>7, <1>8 DEF LocInv, NoLocals
  <2>4. CpuInv(q)'
    BY <1>4, <1>7 DEF CpuInv
  <2> QED
    BY <2>2, <2>3, <2>4 DEF ProcInv
<1>13. \A r \in Proc : ProcInv(r)'
  <2>1. \A e \in DOMAIN dir : SameDir(e)
    BY <1>8 DEF SameDir
  <2>2. \A r \in Proc : r # p /\ r # q => ProcInv(r)'
    BY <2>1, <1>3, <1>7, FrameRest
  <2> QED
    BY <2>2, <1>11, <1>12
<1>14. DirInv'
  <2>1. \A r \in Proc : Call(r)' = IF r = p THEN Null ELSE Call(r)
    BY <1>2, NoLocalsFacts DEF TypeOK, Call
  <2>2. \A r \in Proc : pgdir'[r] = IF r = q THEN d ELSE pgdir[r]
    BY <1>2 DEF TypeOK
  <2>3. Call(q) = Null
    BY <1>4, NoLocalsFacts DEF Call
  <2>4. \A r \in Proc : pgdir[r] # d /\ (Call(r) = d => r = p)
    BY <1>6 DEF DirInv
  <2>5. \A e \in DOMAIN dir' : \E r \in Proc : pgdir'[r] = e \/ Call(r)' = e
    <3> SUFFICES ASSUME NEW e \in DOMAIN dir PROVE \E r \in Proc : pgdir'[r] = e \/ Call(r)' = e
      BY <1>8
    <3>1. PICK r \in Proc : pgdir[r] = e \/ Call(r) = e
      BY DEF DirInv
    <3>2. e # Null
      BY Constants DEF TypeOK
    <3>3. CASE e = d
      BY <3>3, <2>2, <1>3
    <3>4. CASE e # d
      BY <3>1, <3>2, <3>4, <2>1, <2>2, <1>4, <1>6
    <3> QED
      BY <3>3, <3>4
  <2>6. \A r, s \in Proc : pgdir'[r] # Null /\ pgdir'[r] = pgdir'[s] => r = s
    BY <2>2, <2>4 DEF DirInv
  <2>7. \A r, s \in Proc : Call(r)' # Null /\ Call(r)' = Call(s)' => r = s
    BY <2>1 DEF DirInv
  <2>8. \A r, s \in Proc : pgdir'[r] # Null => pgdir'[r] # Call(s)'
    BY <2>1, <2>2, <2>4, <1>6 DEF DirInv
  <2> QED
    BY <2>5, <2>6, <2>7, <2>8 DEF DirInv
<1>15. ForkInv'
  <2>1. \A r \in Proc : pc'[r] \in ForkPC => /\ pc[r] \in ForkPC /\ loc'[r] = loc[r] /\ r # p
    BY <1>7 DEF Same, ForkPC
  <2>2. \A r \in Proc : pc[r] \in ForkPC => loc[r].child \in Proc /\ pc[loc[r].child] = "embryo"
    BY DEF ForkInv, TypeOK, Locals
  <2>3. \A r \in Proc : pc[r] = "embryo" /\ r # q => pc'[r] = "embryo"
    BY <1>2, <1>7 DEF Same
  <2>4. \A r \in Proc : pc[r] \in ForkPC /\ r # p => loc[r].child # q
    BY <1>1, <1>2 DEF ForkInv, ForkPC
  <2> QED
    BY <2>1, <2>2, <2>3, <2>4 DEF ForkInv
<1> QED
  BY <1>9, <1>10, <1>13, <1>14, <1>15

\* wait() frees the stack and the directory of a zombie and keeps the invariant.
LEMMA WaitIInv ==
  ASSUME IInv, NEW p \in Proc, NEW q \in Proc, Wait(p, q)
  PROVE  IInv'
<1> USE DEF IInv
<1>1. PICK d, M : d = pgdir[q] /\ M = {kstack[q]}
  OBVIOUS
<1>2. /\ pc[q] = "zombie" /\ freevm(d, M)
      /\ pgdir' = [pgdir EXCEPT ![q] = Null] /\ kstack' = [kstack EXCEPT ![q] = Null]
      /\ sz' = [sz EXCEPT ![q] = 0] /\ pc' = [pc EXCEPT ![q] = "unused"]
      /\ UNCHANGED <<lost, cr3, stale, loc, panicked>>
  BY <1>1 DEF Wait, At, Goto, cpu
<1>3. /\ loc[q] = NoLocals /\ d \in DOMAIN dir /\ d \in Page /\ d # Null /\ kstack[q] # Null
      /\ cr3[q] = kpgdir /\ stale[q] = FALSE
  <2>1. loc[q] = NoLocals /\ d \in DOMAIN dir /\ kstack[q] # Null
    BY <1>1, <1>2 DEF ProcInv, LocInv
  <2>2. cr3[q] = kpgdir /\ stale[q] = FALSE
    BY <1>2 DEF ProcInv, CpuInv, TypeOK
  <2> QED
    BY <2>1, <2>2, Constants DEF TypeOK
<1>4. /\ Others(q) /\ pc'[q] = "unused" /\ pgdir'[q] = Null /\ kstack'[q] = Null
      /\ sz'[q] = 0
  BY <1>2 DEF Others, Same, TypeOK
<1>5. Dropped(M, {})
  <2>1. kstack[q] \in Page /\ Stack(kstack[q], q)
    BY <1>3 DEF TypeOK, Stack
  <2>2. \A x \in M \cup {} : x \in Page /\ \E r : Stack(x, r) \/ Mem(x, r)
    BY <2>1, <1>1
  <2>3. ASSUME NEW r \in Proc
        PROVE  /\ kstack'[r] = IF kstack[r] \in M \cup {} THEN Null ELSE kstack[r]
               /\ loc'[r].mem = IF loc[r].mem \in M \cup {} THEN Null ELSE loc[r].mem
    <3>1. kstack'[r] = (IF r = q THEN Null ELSE kstack[r]) /\ loc'[r] = loc[r]
      BY <1>2 DEF TypeOK
    <3>2. kstack[r] \in M <=> r = q
      BY <1>1, <1>3, OneUse
    <3>3. loc[r].mem \notin M
      BY <1>1, <1>3, OneUse
    <3> QED
      BY <3>1, <3>2, <3>3
  <2> QED
    BY <2>2, <2>3, <1>2 DEF Dropped
<1>6. /\ free' = free \cup (Owned(d) \cup M)
      /\ DOMAIN dir' = DOMAIN dir \ {d} /\ \A e \in DOMAIN dir : e # d => dir'[e] = dir[e]
      /\ dir' \in [DOMAIN dir' -> Directory] /\ DOMAIN dir' \subseteq Page
      /\ Owned(d) \subseteq Page
      /\ TableInv'
  BY <1>2, <1>3, FreevmFacts
<1>7. PageInv'
  BY <1>3, <1>5, <1>6, ReleaseDir
<1>8. TypeOK'
  <2>1. M \subseteq Page
    BY <1>5 DEF Dropped
  <2>2. /\ pgdir' \in [Proc -> Page \cup {Null}] /\ kstack' \in [Proc -> Page \cup {Null}]
        /\ sz' \in [Proc -> 0..KERNBASE] /\ pc' \in [Proc -> PC]
    BY <1>2, Constants DEF TypeOK, PC
  <2> QED
    BY <2>1, <2>2, <1>2, <1>6 DEF TypeOK
<1>9. ProcInv(q)'
  <2>1. SpaceInv(q)'
    BY <1>4 DEF SpaceInv
  <2>2. LocInv(q)'
    BY <1>2, <1>3, <1>4 DEF LocInv, NoLocals
  <2>3. CpuInv(q)'
    BY <1>2, <1>3, <1>4 DEF CpuInv
  <2> QED
    BY <2>1, <2>2, <2>3 DEF ProcInv
<1>10. DirInv'
  <2>1. \A r \in Proc : Call(r)' = Call(r) /\ pgdir'[r] = IF r = q THEN Null ELSE pgdir[r]
    BY <1>2 DEF Call, TypeOK
  <2>2. \A e \in DOMAIN dir' : \E r \in Proc : pgdir'[r] = e \/ Call(r)' = e
    BY <2>1, <1>1, <1>6 DEF DirInv
  <2> QED
    BY <2>1, <2>2 DEF DirInv
<1>11. \A e \in DOMAIN dir : SameDir(e) \/ e = pgdir[q] \/ e = Call(q)
  BY <1>1, <1>6 DEF SameDir
<1> QED
  BY <1>2, <1>4, <1>6, <1>7, <1>8, <1>9, <1>10, <1>11, OwnStep DEF ForkPC

-----------------------------------------------------------------------------
(***************************************************************************)
(* The invariant holds                                                     *)
(***************************************************************************)
\* userinit() leaves every page with one use and init with its one page.
LEMMA InitIInv ==
  ASSUME Init
  PROVE  IInv
<1>1. PICK k \in Nat : k = 3 + KTables /\ k >= 3 /\ k + 1 <= NPage
  BY Constants
<1>2. /\ free = (k + 2)..NPage
      /\ dir = [d \in {1} |-> inituvm(3..k-1, k, k + 1)]
      /\ pgdir = [p \in Proc |-> IF p = init THEN 1 ELSE Null]
      /\ kstack = [p \in Proc |-> IF p = init THEN 2 ELSE Null]
      /\ sz = [p \in Proc |-> IF p = init THEN PGSIZE ELSE 0]
      /\ cr3 = [p \in Proc |-> IF p = init THEN 1 ELSE kpgdir]
      /\ stale = [p \in Proc |-> FALSE]
      /\ pc = [p \in Proc |-> IF p = init THEN "user" ELSE "unused"]
      /\ loc = [p \in Proc |-> NoLocals]
      /\ lost = {} /\ panicked = FALSE
  BY <1>1 DEF Init
<1>3. /\ NPage \in Nat /\ init \in Proc /\ PGSIZE \in Int /\ PGSIZE > 0 /\ KERNBASE \in Int
      /\ KERNBASE >= 4 /\ Null = 0 /\ Page = 1..NPage
  BY Constants DEF Null, Page
<1>4. 0 \in VPN /\ PDX(0) = 0 /\ 0 \in Tables
  <2>1. 0 \in VPN
    BY UserPages
  <2>2. PDX(0) = 0
    BY Constants DEF PDX
  <2> QED
    BY <2>1, <2>2 DEF Tables
<1>5. PICK f \in Directory :
        /\ f = inituvm(3..k-1, k, k + 1)
        /\ f.kpt = 3..k-1
        /\ \A j \in Tables : f.pde[j] = IF j = 0 THEN k ELSE Null
        /\ \A v \in VPN : f.pte[v] = IF v = 0 THEN k + 1 ELSE Null
  <2>1. PICK a \in [Tables -> Page \cup {Null}] :
          a = [j \in Tables |-> IF j = 0 THEN k ELSE Null]
    <3>1. k \in Page
      BY <1>1, <1>3
    <3>2. [j \in Tables |-> IF j = 0 THEN k ELSE Null] \in [Tables -> Page \cup {Null}]
      BY <3>1
    <3> QED
      BY <3>2
  <2>2. PICK b \in [VPN -> Page \cup {Null}] :
          b = [v \in VPN |-> IF v = 0 THEN k + 1 ELSE Null]
    <3>1. k + 1 \in Page
      BY <1>1, <1>3
    <3>2. [v \in VPN |-> IF v = 0 THEN k + 1 ELSE Null] \in [VPN -> Page \cup {Null}]
      BY <3>1
    <3> QED
      BY <3>2
  <2>3. PICK g \in SUBSET Page : g = 3..k-1
    <3>1. 3..k-1 \subseteq Page
      BY <1>1, <1>3
    <3> QED
      BY <3>1
  <2>4. PICK a0, b0 : a0 = [j \in Tables |-> Null] /\ b0 = [v \in VPN |-> Null]
    OBVIOUS
  <2>5. [a0 EXCEPT ![0] = k] = a /\ [b0 EXCEPT ![0] = k + 1] = b
    BY <2>1, <2>2, <2>4, <1>4
  <2>6. inituvm(g, k, k + 1) = [kpt |-> g, pde |-> a, pte |-> b, super |-> {}]
    <3>1. PICK e0 : e0 = [kpt |-> {}, pde |-> a0, pte |-> b0, super |-> {}]
      OBVIOUS
    <3>2. EmptyDir = e0
      BY <2>4, <3>1 DEF EmptyDir, Tables
    <3>3. inituvm(g, k, k + 1) = [e0 EXCEPT !.kpt = g, !.pde[0] = k, !.pte[0] = k + 1]
      BY <3>2 DEF inituvm
    <3>4. e0.pde = a0 /\ e0.pte = b0
      BY <3>1
    <3>5. inituvm(g, k, k + 1) = [e0 EXCEPT !.kpt = g, !.pde = a, !.pte = b]
      BY <3>3, <3>4, <2>5
    <3> QED
      BY <3>1, <3>5
  <2>7. PICK f : f = [kpt |-> g, pde |-> a, pte |-> b, super |-> {}]
    OBVIOUS
  <2>8. f \in Directory /\ f.kpt = g /\ f.pde = a /\ f.pte = b
    BY <2>7 DEF Directory
  <2> QED
    BY <2>1, <2>2, <2>3, <2>6, <2>7, <2>8
<1>6. DOMAIN dir = {1} /\ dir[1] = f /\ 1 \in Page
  BY <1>1, <1>2, <1>3, <1>5
<1>7. TypeOK
  <2>1. free \subseteq Page /\ lost \subseteq Page
    BY <1>1, <1>2, <1>3
  <2>2. DOMAIN dir \subseteq Page /\ dir \in [DOMAIN dir -> Directory]
    BY <1>2, <1>5, <1>6
  <2>3. /\ pgdir \in [Proc -> Page \cup {Null}] /\ kstack \in [Proc -> Page \cup {Null}]
        /\ cr3 \in [Proc -> Page \cup {kpgdir}]
    BY <1>1, <1>2, <1>3
  <2>4. sz \in [Proc -> 0..KERNBASE]
    <3>1. PGSIZE <= KERNBASE
      <4>1. PICK b \in Nat : b > 0 /\ KERNBASE = b * PGSIZE
        BY UserPages
      <4>2. ~(b < 1) /\ 1 \in Int
        BY <4>1
      <4>3. ~(b * PGSIZE < 1 * PGSIZE)
        BY <4>2, PageOrder
      <4> QED
        BY <4>1, <4>3, <1>3
    <3> QED
      BY <3>1, <1>2, <1>3
  <2>5. pc \in [Proc -> PC] /\ loc \in [Proc -> Locals] /\ stale \in [Proc -> BOOLEAN]
    BY <1>2, NoLocalsFacts DEF PC
  <2> QED
    BY <2>1, <2>2, <2>3, <2>4, <2>5, <1>2 DEF TypeOK
<1>8. Upto(1, PGSIZE)
  <2> SUFFICES ASSUME NEW v \in VPN PROVE Mapped(1, v) <=> v * PGSIZE < PGSIZE
    BY <1>6 DEF Upto
  <2>1. v \in Int /\ v >= 0
    BY Constants DEF VPN
  <2>2. v * PGSIZE < 1 * PGSIZE <=> v < 1
    BY <2>1, PageOrder
  <2>3. 1 * PGSIZE = PGSIZE
    BY <1>3
  <2>4. f.pte[v] # Null <=> v = 0
    BY <1>1, <1>3, <1>5
  <2> QED
    BY <2>1, <2>2, <2>3, <2>4, <1>6 DEF Mapped
<1>9. ASSUME NEW p \in Proc PROVE ProcInv(p)
  <2>1. CASE p = init
    <3>1. /\ pc[p] = "user" /\ loc[p] = NoLocals /\ pgdir[p] = 1 /\ sz[p] = PGSIZE
          /\ kstack[p] = 2 /\ cr3[p] = 1 /\ stale[p] = FALSE
      BY <2>1, <1>2
    <3>2. SpaceInv(p)
      BY <3>1, <1>8 DEF SpaceInv
    <3>3. LocInv(p)
      BY <3>1, <1>3, <1>6 DEF LocInv, NoLocals
    <3>4. CpuInv(p)
      BY <3>1 DEF CpuInv
    <3> QED
      BY <3>2, <3>3, <3>4 DEF ProcInv
  <2>2. CASE p # init
    <3>1. /\ pc[p] = "unused" /\ loc[p] = NoLocals /\ pgdir[p] = Null
          /\ kstack[p] = Null /\ cr3[p] = kpgdir /\ stale[p] = FALSE
      BY <2>2, <1>2
    <3>2. SpaceInv(p)
      BY <3>1 DEF SpaceInv
    <3>3. LocInv(p)
      BY <3>1 DEF LocInv, NoLocals
    <3>4. CpuInv(p)
      BY <3>1 DEF CpuInv
    <3> QED
      BY <3>2, <3>3, <3>4 DEF ProcInv
  <2> QED
    BY <2>1, <2>2
<1>10. DirInv
  <2>1. \A p \in Proc : Call(p) = Null /\ pgdir[p] = IF p = init THEN 1 ELSE Null
    BY <1>2, NoLocalsFacts DEF Call
  <2> QED
    BY <2>1, <1>3, <1>6 DEF DirInv
<1>11. ForkInv
  BY <1>2 DEF ForkInv, ForkPC
<1>12. TableInv
  <2> SUFFICES ASSUME NEW v \in VPN, f.pte[v] # Null PROVE f.pde[PDX(v)] # Null
    BY <1>6 DEF TableInv
  <2>1. v = 0
    BY <1>5
  <2>2. f.pde[0] = k
    BY <1>4, <1>5
  <2> QED
    BY <2>1, <2>2, <1>1, <1>3, <1>4
<1>13. PageInv
  <2> SUFFICES ASSUME NEW x \in Page PROVE \E c, o, i : Entry(x, c, o, i)
    BY DEF PageInv
  <2>1. /\ \A p : Stack(x, p) <=> x = 2 /\ p = init
        /\ \A p : ~Mem(x, p)
        /\ x \in DOMAIN dir <=> x = 1
        /\ \A d : InKpt(x, d) <=> d = 1 /\ x \in 3..k-1
        /\ \A d, j : InPde(x, d, j) <=> d = 1 /\ j = 0 /\ x = k
        /\ \A d, v : InPte(x, d, v) <=> d = 1 /\ v = 0 /\ x = k + 1
    <3>1. \A p : Stack(x, p) <=> x = 2 /\ p = init
      BY <1>2, <1>3 DEF Stack
    <3>2. \A p : ~Mem(x, p)
      BY <1>2, <1>3, NoLocalsFacts DEF Mem
    <3>3. \A d : InKpt(x, d) <=> d = 1 /\ x \in 3..k-1
      BY <1>5, <1>6 DEF InKpt
    <3>4. \A d, j : InPde(x, d, j) <=> d = 1 /\ j = 0 /\ x = k
      BY <1>3, <1>4, <1>5, <1>6 DEF InPde
    <3>5. \A d, v : InPte(x, d, v) <=> d = 1 /\ v = 0 /\ x = k + 1
      BY <1>3, <1>4, <1>5, <1>6 DEF InPte
    <3> QED
      BY <3>1, <3>2, <3>3, <3>4, <3>5, <1>6
  <2>2. x \in free <=> x >= k + 2
    BY <1>1, <1>2, <1>3
  <2>3. x \notin lost
    BY <1>2
  <2>4. x \in Int /\ x >= 1
    BY <1>3
  <2>5. CASE x = 1
    <3>1. Entry(x, "pgdir", 0, 0)
      BY <2>1, <2>2, <2>3, <2>5, <1>1 DEF Entry
    <3> QED
      BY <3>1
  <2>6. CASE x = 2
    <3>1. Entry(x, "kstack", init, 0)
      BY <2>1, <2>2, <2>3, <2>6, <1>1 DEF Entry
    <3> QED
      BY <3>1
  <2>7. CASE x \in 3..k-1
    <3>1. Entry(x, "kpt", 1, 0)
      BY <2>1, <2>2, <2>3, <2>7, <1>1 DEF Entry
    <3> QED
      BY <3>1
  <2>8. CASE x = k
    <3>1. Entry(x, "pde", 1, 0)
      BY <2>1, <2>2, <2>3, <2>8, <1>1 DEF Entry
    <3> QED
      BY <3>1
  <2>9. CASE x = k + 1
    <3>1. Entry(x, "pte", 1, 0)
      BY <2>1, <2>2, <2>3, <2>9, <1>1 DEF Entry
    <3> QED
      BY <3>1
  <2>10. CASE x >= k + 2
    <3>1. Entry(x, "free", 0, 0)
      BY <2>1, <2>2, <2>3, <2>10, <1>1 DEF Entry
    <3> QED
      BY <3>1
  <2> QED
    BY <2>4, <2>5, <2>6, <2>7, <2>8, <2>9, <2>10, <1>1
<1> QED
  BY <1>7, <1>9, <1>10, <1>11, <1>12, <1>13 DEF IInv

\* Every step of the system calls, the scheduler and the clock keeps the invariant.
LEMMA NextIInv ==
  ASSUME IInv, [Next]_vars
  PROVE  IInv'
<1>1. CASE Next
  <2>1. PICK p \in Proc :
    \/ \E n \in Increments : Sbrk(p, n)
    \/ AllocPage(p) \/ AllocMap(p) \/ SbrkDone(p) \/ Switchuvm(p)
    \/ \E q \in Proc : Fork(p, q) \/ Wait(p, q)
    \/ CopySetup(p) \/ CopyPage(p) \/ CopyMap(p) \/ ForkDone(p)
    \/ \E n \in ArgLens : SysExec(p, n)
    \/ \E prog \in Programs : Exec(p, prog)
    \/ ExecSegment(p) \/ ExecLoad(p) \/ ExecStack(p)
    \/ ExecGuard(p) \/ ExecArgs(p) \/ ExecCommit(p) \/ FreeOld(p)
    \/ Exit(p) \/ Switchkvm(p) \/ Yield(p)
    BY <1>1 DEF Next
  <2>2. CASE \E n \in Increments : Sbrk(p, n)
    BY <2>2, SbrkIInv
  <2>3. CASE AllocPage(p) \/ AllocMap(p) \/ SbrkDone(p) \/ Switchuvm(p)
    BY <2>3, AllocPageIInv, AllocMapIInv, SbrkDoneIInv, SwitchuvmIInv
  <2>4. CASE \E q \in Proc : Fork(p, q) \/ Wait(p, q)
    BY <2>4, ForkIInv, WaitIInv
  <2>5. CASE CopySetup(p) \/ CopyPage(p) \/ CopyMap(p) \/ ForkDone(p)
    BY <2>5, CopySetupIInv, CopyPageIInv, CopyMapIInv, ForkDoneIInv
  <2>6. CASE \E n \in ArgLens : SysExec(p, n)
    BY <2>6, SysExecIInv
  <2>7. CASE \E prog \in Programs : Exec(p, prog)
    BY <2>7, ExecIInv
  <2>8. CASE ExecSegment(p) \/ ExecLoad(p) \/ ExecStack(p)
    BY <2>8, ExecSegmentIInv, ExecLoadIInv, ExecStackIInv
  <2>9. CASE ExecGuard(p) \/ ExecArgs(p) \/ ExecCommit(p) \/ FreeOld(p)
    BY <2>9, ExecGuardIInv, ExecArgsIInv, ExecCommitIInv, FreeOldIInv
  <2>10. CASE Exit(p) \/ Switchkvm(p) \/ Yield(p)
    BY <2>10, ExitIInv, YieldIInv
  <2> QED
    BY <2>1, <2>2, <2>3, <2>4, <2>5, <2>6, <2>7, <2>8, <2>9, <2>10
<1>2. CASE UNCHANGED vars
  <2>1. UNCHANGED <<free, dir, lost, pgdir, sz, kstack, cr3, stale, pc, loc, panicked>>
    BY <1>2 DEF vars, memory, proc, cpu
  <2>2. \A p \in Proc : ProcInv(p)'
    <3> SUFFICES ASSUME NEW p \in Proc PROVE ProcInv(p)'
      OBVIOUS
    <3>1. ProcInv(p) /\ Same(p) /\ SameDir(pgdir[p]) /\ SameDir(loc[p].pgdir)
      BY <2>1 DEF IInv, Same, SameDir
    <3> QED
      BY <3>1, Frame
  <2>3. TypeOK' /\ DirInv' /\ ForkInv' /\ TableInv'
    BY <2>1 DEF IInv, TypeOK, DirInv, ForkInv, TableInv, Call
  <2>4. PageInv'
    BY <2>1, QuietFacts DEF IInv, Quiet
  <2> QED
    BY <2>2, <2>3, <2>4 DEF IInv
<1> QED
  BY <1>1, <1>2

\* The inductive invariant of the page allocator and the address spaces, whatever
\* sbrk(), fork(), exec(), exit() and wait() do and wherever they run out of memory.
THEOREM VirtualMemoryInvariant == Spec => []IInv
<1>1. Init => IInv
  BY InitIInv
<1>2. IInv /\ [Next]_vars => IInv'
  BY NextIInv
<1> QED
  BY <1>1, <1>2, PTL DEF Spec

-----------------------------------------------------------------------------
(***************************************************************************)
(* The properties                                                          *)
(***************************************************************************)
\* A page whose uses are those of one entry has one use.
LEMMA OneEntry ==
  ASSUME TypeOK, NEW x \in Page, NEW k, NEW o, NEW c, Entry(x, k, o, c)
  PROVE  Cardinality(Uses(x)) = 1
<1>1. /\ \A p : (p \in Proc /\ kstack[p] = x) <=> k = "kstack" /\ o = p
      /\ \A p : (p \in Proc /\ loc[p].mem = x) <=> k = "mem" /\ o = p
      /\ \A d : (d \in DOMAIN dir /\ x \in dir[d].kpt) <=> k = "kpt" /\ o = d
      /\ \A d, j : (d \in DOMAIN dir /\ j \in Tables /\ dir[d].pde[j] = x)
                     <=> k = "pde" /\ o = d /\ c = j
      /\ \A d, v : (d \in DOMAIN dir /\ v \in VPN /\ dir[d].pte[v] = x)
                     <=> k = "pte" /\ o = d /\ c = v
  BY DEF Entry, Stack, Mem, InKpt, InPde, InPte
<1>2. \A d \in DOMAIN dir : DOMAIN dir[d].pde = Tables
  BY DEF TypeOK, Directory
<1> DEFINE A == {<<"free", y>> : y \in {x} \cap free}
           B == {<<"lost", y>> : y \in {x} \cap lost}
           C == {<<"kstack", p>> : p \in {q \in Proc : kstack[q] = x}}
           D == {<<"mem", p>> : p \in {q \in Proc : loc[q].mem = x}}
           E == {<<"pgdir", d>> : d \in DOMAIN dir \cap {x}}
           F == {<<"kpt", d>> : d \in {e \in DOMAIN dir : x \in dir[e].kpt}}
           G == UNION {{<<"pde", d, i>> : i \in {j \in DOMAIN dir[d].pde : dir[d].pde[j] = x}}
                       : d \in DOMAIN dir}
           H == UNION {{<<"pte", d, v>> : v \in {w \in VPN : dir[d].pte[w] = x}}
                       : d \in DOMAIN dir}
<1>4. Uses(x) = A \cup B \cup C \cup D \cup E \cup F \cup G \cup H
  BY DEF Uses
<1>5. A = IF k = "free" THEN {<<"free", x>>} ELSE {}
  BY DEF Entry
<1>6. B = IF k = "lost" THEN {<<"lost", x>>} ELSE {}
  BY DEF Entry
<1>7. C = IF k = "kstack" THEN {<<"kstack", o>>} ELSE {}
  BY <1>1
<1>8. D = IF k = "mem" THEN {<<"mem", o>>} ELSE {}
  BY <1>1
<1>9. E = IF k = "pgdir" THEN {<<"pgdir", x>>} ELSE {}
  BY DEF Entry
<1>10. F = IF k = "kpt" THEN {<<"kpt", o>>} ELSE {}
  BY <1>1
<1>11. G = IF k = "pde" THEN {<<"pde", o, c>>} ELSE {}
  BY <1>1, <1>2
<1>12. H = IF k = "pte" THEN {<<"pte", o, c>>} ELSE {}
  BY <1>1
<1>13. k \in {"free", "lost", "kstack", "mem", "pgdir", "kpt", "pde", "pte"}
  BY DEF Entry
<1> HIDE DEF A, B, C, D, E, F, G, H
<1>14. PICK u : Uses(x) = {u}
  <2>1. CASE k = "free"
    <3>1. Uses(x) = {<<"free", x>>}
      BY <2>1, <1>4, <1>5, <1>6, <1>7, <1>8, <1>9, <1>10, <1>11, <1>12
    <3> QED
      BY <3>1
  <2>2. CASE k = "lost"
    <3>1. Uses(x) = {<<"lost", x>>}
      BY <2>2, <1>4, <1>5, <1>6, <1>7, <1>8, <1>9, <1>10, <1>11, <1>12
    <3> QED
      BY <3>1
  <2>3. CASE k = "kstack"
    <3>1. Uses(x) = {<<"kstack", o>>}
      BY <2>3, <1>4, <1>5, <1>6, <1>7, <1>8, <1>9, <1>10, <1>11, <1>12
    <3> QED
      BY <3>1
  <2>4. CASE k = "mem"
    <3>1. Uses(x) = {<<"mem", o>>}
      BY <2>4, <1>4, <1>5, <1>6, <1>7, <1>8, <1>9, <1>10, <1>11, <1>12
    <3> QED
      BY <3>1
  <2>5. CASE k = "pgdir"
    <3>1. Uses(x) = {<<"pgdir", x>>}
      BY <2>5, <1>4, <1>5, <1>6, <1>7, <1>8, <1>9, <1>10, <1>11, <1>12
    <3> QED
      BY <3>1
  <2>6. CASE k = "kpt"
    <3>1. Uses(x) = {<<"kpt", o>>}
      BY <2>6, <1>4, <1>5, <1>6, <1>7, <1>8, <1>9, <1>10, <1>11, <1>12
    <3> QED
      BY <3>1
  <2>7. CASE k = "pde"
    <3>1. Uses(x) = {<<"pde", o, c>>}
      BY <2>7, <1>4, <1>5, <1>6, <1>7, <1>8, <1>9, <1>10, <1>11, <1>12
    <3> QED
      BY <3>1
  <2>8. CASE k = "pte"
    <3>1. Uses(x) = {<<"pte", o, c>>}
      BY <2>8, <1>4, <1>5, <1>6, <1>7, <1>8, <1>9, <1>10, <1>11, <1>12
    <3> QED
      BY <3>1
  <2> QED
    BY <1>13, <2>1, <2>2, <2>3, <2>4, <2>5, <2>6, <2>7, <2>8
<1> QED
  BY <1>14, FS_Singleton

\* Every physical page has exactly one use and every address space one owner, at every
\* moment, for any number of pages: kfree(), deallocuvm() and freevm() neither lose a
\* page nor free one twice, except the page that copyuvm() drops.
THEOREM PagesConservedThm == Spec => []PagesConserved
<1>1. IInv => PagesConserved
  <2> SUFFICES ASSUME IInv PROVE PagesConserved
    OBVIOUS
  <2> USE DEF IInv
  <2>1. ASSUME NEW x \in Page PROVE Cardinality(Uses(x)) = 1
    <3>1. PICK k, o, i : Entry(x, k, o, i)
      BY DEF PageInv
    <3> QED
      BY <3>1, OneEntry
  <2>2. ASSUME NEW d \in DOMAIN dir PROVE Cardinality(DirOwners(d)) = 1
    <3>1. d # Null
      BY Constants DEF TypeOK
    <3>2. PICK p \in Proc : pgdir[p] = d \/ Call(p) = d
      BY DEF DirInv
    <3>3. \A q \in Proc : loc[q].pgdir = d /\ loc[q].for # "sbrk" <=> Call(q) = d
      BY <3>1 DEF Call
    <3>4. PICK A, B : /\ A = {<<"proc", r>> : r \in {q \in Proc : pgdir[q] = d}}
                      /\ B = {<<"call", r>> : r \in {q \in Proc : loc[q].pgdir = d /\ loc[q].for # "sbrk"}}
      OBVIOUS
    <3>5. DirOwners(d) = A \cup B
      BY <3>4 DEF DirOwners
    <3>6. PICK u : DirOwners(d) = {u}
      <4>1. CASE pgdir[p] = d
        <5>1. \A q \in Proc : (pgdir[q] = d <=> q = p) /\ Call(q) # d
          BY <3>1, <4>1 DEF DirInv
        <5>2. A = {<<"proc", p>>} /\ B = {}
          BY <5>1, <3>3, <3>4
        <5> QED
          BY <5>2, <3>5
      <4>2. CASE Call(p) = d
        <5>1. \A q \in Proc : (Call(q) = d <=> q = p) /\ pgdir[q] # d
          BY <3>1, <4>2 DEF DirInv
        <5>2. A = {} /\ B = {<<"call", p>>}
          BY <5>1, <3>3, <3>4
        <5> QED
          BY <5>2, <3>5
      <4> QED
        BY <3>2, <4>1, <4>2
    <3> QED
      BY <3>6, FS_Singleton
  <2> QED
    BY <2>1, <2>2 DEF PagesConserved
<1> QED
  BY <1>1, VirtualMemoryInvariant, PTL

\* In user mode exactly the pages below sz are mapped, and no panic of vm.c is reached,
\* for any page size, any size of user memory and any programs.
THEOREM SizeIsMappedThm == Spec => []SizeIsMapped
<1>1. IInv => SizeIsMapped
  <2> SUFFICES ASSUME IInv PROVE SizeIsMapped
    OBVIOUS
  <2>1. ~panicked
    BY DEF IInv, TypeOK
  <2>2. ASSUME NEW p \in Proc, InUser(p), NEW v \in VPN
        PROVE  Mapped(pgdir[p], v) <=> v * PGSIZE < sz[p]
    BY <2>2, InUserFacts DEF Upto
  <2> QED
    BY <2>1, <2>2 DEF SizeIsMapped
<1> QED
  BY <1>1, VirtualMemoryInvariant, PTL

\* A processor never runs on a freed page directory, and a process in user mode has its
\* own loaded: exec() calls switchuvm() before freevm(), and exit() leaves by the
\* scheduler's switchkvm() before wait() frees.
THEOREM LoadedDirectoryLiveThm == Spec => []LoadedDirectoryLive
<1>1. IInv => LoadedDirectoryLive
  <2> SUFFICES ASSUME IInv, NEW p \in Proc
               PROVE  /\ cr3[p] \in DOMAIN dir \cup {kpgdir}
                      /\ InUser(p) => cr3[p] = pgdir[p] /\ ~stale[p]
    BY DEF LoadedDirectoryLive
  <2>1. cr3[p] \in DOMAIN dir \cup {kpgdir}
    <3>1. /\ pc[p] \notin {"unused", "embryo"} => pgdir[p] \in DOMAIN dir
          /\ pc[p] = "switchuvm" /\ loc[p].for = "exec" => loc[p].pgdir \in DOMAIN dir
      BY NoLocalsFacts DEF IInv, ProcInv, LocInv
    <3> QED
      BY <3>1 DEF IInv, ProcInv, CpuInv
  <2>2. InUser(p) => cr3[p] = pgdir[p] /\ ~stale[p]
    BY InUserFacts
  <2> QED
    BY <2>1, <2>2
<1> QED
  BY <1>1, VirtualMemoryInvariant, PTL

\* n bytes that end below the size lie in mapped pages.
LEMMA BytesMapped ==
  ASSUME NEW d, NEW sz0 \in 0..KERNBASE, Upto(d, sz0), NEW a \in Nat, NEW n \in Nat,
         a + n <= sz0, NEW v \in PagesAt(a, n)
  PROVE  Mapped(d, v)
<1>1. PICK i \in 0..n-1 : v = ((a + i) % UINT) \div PGSIZE
  BY DEF PagesAt
<1>2. UINT \in Int /\ UINT >= 2 * KERNBASE /\ KERNBASE \in Int /\ KERNBASE >= 4
  BY Constants
<1>3. PICK x \in Nat : x = a + i /\ x < sz0 /\ x < UINT /\ x < 2 * UINT
  BY <1>2
<1>4. x % UINT = x
  BY <1>3, Wrap
<1>5. Mapped(d, x \div PGSIZE)
  BY <1>3, ByteMapped
<1> QED
  BY <1>1, <1>3, <1>4, <1>5

\* Memory that argptr(), fetchint() or fetchstr() accepts is mapped, for every address
\* and length.
THEOREM ArgsMappedThm == Spec => []ArgsMapped
<1>1. IInv => ArgsMapped
  <2> SUFFICES ASSUME IInv, NEW p \in Proc, InUser(p), NEW a \in 0..UINT-1
               PROVE  /\ \A n \in 0..(UINT \div 2)-1 : argptr(p, a, n) => Present(p, a, n)
                      /\ fetchint(p, a) => Present(p, a, 4)
                      /\ fetchstr(p, a) => Present(p, a, sz[p] - a)
    BY DEF ArgsMapped
  <2>1. Upto(pgdir[p], sz[p]) /\ sz[p] \in 0..KERNBASE
    BY InUserFacts
  <2>2. UINT \in Int /\ UINT >= 2 * KERNBASE /\ KERNBASE \in Int /\ KERNBASE >= 4
    BY Constants
  <2>3. a \in Nat
    BY <2>2
  <2>4. ASSUME NEW n \in Nat, a < sz[p], a + n < UINT, (a + n) % UINT <= sz[p]
        PROVE  Present(p, a, n)
    <3>1. PICK x \in Nat : x = a + n /\ x < UINT /\ x < 2 * UINT
      BY <2>2, <2>3, <2>4
    <3>2. x % UINT = x
      BY <3>1, Wrap
    <3>3. a + n <= sz[p]
      BY <3>1, <3>2, <2>4
    <3> QED
      BY <3>3, <2>1, <2>3, BytesMapped DEF Present
  <2>5. ASSUME NEW n \in 0..(UINT \div 2)-1, argptr(p, a, n) PROVE Present(p, a, n)
    <3>1. n < UINT - KERNBASE
      <4>1. UINT \div 2 \in Int /\ 2 * (UINT \div 2) <= UINT
        BY <2>2
      <4> QED
        BY <4>1, <2>2
    <3>2. a < sz[p] /\ (a + n) % UINT <= sz[p] /\ n \in Nat
      BY <2>5 DEF argptr
    <3>3. a + n < UINT
      BY <3>1, <3>2, <2>1, <2>2, <2>3
    <3> QED
      BY <3>2, <3>3, <2>4
  <2>6. ASSUME fetchint(p, a) PROVE Present(p, a, 4)
    <3>1. a < sz[p] /\ (a + 4) % UINT <= sz[p]
      BY <2>6 DEF fetchint
    <3>2. a + 4 < UINT
      BY <3>1, <2>1, <2>2, <2>3
    <3> QED
      BY <3>1, <3>2, <2>4
  <2>7. ASSUME fetchstr(p, a) PROVE Present(p, a, sz[p] - a)
    <3>1. PICK n \in Nat : n = sz[p] - a /\ a + n <= sz[p]
      BY <2>1, <2>2, <2>3, <2>7 DEF fetchstr
    <3>2. Present(p, a, n)
      BY <3>1, <2>1, <2>3, BytesMapped DEF Present
    <3> QED
      BY <3>1, <3>2
  <2> QED
    BY <2>5, <2>6, <2>7
<1> QED
  BY <1>1, VirtualMemoryInvariant, PTL
=============================================================================
