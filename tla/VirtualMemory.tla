--------------------------- MODULE VirtualMemory ----------------------------
(***************************************************************************)
(* Physical pages and address spaces: the free list of kalloc.c, the page  *)
(* directories of vm.c, and the system calls that allocate: sbrk, fork,    *)
(* exec, exit and wait.  kmem.lock makes kalloc() and kfree() atomic, and  *)
(* nothing protects the loops around them, so each page of a loop is a     *)
(* step.  Freeing an address space, and setupkvm(), are one step each.     *)
(* Addresses are small: a page has PGSIZE bytes, a page table NPTENTRIES   *)
(* entries, and unsigned addresses wrap at UINT.  Pages differ in nothing  *)
(* but their number, so the order of the free list is left out.            *)
(***************************************************************************)
EXTENDS Integers, FiniteSets, Sequences

CONSTANTS
  Proc, init,    \* slots of the process table; the first process
  NPage,         \* physical pages that are left when the kernel has booted
  PGSIZE, NPTENTRIES, KERNBASE, UINT,
  KTables,       \* page tables of the kernel's part of an address space
  Increments,    \* arguments of sbrk()
  Programs,      \* segments of the programs for exec()
  ArgLens        \* bytes that exec() pushes on the new stack

\* The fields of a program header are unsigned.
uint == 0..UINT-1
ProgramHeader == [vaddr: uint, memsz: uint, filesz: uint]

\* userinit() has had its pages.  exec() stops at the first copyout() that fails, so
\* it pushes at most the stack page and one string of the caller's memory, which is
\* smaller than KERNBASE (PHYSTOP).
ASSUME VirtualMemoryAssumption ==
  /\ init \in Proc
  /\ KTables \in Nat /\ NPage \in Nat /\ NPage >= KTables + 4
  /\ PGSIZE \in Nat \ {0} /\ NPTENTRIES \in Nat \ {0}
  /\ KERNBASE \in Nat /\ KERNBASE >= 4 /\ KERNBASE % (PGSIZE * NPTENTRIES) = 0
  /\ UINT \in Nat /\ UINT >= 2 * KERNBASE
  /\ Increments \subseteq Int /\ ArgLens \subseteq 0..UINT-KERNBASE
  /\ Programs \subseteq Seq(ProgramHeader)

Page == 1..NPage                 \* what freerange() gave to kfree()
Null == 0                        \* no page
kpgdir == NPage + 1              \* the kernel's own directory
VPN == 0..(KERNBASE \div PGSIZE) - 1
PDX(v) == v \div NPTENTRIES

\* Mutant: rounds down.
PGROUNDDOWN(n) == (n \div PGSIZE) * PGSIZE

PGROUNDUP(n) == ((n + PGSIZE - 1) \div PGSIZE) * PGSIZE

VARIABLES
  free,                \* kmem.freelist
  dir,                 \* page directories with their tables
  pgdir, sz, kstack,   \* struct proc
  cr3,                 \* directory loaded on the processor that runs a process
  stale,               \* its TLB holds translations that are gone
  pc,
  loc,                 \* local variables of the system call
  lost,                \* pages no pointer leads to
  panicked

memory == <<free, dir, lost>>
proc == <<pgdir, sz, kstack>>
cpu == <<cr3, stale>>
vars == <<memory, proc, cpu, pc, loc, panicked>>

\* kpt: the kernel's page tables; pde: the user's; pte: the pages they map;
\* super: pages without PTE_U.
EmptyDir == [kpt |-> {}, pde |-> [x \in {PDX(v) : v \in VPN} |-> Null],
             pte |-> [v \in VPN |-> Null], super |-> {}]

NoLocals == [for |-> "none", pgdir |-> Null, mem |-> Null, a |-> 0, oldsz |-> 0,
             newsz |-> 0, child |-> init, prog |-> <<>>, arglen |-> 0]

At(p, here) == pc[p] = here /\ ~panicked
Goto(p, there) == pc' = [pc EXCEPT ![p] = there]
Return(p) == Goto(p, "user") /\ loc' = [loc EXCEPT ![p] = NoLocals]

-----------------------------------------------------------------------------
\* The n pages that the next calls of kalloc() return.
Take(n) == {x \in free : Cardinality({y \in free : y < x}) < n}
kalloc == CHOOSE x \in Take(1) : TRUE
CanAlloc(n) == Cardinality(free) >= n
kfree(S) == free' = free \cup S

Mapped(d, v) == v \in VPN /\ dir[d].pte[v] # Null

\* walkpgdir(d, v, 0) finds a page table.
HasTable(d, v) == v \notin VPN \/ dir[d].pde[PDX(v)] # Null

\* Pages in which the bytes a .. a + n - 1 lie.
PagesAt(a, n) == {((a + i) % UINT) \div PGSIZE : i \in 0..n-1}

\* The pages that deallocuvm(d, oldsz, newsz) unmaps.
Victims(d, oldsz, newsz) ==
  {v \in VPN : /\ v * PGSIZE >= PGROUNDUP(newsz) /\ v * PGSIZE < oldsz
               /\ Mapped(d, v)}

Unmap(e, V) ==
  [e EXCEPT !.pte = [v \in VPN |-> IF v \in V THEN Null ELSE @[v]],
            !.super = @ \ V]

deallocuvm(d, oldsz, newsz, more) ==
  LET V == Victims(d, oldsz, newsz) IN
  /\ kfree({dir[d].pte[v] : v \in V} \cup more)
  /\ dir' = [dir EXCEPT ![d] = Unmap(@, V)]

\* Mutant: the page tables are forgotten.
OwnedWithoutTables(d) ==
  ({d} \cup dir[d].kpt \cup {dir[d].pte[v] : v \in VPN}) \ {Null}

\* What freevm(d) gives back.
Owned(d) ==
  ({d} \cup dir[d].kpt \cup {dir[d].pde[PDX(v)] : v \in VPN}
       \cup {dir[d].pte[v] : v \in VPN}) \ {Null}

freevm(d, more) ==
  /\ kfree(Owned(d) \cup more)
  /\ dir' = [e \in DOMAIN dir \ {d} |-> dir[e]]

\* setupkvm() takes a page for the directory and KTables for its tables.
setupkvm(d) ==
  /\ d \in Take(1)
  /\ free' = free \ Take(1 + KTables)
  /\ dir' = [e \in DOMAIN dir \cup {d} |->
               IF e = d THEN [EmptyDir EXCEPT !.kpt = Take(1 + KTables) \ {d}]
               ELSE dir[e]]

\* mappages() of the page mem at v, by way of walkpgdir(d, v, 1).
CanMap(d, v) == HasTable(d, v) \/ CanAlloc(1)

mappages(d, v, mem, perm) ==
  LET t == IF HasTable(d, v) THEN dir[d].pde[PDX(v)] ELSE kalloc IN
  /\ free' = free \ {t}
  /\ dir' = [dir EXCEPT ![d].pde[PDX(v)] = t, ![d].pte[v] = mem,
                        ![d].super = @ \cup perm]
  /\ panicked' = Mapped(d, v)    \* "remap"

-----------------------------------------------------------------------------
\* inituvm() maps one page, with the page table t.
inituvm(tables, t, mem) ==
  [EmptyDir EXCEPT !.kpt = tables, !.pde[0] = t, !.pte[0] = mem]

\* The state in which userinit() leaves the system: one process with one page.
Init ==
  LET k == 3 + KTables IN
  /\ free = (k + 2)..NPage
  /\ dir = [d \in {1} |-> inituvm(3..k-1, k, k + 1)]
  /\ pgdir = [p \in Proc |-> IF p = init THEN 1 ELSE Null]
  /\ kstack = [p \in Proc |-> IF p = init THEN 2 ELSE Null]
  /\ sz = [p \in Proc |-> IF p = init THEN PGSIZE ELSE 0]
  /\ cr3 = [p \in Proc |-> IF p = init THEN 1 ELSE kpgdir]
  /\ stale = [p \in Proc |-> FALSE]
  /\ pc = [p \in Proc |-> IF p = init THEN "user" ELSE "unused"]
  /\ loc = [p \in Proc |-> NoLocals]
  /\ lost = {} /\ panicked = FALSE

\* A process that gave all its memory away can only fault.
InUser(p) == At(p, "user") /\ \E v \in VPN : Mapped(pgdir[p], v)

(***************************************************************************)
(* allocuvm() on behalf of sbrk() or exec().                               *)
(***************************************************************************)
Allocuvm(p, for, d, oldsz, newsz) ==
  /\ loc' = [loc EXCEPT ![p].for = for, ![p].pgdir = d, ![p].a = PGROUNDUP(oldsz),
                        ![p].oldsz = oldsz, ![p].newsz = newsz]
  /\ Goto(p, "alloc")

\* allocuvm() returns 0; exec() then frees all of the new image.
AllocFails(p) ==
  IF loc[p].for = "sbrk"
  THEN deallocuvm(loc[p].pgdir, loc[p].newsz, loc[p].oldsz, {loc[p].mem} \ {Null})
  ELSE freevm(loc[p].pgdir, {loc[p].mem} \ {Null})

AllocPage(p) ==
  /\ At(p, "alloc") /\ loc[p].a < loc[p].newsz
  /\ \/ /\ CanAlloc(1)
        /\ loc' = [loc EXCEPT ![p].mem = kalloc]
        /\ free' = free \ {kalloc}
        /\ Goto(p, "map")
        /\ UNCHANGED dir
     \/ /\ ~CanAlloc(1)
        /\ AllocFails(p)
        /\ Return(p)
  /\ UNCHANGED <<proc, cpu, lost, panicked>>

AllocMap(p) ==
  LET d == loc[p].pgdir  v == loc[p].a \div PGSIZE IN
  /\ At(p, "map")
  /\ \/ /\ CanMap(d, v)
        /\ mappages(d, v, loc[p].mem, {})
        /\ loc' = [loc EXCEPT ![p].mem = Null, ![p].a = @ + PGSIZE]
        /\ Goto(p, "alloc")
     \/ /\ ~CanMap(d, v)
        /\ AllocFails(p)
        /\ Return(p)
        /\ UNCHANGED panicked
  /\ UNCHANGED <<proc, cpu, lost>>

(***************************************************************************)
(* sbrk(): growproc() adds n to an unsigned size.                          *)
(***************************************************************************)
Sbrk(p, n) ==
  LET newsz == (sz[p] + n) % UINT IN
  /\ InUser(p)
  /\ \/ /\ n > 0 /\ newsz < KERNBASE /\ newsz >= sz[p]
        /\ Allocuvm(p, "sbrk", pgdir[p], sz[p], newsz)
        /\ UNCHANGED <<memory, sz, stale>>
     \/ /\ n < 0 /\ newsz < sz[p]
        /\ deallocuvm(pgdir[p], sz[p], newsz, {})
        /\ stale' = [stale EXCEPT ![p] = TRUE]
        /\ sz' = [sz EXCEPT ![p] = IF newsz = 0 THEN @ ELSE newsz]
        /\ Goto(p, IF newsz = 0 THEN "user" ELSE "switchuvm")
        /\ UNCHANGED <<lost, loc>>
  /\ UNCHANGED <<pgdir, kstack, cr3, panicked>>

SbrkDone(p) ==
  /\ At(p, "alloc") /\ loc[p].for = "sbrk" /\ loc[p].a >= loc[p].newsz
  /\ sz' = [sz EXCEPT ![p] = loc[p].newsz]
  /\ loc' = [loc EXCEPT ![p] = NoLocals]
  /\ Goto(p, "switchuvm")
  /\ UNCHANGED <<memory, pgdir, kstack, cpu, panicked>>

\* switchuvm(curproc) at the end of growproc() and of exec().
Switchuvm(p) ==
  /\ At(p, "switchuvm")
  /\ cr3' = [cr3 EXCEPT ![p] = pgdir[p]]
  /\ stale' = [stale EXCEPT ![p] = FALSE]
  /\ Goto(p, IF loc[p].for = "exec" THEN "freeold" ELSE "user")
  /\ UNCHANGED <<memory, proc, loc, panicked>>

(***************************************************************************)
(* fork(): allocproc() takes a kernel stack, copyuvm() a page per page.    *)
(***************************************************************************)
Fork(p, q) ==
  /\ InUser(p) /\ At(q, "unused") /\ CanAlloc(1)
  /\ kstack' = [kstack EXCEPT ![q] = kalloc]
  /\ free' = free \ {kalloc}
  /\ pc' = [pc EXCEPT ![p] = "copyuvm", ![q] = "embryo"]
  /\ loc' = [loc EXCEPT ![p].child = q]
  /\ UNCHANGED <<dir, lost, pgdir, sz, cpu, panicked>>

\* The error path of fork(): the child's slot is free again.
ForkFails(p) ==
  /\ kstack' = [kstack EXCEPT ![loc[p].child] = Null]
  /\ pc' = [pc EXCEPT ![p] = "user", ![loc[p].child] = "unused"]
  /\ loc' = [loc EXCEPT ![p] = NoLocals]

CopySetup(p) ==
  /\ At(p, "copyuvm")
  /\ \/ /\ CanAlloc(1 + KTables)
        /\ \E d \in free : setupkvm(d) /\ loc' = [loc EXCEPT ![p].pgdir = d]
        /\ Goto(p, "copy")
        /\ UNCHANGED kstack
     \/ /\ ~CanAlloc(1 + KTables)
        /\ ForkFails(p)
        /\ kfree({kstack[loc[p].child]})
        /\ UNCHANGED dir
  /\ UNCHANGED <<lost, pgdir, sz, cpu, panicked>>

\* "copyuvm: page not present"
CopyPanics(p) == ~Mapped(pgdir[p], loc[p].a \div PGSIZE)

CopyPage(p) ==
  /\ At(p, "copy") /\ loc[p].a < sz[p]
  /\ panicked' = CopyPanics(p)
  /\ \/ /\ CanAlloc(1) \/ CopyPanics(p)
        /\ loc' = [loc EXCEPT ![p].mem = IF CopyPanics(p) THEN @ ELSE kalloc]
        /\ free' = IF CopyPanics(p) THEN free ELSE free \ {kalloc}
        /\ Goto(p, "copymap")
        /\ UNCHANGED <<dir, kstack>>
     \/ /\ ~CanAlloc(1) /\ ~CopyPanics(p)
        /\ freevm(loc[p].pgdir, {kstack[loc[p].child]})
        /\ ForkFails(p)
  /\ UNCHANGED <<lost, pgdir, sz, cpu>>

\* When the page table cannot be had, "goto bad" forgets mem.
CopyMap(p) ==
  LET d == loc[p].pgdir  v == loc[p].a \div PGSIZE IN
  /\ At(p, "copymap")
  /\ \/ /\ CanMap(d, v)
        /\ mappages(d, v, loc[p].mem, {v} \cap dir[pgdir[p]].super)
        /\ loc' = [loc EXCEPT ![p].mem = Null, ![p].a = @ + PGSIZE]
        /\ Goto(p, "copy")
        /\ UNCHANGED <<kstack, lost>>
     \/ /\ ~CanMap(d, v)
        /\ freevm(d, {kstack[loc[p].child]})
        /\ lost' = lost \cup {loc[p].mem}
        /\ ForkFails(p)
        /\ UNCHANGED panicked
  /\ UNCHANGED <<pgdir, sz, cpu>>

\* The child becomes RUNNABLE; the scheduler loads its directory.
ForkDone(p) ==
  LET q == loc[p].child IN
  /\ At(p, "copy") /\ loc[p].a >= sz[p]
  /\ pgdir' = [pgdir EXCEPT ![q] = loc[p].pgdir]
  /\ sz' = [sz EXCEPT ![q] = sz[p]]
  /\ cr3' = [cr3 EXCEPT ![q] = loc[p].pgdir]
  /\ pc' = [pc EXCEPT ![p] = "user", ![q] = "user"]
  /\ loc' = [loc EXCEPT ![p] = NoLocals]
  /\ UNCHANGED <<memory, kstack, stale, panicked>>

(***************************************************************************)
(* exec(): build a second address space, then switch to it.  The file may  *)
(* be too short for any of the calls of readi().  sys_exec() has fetched   *)
(* the path and the arguments.                                             *)
(***************************************************************************)
SysExec(p, n) ==
  /\ InUser(p)
  /\ loc' = [loc EXCEPT ![p].arglen = n]
  /\ Goto(p, "exec")
  /\ UNCHANGED <<memory, proc, cpu, panicked>>

Exec(p, prog) ==
  /\ At(p, "exec")
  /\ \/ /\ CanAlloc(1 + KTables)
        /\ \E d \in free :
             /\ setupkvm(d)
             /\ loc' = [loc EXCEPT ![p].for = "exec", ![p].pgdir = d, ![p].prog = prog]
        /\ Goto(p, "segment")
     \/ Return(p) /\ UNCHANGED <<free, dir>>    \* no file, header or memory
  /\ UNCHANGED <<lost, proc, cpu, panicked>>

ExecFails(p) ==
  /\ freevm(loc[p].pgdir, {})
  /\ Return(p)
  /\ UNCHANGED panicked

\* The checks that exec() makes before allocuvm(), and those of allocuvm().
SegmentOK(s) ==
  /\ s.memsz >= s.filesz
  /\ (s.vaddr + s.memsz) % UINT >= s.vaddr

ExecSegment(p) ==
  LET s == Head(loc[p].prog)
      end == (s.vaddr + s.memsz) % UINT
      newsz == IF end < loc[p].oldsz THEN loc[p].oldsz ELSE end
  IN
  /\ At(p, "segment") /\ loc[p].prog # <<>>
  /\ \/ ExecFails(p)                               \* readi()
     \/ ~SegmentOK(s) /\ ExecFails(p)
     \/ SegmentOK(s) /\ (newsz = 0 \/ end >= KERNBASE) /\ ExecFails(p)
     \/ /\ SegmentOK(s) /\ newsz # 0 /\ end < KERNBASE
        /\ Allocuvm(p, "segment", loc[p].pgdir, loc[p].oldsz, newsz)
        /\ UNCHANGED <<free, dir, panicked>>
  /\ UNCHANGED <<lost, proc, cpu>>

\* loaduvm() panics without a page table, and reads into physical page 0
\* without a page.
loaduvmFaults(d, s) ==
  s.vaddr % PGSIZE # 0 \/ \E v \in PagesAt(s.vaddr, s.filesz) : ~Mapped(d, v)

ExecLoad(p) ==
  LET s == Head(loc[p].prog) IN
  /\ At(p, "alloc") /\ loc[p].for = "segment" /\ loc[p].a >= loc[p].newsz
  /\ \/ ExecFails(p)                               \* readi()
     \/ /\ s.vaddr % PGSIZE = 0
        /\ panicked' = loaduvmFaults(loc[p].pgdir, s)
        /\ loc' = [loc EXCEPT ![p].prog = Tail(@), ![p].oldsz = loc[p].newsz]
        /\ Goto(p, "segment")
        /\ UNCHANGED <<free, dir>>
  /\ UNCHANGED <<lost, proc, cpu>>

\* A guard page and a stack.
ExecStack(p) ==
  LET top == PGROUNDUP(loc[p].oldsz) IN
  /\ At(p, "segment") /\ loc[p].prog = <<>>
  /\ \/ /\ top + 2 * PGSIZE < KERNBASE
        /\ Allocuvm(p, "stack", loc[p].pgdir, top, top + 2 * PGSIZE)
        /\ UNCHANGED <<free, dir, panicked>>
     \/ top + 2 * PGSIZE >= KERNBASE /\ ExecFails(p)
  /\ UNCHANGED <<lost, proc, cpu>>

ExecGuard(p) ==
  LET d == loc[p].pgdir  guard == (loc[p].newsz - 2 * PGSIZE) \div PGSIZE IN
  /\ At(p, "alloc") /\ loc[p].for = "stack" /\ loc[p].a >= loc[p].newsz
  /\ panicked' = ~HasTable(d, guard)    \* "clearpteu"
  /\ dir' = [dir EXCEPT ![d].super = @ \cup {guard}]
  /\ Goto(p, "args")
  /\ UNCHANGED <<free, lost, proc, cpu, loc>>

\* uva2ka() returns 0, or follows a null pointer.
uva2kaOK(d, v) == Mapped(d, v) /\ v \notin dir[d].super

\* copyout() of n bytes to va.
copyoutOK(d, va, n) == \A v \in PagesAt(va, n) : uva2kaOK(d, v)
copyoutFaults(d, va, n) == \E v \in PagesAt(va, n) : ~HasTable(d, v)

\* The arguments go to the top of the stack.
ExecArgs(p) ==
  LET d == loc[p].pgdir  n == loc[p].arglen  sp == (UINT + loc[p].newsz - n) % UINT IN
  /\ At(p, "args")
  /\ panicked' = copyoutFaults(d, sp, n)
  /\ \/ /\ copyoutOK(d, sp, n)
        /\ Goto(p, "commit")
        /\ UNCHANGED <<free, dir, loc>>
     \/ /\ ~copyoutOK(d, sp, n)
        /\ freevm(d, {})
        /\ Return(p)
  /\ UNCHANGED <<lost, proc, cpu>>

\* Mutant: the old image is freed before the new one is loaded.
CommitFrees(p) ==
  /\ At(p, "commit")
  /\ freevm(pgdir[p], {})
  /\ loc' = [loc EXCEPT ![p] = NoLocals]
  /\ pgdir' = [pgdir EXCEPT ![p] = loc[p].pgdir]
  /\ sz' = [sz EXCEPT ![p] = loc[p].newsz]
  /\ Goto(p, "switchuvm")
  /\ UNCHANGED <<lost, kstack, cpu, panicked>>

ExecCommit(p) ==
  /\ At(p, "commit")
  /\ loc' = [loc EXCEPT ![p] = [NoLocals EXCEPT !.for = "exec", !.pgdir = pgdir[p]]]
  /\ pgdir' = [pgdir EXCEPT ![p] = loc[p].pgdir]
  /\ sz' = [sz EXCEPT ![p] = loc[p].newsz]
  /\ Goto(p, "switchuvm")
  /\ UNCHANGED <<memory, kstack, cpu, panicked>>

FreeOld(p) ==
  /\ At(p, "freeold")
  /\ freevm(loc[p].pgdir, {})
  /\ Return(p)
  /\ UNCHANGED <<lost, proc, cpu, panicked>>

(***************************************************************************)
(* exit() leaves by sched(): the scheduler calls switchkvm() and releases  *)
(* ptable.lock, which wait() needs to free the zombie's memory.            *)
(***************************************************************************)
Exit(p) ==
  /\ At(p, "user") /\ p # init
  /\ \A q \in Proc : pc[q] # "sched"
  /\ Goto(p, "sched")
  /\ UNCHANGED <<memory, proc, cpu, loc, panicked>>

Switchkvm(p) ==
  /\ At(p, "sched")
  /\ cr3' = [cr3 EXCEPT ![p] = kpgdir]
  /\ stale' = [stale EXCEPT ![p] = FALSE]
  /\ Goto(p, "zombie")
  /\ UNCHANGED <<memory, proc, loc, panicked>>

\* Which of the others is the parent is left open.
Wait(p, q) ==
  /\ InUser(p) /\ At(q, "zombie")
  /\ \A r \in Proc : pc[r] # "sched"
  /\ freevm(pgdir[q], {kstack[q]})
  /\ pgdir' = [pgdir EXCEPT ![q] = Null]
  /\ kstack' = [kstack EXCEPT ![q] = Null]
  /\ sz' = [sz EXCEPT ![q] = 0]
  /\ Goto(q, "unused")
  /\ UNCHANGED <<lost, cpu, loc, panicked>>

\* A timer interrupt: the process gives up its processor and comes back.
Yield(p) ==
  /\ ~panicked /\ pc[p] \notin {"unused", "embryo", "sched", "zombie"}
  /\ cr3[p] # pgdir[p] \/ stale[p]
  /\ cr3' = [cr3 EXCEPT ![p] = pgdir[p]]
  /\ stale' = [stale EXCEPT ![p] = FALSE]
  /\ UNCHANGED <<memory, proc, pc, loc, panicked>>

Next ==
  \E p \in Proc :
    \/ \E n \in Increments : Sbrk(p, n)
    \/ AllocPage(p) \/ AllocMap(p) \/ SbrkDone(p) \/ Switchuvm(p)
    \/ \E q \in Proc : Fork(p, q) \/ Wait(p, q)
    \/ CopySetup(p) \/ CopyPage(p) \/ CopyMap(p) \/ ForkDone(p)
    \/ \E n \in ArgLens : SysExec(p, n)
    \/ \E prog \in Programs : Exec(p, prog)
    \/ ExecSegment(p) \/ ExecLoad(p) \/ ExecStack(p)
    \/ ExecGuard(p) \/ ExecArgs(p) \/ ExecCommit(p) \/ FreeOld(p)
    \/ Exit(p) \/ Switchkvm(p) \/ Yield(p)

Spec == Init /\ [][Next]_vars

-----------------------------------------------------------------------------
(***************************************************************************)
(* Who uses a page, one entry per use.                                     *)
(***************************************************************************)
Uses(x) ==
  {<<"free", y>> : y \in {x} \cap free}
    \cup {<<"lost", y>> : y \in {x} \cap lost}
    \cup {<<"kstack", p>> : p \in {q \in Proc : kstack[q] = x}}
    \cup {<<"mem", p>> : p \in {q \in Proc : loc[q].mem = x}}
    \cup {<<"pgdir", d>> : d \in DOMAIN dir \cap {x}}
    \cup {<<"kpt", d>> : d \in {e \in DOMAIN dir : x \in dir[e].kpt}}
    \cup (UNION {{<<"pde", d, i>> : i \in {j \in DOMAIN dir[d].pde : dir[d].pde[j] = x}}
                : d \in DOMAIN dir})
    \cup (UNION {{<<"pte", d, v>> : v \in {w \in VPN : dir[d].pte[w] = x}}
                : d \in DOMAIN dir})

\* A directory belongs to a process or is being built or freed by one.
DirOwners(d) ==
  {<<"proc", p>> : p \in {q \in Proc : pgdir[q] = d}}
    \cup {<<"call", p>> : p \in {q \in Proc : loc[q].pgdir = d /\ loc[q].for # "sbrk"}}

(***************************************************************************)
(* Every physical page has exactly one use, through all the ways in which  *)
(* sbrk, fork and exec run out of memory half way, and no address space is *)
(* shared or forgotten.  The one leak is the page copyuvm() drops when     *)
(* mappages() fails (kfree, deallocuvm, freevm, copyuvm).                  *)
(***************************************************************************)
PagesConserved ==
  /\ \A x \in Page : Cardinality(Uses(x)) = 1
  /\ \A d \in DOMAIN dir : Cardinality(DirOwners(d)) = 1

(***************************************************************************)
(* In user mode exactly the pages below sz are mapped, whatever failed     *)
(* before, so that fork() can copy them and the kernel can trust sz: the   *)
(* panics of vm.c ("remap", "pte should exist", "page not present",        *)
(* "address should exist", "clearpteu") and a fault in uva2ka() are out of *)
(* reach.  Only a shrink to size 0, which growproc() takes for a failure,  *)
(* leaves sz behind (allocuvm, deallocuvm, growproc, loaduvm, exec).       *)
(***************************************************************************)
SizeIsMapped ==
  /\ ~panicked
  /\ \A p \in Proc :
       InUser(p) => \A v \in VPN : Mapped(pgdir[p], v) <=> v * PGSIZE < sz[p]

(***************************************************************************)
(* A processor never runs on a page directory that has been freed, and no  *)
(* process is back in user mode with translations of pages it gave back    *)
(* (switchuvm in exec and growproc, switchkvm before wait can free).       *)
(***************************************************************************)
LoadedDirectoryLive ==
  \A p \in Proc :
    /\ cr3[p] \in DOMAIN dir \cup {kpgdir}
    /\ InUser(p) => cr3[p] = pgdir[p] /\ ~stale[p]

\* Mutant: argptr() checks the end of the block only.
argptrEnd(p, a, n) == n >= 0 /\ (a + n) % UINT <= sz[p]

\* The tests of argptr(), fetchint() and fetchstr() on an address a.
argptr(p, a, n) == n >= 0 /\ a < sz[p] /\ (a + n) % UINT <= sz[p]

fetchint(p, a) == a < sz[p] /\ (a + 4) % UINT <= sz[p]
fetchstr(p, a) == a < sz[p]

\* The pages of n bytes at a are there.
Present(p, a, n) == \A v \in PagesAt(a, n) : Mapped(pgdir[p], v)

(***************************************************************************)
(* User memory that the kernel accepts as an argument lies in mapped       *)
(* pages, for every address and length, those that wrap included, so that  *)
(* it does not fault on a pointer it checked (argptr, fetchint, fetchstr). *)
(***************************************************************************)
ArgsMapped ==
  \A p \in Proc : InUser(p) =>
    \A a \in 0..UINT-1 :
      /\ \A n \in 0..(UINT \div 2)-1 : argptr(p, a, n) => Present(p, a, n)
      /\ fetchint(p, a) => Present(p, a, 4)
      /\ fetchstr(p, a) => Present(p, a, sz[p] - a)
=============================================================================
