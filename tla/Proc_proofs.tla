----------------------------- MODULE Proc_proofs ----------------------------
(***************************************************************************)
(* Proofs about Proc, for any number of slots and processors.              *)
(***************************************************************************)
EXTENDS Proc, TLAPS, WellFoundedInduction

\* Where a process goes on, preempted or not.
Place(p) == IF pc[p] = "yielded" THEN back[p] ELSE pc[p]

Forking == {"fork_kstack", "fork_copy", "fork_ready"}

\* The places at which a kernel thread runs with ptable.lock held.
Locked == {"forkret", "yielded", "wait", "wait_sleep"}

\* The state of a process says where its kernel thread may be.
StateInv ==
  \A p \in Slot :
    /\ state[p] \in {"UNUSED", "EMBRYO"} <=> pc[p] = "unborn"
    /\ state[p] = "ZOMBIE" <=> pc[p] = "dead"
    /\ state[p] = "RUNNABLE" => pc[p] \in {"forkret", "yielded", "wait_sleep"}
    /\ state[p] = "SLEEPING" => pc[p] = "wait_sleep" /\ chan[p] = p

\* Which CPU has ptable.lock, inside and outside of scheduler().
LockInv ==
  \A c \in CPU :
    lock = c <=> IF cpuproc[c] = Null THEN scan[c] # 0 ELSE pc[cpuproc[c]] \in Locked

\* Process 1 never ends, and nobody is its own parent.
FamilyInv ==
  /\ state[initproc] \in Live /\ parent[initproc] = Null /\ pid[initproc] = 1
  /\ \A p \in Slot : parent[p] # p

\* What fork() has done for its child so far.
ForkInv ==
  /\ \A p \in Slot :
       /\ np[p] # Null <=> Place(p) \in Forking
       /\ np[p] # Null => state[np[p]] = "EMBRYO"
       /\ Place(p) = "fork_kstack" => ~kstack[np[p]] /\ pgdir[np[p]] # "owned"
       /\ Place(p) = "fork_copy" => kstack[np[p]] /\ pgdir[np[p]] # "owned"
       /\ Place(p) = "fork_ready" =>
            kstack[np[p]] /\ pgdir[np[p]] = "owned" /\ parent[np[p]] = p
  /\ \A p, q \in Slot : np[p] = np[q] /\ np[p] # Null => p = q
  /\ \A q \in Slot : state[q] = "EMBRYO" => \E p \in Slot : np[p] = q

\* Stacks and page tables of the slots that no fork() is working on.
MemoryInv ==
  \A p \in Slot :
    /\ state[p] \in Live \cup {"ZOMBIE"} => kstack[p] /\ pgdir[p] = "owned"
    /\ state[p] = "UNUSED" => ~kstack[p] /\ pgdir[p] # "owned"

\* A process in wait() has interrupts on, and keeps that in sched() while it sleeps.
IntenaInv ==
  /\ \A c \in CPU : cpuproc[c] # Null /\ pc[cpuproc[c]] = "wait" => intena[c]
  /\ \A p \in Slot : pc[p] = "wait_sleep" => ena[p]

IInv ==
  /\ TypeOK /\ OneCpuPerProcess /\ StateInv /\ LockInv /\ FamilyInv /\ ForkInv
  /\ ParentAlive /\ NoLostExit /\ MemoryInv /\ IntenaInv
  /\ panicked => pc[initproc] = "exit"

-----------------------------------------------------------------------------
(***************************************************************************)
(* The loops of proc.c over ptable.proc find a slot if there is one, and   *)
(* the inner loop of scheduler() finds one that nothing beats.             *)
(***************************************************************************)
LEMMA SlotFacts == /\ initproc \in Slot /\ Null \notin Slot /\ initproc # Null
                   /\ Slot \subseteq Nat /\ \A p \in Slot : p + 1 \in 0..(NPROC + 1)
  BY ProcAssumption DEF Slot, initproc, Null

\* A set of numbers that is not empty has a least one.
LEMMA LeastOfNat ==
  ASSUME NEW S \in SUBSET Nat, S # {}
  PROVE  \E i \in S : \A j \in S : i <= j
  <1>1. PICK i \in S : \A j \in S : <<j, i>> \notin OpToRel(<, Nat)
    BY NatLessThanWellFounded, WFMin
  <1>2. ASSUME NEW j \in S PROVE i <= j
    <2>1. i \in Nat /\ j \in Nat
      OBVIOUS
    <2>2. j < i => <<j, i>> \in OpToRel(<, Nat)
      BY <2>1 DEF OpToRel
    <2>3. ~(j < i)
      BY <1>1, <2>2, Zenon
    <2> QED
      BY <2>1, <2>3
  <1> QED
    BY <1>2

\* A loop over ptable.proc stops at the first slot that fits.
LEMMA LeastFacts ==
  ASSUME NEW S \in SUBSET Slot, S # {}
  PROVE  Least(S) \in S /\ Least(S) \in Slot
  <1>1. \E i \in S : \A j \in S : i <= j
    BY LeastOfNat, SlotFacts
  <1> QED
    BY <1>1 DEF Least

\* The inner loop of scheduler() ends with a runnable process of the best priority.
LEMMA HighPFacts ==
  ASSUME priority \in [Slot -> Nat], NEW p \in Runnable
  PROVE  /\ HighP(p) \in Runnable /\ HighP(p) \in Slot
         /\ \A q \in Runnable : priority[HighP(p)] <= priority[q]
  <1> DEFINE best == {q \in Runnable : \A o \in Runnable : priority[q] <= priority[o]}
  <1>1. Runnable \subseteq Slot
    BY DEF Runnable
  <1>2. best # {}
    <2> DEFINE S == {priority[q] : q \in Runnable}
    <2>1. S \in SUBSET Nat /\ S # {}
      BY <1>1
    <2>2. PICK i \in S : \A j \in S : i <= j
      BY <2>1, LeastOfNat
    <2> QED
      BY <2>2
  <1>3. best \in SUBSET Slot
    BY <1>1
  <1>4. Least(best) \in best
    BY <1>2, <1>3, LeastFacts
  <1>5. HighP(p) = IF p \in best THEN p ELSE Least(best)
    BY DEF HighP
  <1>6. HighP(p) \in best
    BY <1>4, <1>5
  <1> QED
    BY <1>1, <1>6

-----------------------------------------------------------------------------
(***************************************************************************)
(* The inductive invariant.                                                *)
(***************************************************************************)
LEMMA InitIInv == Init => IInv
  <1> SUFFICES ASSUME Init PROVE IInv
    OBVIOUS
  <1>0. initproc \in Slot /\ Null \notin Slot /\ initproc # Null /\ NPROC \in Nat /\ NoCPU \notin CPU
    BY SlotFacts, ProcAssumption
  <1>1. TypeOK
    <2>1. state \in [Slot -> ProcState] /\ pid \in [Slot -> Nat] /\ priority \in [Slot -> Nat]
      BY <1>0 DEF Init, ProcState
    <2>2. /\ parent \in [Slot -> Slot \cup {Null}] /\ chan \in [Slot -> Slot \cup {Null}]
          /\ killed \in [Slot -> BOOLEAN] /\ kstack \in [Slot -> BOOLEAN]
          /\ np \in [Slot -> Slot \cup {Null}] /\ ena \in [Slot -> BOOLEAN]
      BY DEF Init
    <2>3. pgdir \in [Slot -> {"none", "owned", "freed"}] /\ nextpid \in Nat
      BY DEF Init
    <2>4. /\ lock \in CPU \cup {NoCPU} /\ cpuproc \in [CPU -> Slot \cup {Null}]
          /\ scan \in [CPU -> 0..(NPROC + 1)] /\ intena \in [CPU -> BOOLEAN]
      BY <1>0 DEF Init
    <2>5. pc \in [Slot -> PC] /\ back \in [Slot -> Preemptible] /\ panicked \in BOOLEAN
      BY DEF Init, PC, Preemptible
    <2> QED
      BY <2>1, <2>2, <2>3, <2>4, <2>5 DEF TypeOK
  <1>2. OneCpuPerProcess /\ StateInv /\ LockInv /\ IntenaInv
    BY <1>0 DEF Init, OneCpuPerProcess, StateInv, LockInv, IntenaInv, Locked
  <1>3. FamilyInv /\ ParentAlive /\ NoLostExit /\ MemoryInv
    <2>1. FamilyInv
      BY <1>0 DEF Init, FamilyInv, Live
    <2>2. ParentAlive
      BY <1>0 DEF Init, ParentAlive, Live, Listed
    <2>3. NoLostExit /\ MemoryInv
      BY <1>0 DEF Init, NoLostExit, MemoryInv, Live
    <2> QED
      BY <2>1, <2>2, <2>3
  <1>4. ForkInv
    BY <1>0 DEF Init, ForkInv, Place, Forking
  <1> QED
    BY <1>1, <1>2, <1>3, <1>4 DEF IInv, Init

(***************************************************************************)
(* A step of p on c that changes no state and no relation of processes:    *)
(* p goes elsewhere, and acquires, keeps or releases ptable.lock.          *)
(***************************************************************************)
LEMMA OwnStepIInv ==
  ASSUME IInv, NEW c \in CPU, NEW p \in Slot, cpuproc[c] = p, ~panicked,
         NEW there \in PC \ {"unborn", "dead", "yielded", "wait_sleep"},
         pc' = [pc EXCEPT ![p] = there],
         there \in Forking \/ Place(p) \in Forking => there = Place(p),
         \/ there \in {"wait", "forkret"} /\ lock' = c /\ lock \in {c, NoCPU}
         \/ there \notin {"wait", "forkret"} /\ lock' = IF lock = c THEN NoCPU ELSE lock,
         NEW x \in BOOLEAN, intena' = [intena EXCEPT ![c] = x], there = "wait" => x,
         chan' \in {chan, [chan EXCEPT ![p] = Null]},
         killed' \in {killed, [killed EXCEPT ![p] = TRUE]},
         priority' \in [Slot -> Nat],
         UNCHANGED <<state, pid, parent, kstack, pgdir, nextpid, cpuproc, scan, back, np, ena,
                     panicked>>
  PROVE  IInv'
  <1>0. initproc \in Slot /\ Null \notin Slot /\ NoCPU \notin CPU
    BY SlotFacts, ProcAssumption
  <1>1. /\ TypeOK /\ OneCpuPerProcess /\ StateInv /\ LockInv /\ FamilyInv /\ ForkInv
        /\ ParentAlive /\ NoLostExit /\ MemoryInv /\ IntenaInv
    BY DEF IInv
  <1>2. state[p] = "RUNNING" /\ \A d \in CPU : cpuproc[d] = p => d = c
    BY <1>0, <1>1 DEF OneCpuPerProcess
  <1>3. TypeOK'
    BY <1>0, <1>1 DEF TypeOK
  <1>4. OneCpuPerProcess' /\ FamilyInv' /\ ParentAlive' /\ MemoryInv'
    BY <1>1 DEF OneCpuPerProcess, FamilyInv, ParentAlive, MemoryInv, Listed
  <1>5. StateInv'
    BY <1>1, <1>2 DEF StateInv, TypeOK
  <1>6. LockInv'
    BY <1>0, <1>1, <1>2 DEF LockInv, TypeOK, Locked
  <1>7. ForkInv'
    <2>1. \A q \in Slot : Place(q)' = IF q = p THEN there ELSE Place(q)
      BY <1>1 DEF Place, TypeOK
    <2>2. \A q \in Slot : /\ Place(q)' \in Forking <=> Place(q) \in Forking
                          /\ Place(q) \in Forking => Place(q)' = Place(q)
      BY <2>1
    <2> QED
      BY <1>1, <2>2 DEF ForkInv, Forking
  <1>8. NoLostExit'
    BY <1>1, <1>2 DEF NoLostExit, ZombieChildren, Children, TypeOK
  <1>9. IntenaInv'
    BY <1>1, <1>2 DEF IntenaInv, TypeOK
  <1> QED
    BY <1>3, <1>4, <1>5, <1>6, <1>7, <1>8, <1>9 DEF IInv

(***************************************************************************)
(* What the lock says about the place of the process that runs on c.       *)
(***************************************************************************)
LEMMA HeldWhere ==
  ASSUME IInv, NEW c \in CPU, NEW p \in Slot, cpuproc[c] = p
  PROVE  /\ lock = c <=> pc[p] \in Locked
         /\ pc \in [Slot -> PC] /\ back \in [Slot -> Preemptible] /\ NoCPU \notin CPU
         /\ intena[c] \in BOOLEAN /\ [intena EXCEPT ![c] = intena[c]] = intena
         /\ Null \notin Slot /\ state[p] = "RUNNING"
  BY SlotFacts, ProcAssumption DEF IInv, LockInv, TypeOK, OneCpuPerProcess

\* Returns and entries of trap() that change nothing but where the thread is.
LEMMA TrapIInv ==
  ASSUME IInv, NEW c \in CPU, NEW p \in Slot,
         \/ Forkret(c, p) \/ TrapKilled(c, p) \/ Sysret(c, p) \/ Fault(c, p)
         \/ SysExit(c, p) \/ YieldReturns(c, p)
  PROVE  IInv'
  <1>1. cpuproc[c] = p /\ ~panicked
    BY DEF Forkret, TrapKilled, Sysret, Fault, SysExit, YieldReturns, Syscall, Running
  <1>2. /\ lock = c <=> pc[p] \in Locked
        /\ pc \in [Slot -> PC] /\ back \in [Slot -> Preemptible] /\ NoCPU \notin CPU
        /\ intena[c] \in BOOLEAN /\ [intena EXCEPT ![c] = intena[c]] = intena
    BY <1>1, HeldWhere
  <1>3. priority \in [Slot -> Nat] /\ ena[p] \in BOOLEAN
    BY DEF IInv, TypeOK
  <1>4. CASE Forkret(c, p) \/ TrapKilled(c, p) \/ Sysret(c, p) \/ Fault(c, p) \/ SysExit(c, p)
    <2>1. PICK there \in {"user", "exit"} : pc' = [pc EXCEPT ![p] = there]
      BY <1>4 DEF Forkret, TrapKilled, Sysret, Fault, SysExit, Goto
    <2>2. /\ lock' = IF lock = c THEN NoCPU ELSE lock
          /\ killed' \in {killed, [killed EXCEPT ![p] = TRUE]}
          /\ pc[p] \in {"forkret", "user", "sysret"}
          /\ UNCHANGED <<state, pid, parent, chan, kstack, pgdir, nextpid, cpuproc, scan, back, np,
                         ena, panicked, priority, intena>>
      BY <1>2, <1>4 DEF Forkret, TrapKilled, Sysret, Fault, SysExit, Syscall, procVars, cpuVars, Locked
    <2>3. Place(p) \notin Forking /\ there \notin Forking
          /\ there \in PC \ {"unborn", "dead", "yielded", "wait_sleep", "wait", "forkret"}
      BY <2>1, <2>2 DEF Place, Forking, PC, Preemptible
    <2> QED
      BY <1>1, <1>2, <1>3, <2>1, <2>2, <2>3, OwnStepIInv
  <1>5. CASE YieldReturns(c, p)
    <2>1. PICK there : /\ there = IF back[p] = "user" /\ killed[p] THEN "exit" ELSE back[p]
                       /\ pc' = [pc EXCEPT ![p] = there]
      BY <1>5 DEF YieldReturns, Goto
    <2>2. /\ pc[p] = "yielded" /\ lock = c /\ lock' = NoCPU /\ intena' = [intena EXCEPT ![c] = ena[p]]
          /\ UNCHANGED <<state, pid, parent, chan, killed, priority, kstack, pgdir, nextpid, cpuproc,
                         scan, back, np, ena, panicked>>
      BY <1>5 DEF YieldReturns, SchedReturns, procVars
    <2>3. /\ there \in PC \ {"unborn", "dead", "yielded", "wait_sleep", "wait", "forkret"}
          /\ there \in Forking \/ Place(p) \in Forking => there = Place(p)
      BY <1>2, <2>1, <2>2 DEF Place, Forking, PC, Preemptible
    <2> QED
      BY <1>1, <1>2, <1>3, <2>1, <2>2, <2>3, OwnStepIInv
  <1> QED
    BY <1>4, <1>5

\* System calls that keep the table but for a priority, or find nothing to do.
LEMMA CallIInv ==
  ASSUME IInv, NEW c \in CPU, NEW p \in Slot,
         \/ SysWait(c, p) \/ WaitFails(c, p) \/ WaitWakes(c, p) \/ Exec(c, p)
         \/ \E n \in Pids, pr \in Priorities : Chpr(c, p, n, pr)
         \/ Unused = {} /\ Allocproc(c, p)
         \/ \E n \in Pids : SlotsOf(n) = {} /\ Kill(c, p, n)
  PROVE  IInv'
  <1>1. cpuproc[c] = p /\ ~panicked
    BY DEF SysWait, WaitFails, WaitWakes, Exec, Chpr, Allocproc, Kill, Syscall, Running
  <1>2. /\ lock = c <=> pc[p] \in Locked
        /\ pc \in [Slot -> PC] /\ back \in [Slot -> Preemptible] /\ NoCPU \notin CPU
        /\ intena[c] \in BOOLEAN /\ [intena EXCEPT ![c] = intena[c]] = intena
    BY <1>1, HeldWhere
  <1>3. priority \in [Slot -> Nat] /\ ena[p] \in BOOLEAN /\ lock \in CPU \cup {NoCPU}
        /\ (pc[p] = "wait_sleep" => ena[p])
    BY DEF IInv, TypeOK, IntenaInv
  <1>4. CASE SysWait(c, p) \/ WaitWakes(c, p)
    <2>1. /\ pc' = [pc EXCEPT ![p] = "wait"] /\ pc[p] \in {"user", "wait_sleep"}
          /\ lock' = c /\ lock \in {c, NoCPU}
          /\ chan' \in {chan, [chan EXCEPT ![p] = Null]}
          /\ UNCHANGED <<state, pid, parent, killed, priority, kstack, pgdir, nextpid, cpuproc, scan,
                         back, np, ena, panicked>>
      BY <1>4 DEF SysWait, WaitWakes, Syscall, Goto, Acquire, SchedReturns, procVars
    <2>2. PICK x \in BOOLEAN : x /\ intena' = [intena EXCEPT ![c] = x]
      BY <1>3, <1>4 DEF SysWait, WaitWakes, Acquire, SchedReturns
    <2>3. Place(p) \notin Forking /\ "wait" \notin Forking
          /\ "wait" \in PC \ {"unborn", "dead", "yielded", "wait_sleep"}
      BY <2>1 DEF Place, Forking, PC
    <2> QED
      BY <1>1, <1>3, <2>1, <2>2, <2>3, OwnStepIInv
  <1>5. CASE ~(SysWait(c, p) \/ WaitWakes(c, p))
    <2>1. /\ pc' = [pc EXCEPT ![p] = "sysret"] /\ pc[p] \in {"user", "wait"}
          /\ UNCHANGED <<state, pid, parent, chan, killed, kstack, pgdir, nextpid, cpuproc, scan,
                         back, np, ena, panicked>>
      BY <1>5 DEF WaitFails, Exec, Chpr, Allocproc, Kill, Syscall, Goto, Atomically, procVars, cpuVars
    <2>2. lock' = IF lock = c THEN NoCPU ELSE lock
      BY <1>2, <1>5, <2>1 DEF WaitFails, Exec, Chpr, Allocproc, Kill, Syscall, Atomically, cpuVars, Locked
    <2>3. PICK x \in BOOLEAN : intena' = [intena EXCEPT ![c] = x]
      BY <1>2, <1>5 DEF WaitFails, Exec, Chpr, Allocproc, Kill, Atomically, cpuVars
    <2>4. priority' \in [Slot -> Nat]
      BY <1>3, <1>5, ProcAssumption DEF WaitFails, Exec, Chpr, Allocproc, Kill, procVars
    <2>5. Place(p) \notin Forking /\ "sysret" \notin Forking
          /\ "sysret" \in PC \ {"unborn", "dead", "yielded", "wait_sleep", "wait", "forkret"}
      BY <2>1 DEF Place, Forking, PC, Preemptible
    <2> QED
      BY <1>1, <2>1, <2>2, <2>3, <2>4, <2>5, OwnStepIInv
  <1> QED
    BY <1>4, <1>5

\* scheduler() switches to a runnable process.
LEMMA SchedulerIInv ==
  ASSUME IInv, NEW c \in CPU, Scheduler(c)
  PROVE  IInv'
  <1>0. initproc \in Slot /\ Null \notin Slot /\ NoCPU \notin CPU
    BY SlotFacts, ProcAssumption
  <1>1. /\ TypeOK /\ OneCpuPerProcess /\ StateInv /\ LockInv /\ FamilyInv /\ ForkInv
        /\ ParentAlive /\ NoLostExit /\ MemoryInv /\ IntenaInv
    BY DEF IInv
  <1>2. cpuproc[c] = Null /\ ~panicked
    BY DEF Scheduler, SchedulerAcquire, SchedulerSwitch, SchedulerRelease, Running
  <1>3. CASE SchedulerAcquire(c) \/ SchedulerRelease(c)
    <2>1. /\ UNCHANGED <<state, pid, parent, chan, killed, priority, kstack, pgdir, nextpid, cpuproc,
                         pc, back, np, ena, panicked>>
          /\ \/ lock = NoCPU /\ lock' = c /\ scan' = [scan EXCEPT ![c] = 1]
             \/ lock = c /\ lock' = NoCPU /\ scan' = [scan EXCEPT ![c] = 0]
          /\ intena' \in {intena, [intena EXCEPT ![c] = TRUE]}
      BY <1>3 DEF SchedulerAcquire, SchedulerRelease, Acquire, procVars, threadVars
    <2>2. TypeOK'
      <3>1. 0 \in 0..(NPROC + 1) /\ 1 \in 0..(NPROC + 1)
        BY ProcAssumption
      <3> QED
        BY <1>1, <2>1, <3>1 DEF TypeOK
    <2>3. LockInv'
      BY <1>0, <1>1, <1>2, <2>1 DEF LockInv, TypeOK
    <2>4. IntenaInv'
      BY <1>1, <1>2, <2>1 DEF IntenaInv, TypeOK
    <2>5. OneCpuPerProcess' /\ StateInv' /\ FamilyInv' /\ ParentAlive' /\ NoLostExit' /\ MemoryInv'
      BY <1>1, <2>1 DEF OneCpuPerProcess, StateInv, FamilyInv, ParentAlive, NoLostExit, MemoryInv,
                        Listed, ZombieChildren, Children
    <2>6. ForkInv'
      BY <1>1, <2>1 DEF ForkInv, Place
    <2> QED
      BY <1>2, <2>1, <2>2, <2>3, <2>4, <2>5, <2>6 DEF IInv
  <1>4. CASE SchedulerSwitch(c)
    <2>1. PICK p \in Slot :
            /\ state[p] = "RUNNABLE" /\ lock = c
            /\ cpuproc' = [cpuproc EXCEPT ![c] = p]
            /\ state' = [state EXCEPT ![p] = "RUNNING"]
            /\ panicked' = ~(kstack[p] /\ pgdir[p] = "owned")
      <3>1. RunnableFrom(scan[c]) \in SUBSET Slot /\ RunnableFrom(scan[c]) \subseteq Runnable
        BY DEF RunnableFrom, Runnable
      <3>2. Least(RunnableFrom(scan[c])) \in Runnable
        BY <1>4, <3>1, LeastFacts DEF SchedulerSwitch
      <3>3. HighP(Least(RunnableFrom(scan[c]))) \in Runnable
        BY <1>1, <3>2, HighPFacts DEF TypeOK
      <3> QED
        BY <1>4, <3>3 DEF SchedulerSwitch, Runnable
    <2>2. UNCHANGED <<pid, parent, chan, killed, priority, kstack, pgdir, nextpid, lock, scan, intena,
                      pc, back, np, ena>>
      BY <1>4 DEF SchedulerSwitch, threadVars
    <2>3. ~panicked'
      BY <1>1, <2>1 DEF MemoryInv, Live
    <2>4. TypeOK'
      BY <1>1, <2>1, <2>2, <2>3 DEF TypeOK, ProcState
    <2>5. \A d \in CPU : cpuproc[d] # p
      BY <1>1, <2>1 DEF OneCpuPerProcess
    <2>6. OneCpuPerProcess'
      BY <1>0, <1>1, <1>2, <2>1, <2>5 DEF OneCpuPerProcess, TypeOK
    <2>7. StateInv' /\ FamilyInv' /\ MemoryInv'
      BY <1>0, <1>1, <2>1, <2>2 DEF StateInv, FamilyInv, MemoryInv, TypeOK, Live
    <2>8. LockInv' /\ IntenaInv'
      BY <1>0, <1>1, <1>2, <2>1, <2>2 DEF LockInv, IntenaInv, StateInv, TypeOK, Locked
    <2>9. ParentAlive'
      BY <1>1, <2>1, <2>2 DEF ParentAlive, TypeOK, Listed, Live
    <2>10. NoLostExit'
      BY <1>1, <2>1, <2>2 DEF NoLostExit, TypeOK, ZombieChildren, Children
    <2>11. ForkInv'
      BY <1>1, <2>1, <2>2 DEF ForkInv, Place, TypeOK
    <2> QED
      BY <2>3, <2>4, <2>6, <2>7, <2>8, <2>9, <2>10, <2>11 DEF IInv
  <1> QED
    BY <1>3, <1>4 DEF Scheduler

(***************************************************************************)
(* fork(): the child's slot belongs to it alone until it is RUNNABLE.      *)
(***************************************************************************)
LEMMA AllocprocIInv ==
  ASSUME IInv, NEW c \in CPU, NEW p \in Slot, Allocproc(c, p), Unused # {}
  PROVE  IInv'
  <1>0. initproc \in Slot /\ Null \notin Slot /\ NoCPU \notin CPU
    BY SlotFacts, ProcAssumption
  <1>1. /\ TypeOK /\ OneCpuPerProcess /\ StateInv /\ LockInv /\ FamilyInv /\ ForkInv
        /\ ParentAlive /\ NoLostExit /\ MemoryInv /\ IntenaInv
    BY DEF IInv
  <1>2. /\ cpuproc[c] = p /\ ~panicked /\ pc[p] = "user" /\ lock = NoCPU
        /\ intena' = [intena EXCEPT ![c] = TRUE]
        /\ UNCHANGED <<lock, cpuproc, scan, parent, chan, killed, kstack, pgdir, back, ena, panicked>>
    BY DEF Allocproc, Syscall, Running, Atomically
  <1>3. PICK q \in Slot :
          /\ state[q] = "UNUSED"
          /\ state' = [state EXCEPT ![q] = "EMBRYO"]
          /\ pid' = [pid EXCEPT ![q] = nextpid]
          /\ nextpid' = nextpid + 1
          /\ priority' = [priority EXCEPT ![q] = 10]
          /\ np' = [np EXCEPT ![p] = q]
          /\ pc' = [pc EXCEPT ![p] = "fork_kstack"]
    <2>1. Unused \in SUBSET Slot
      BY DEF Unused
    <2>2. Least(Unused) \in Unused
      BY <2>1, LeastFacts
    <2> QED
      BY <2>2 DEF Allocproc, Unused, Goto
  <1>4. state[p] = "RUNNING" /\ p # q /\ q # initproc
    BY <1>1, <1>2, <1>3 DEF OneCpuPerProcess, FamilyInv, Live
  <1>5. TypeOK'
    BY <1>1, <1>2, <1>3 DEF TypeOK, ProcState, PC, Preemptible
  <1>6. OneCpuPerProcess'
    BY <1>1, <1>2, <1>3 DEF OneCpuPerProcess, TypeOK
  <1>7. StateInv' /\ MemoryInv'
    BY <1>1, <1>2, <1>3, <1>4 DEF StateInv, MemoryInv, TypeOK, Live
  <1>8. FamilyInv' /\ NoLostExit'
    BY <1>0, <1>1, <1>2, <1>3, <1>4 DEF FamilyInv, NoLostExit, TypeOK, Live, ZombieChildren, Children
  <1>9. ParentAlive'
    BY <1>1, <1>2, <1>3, <1>4 DEF ParentAlive, TypeOK, Live, Listed
  <1>10. LockInv' /\ IntenaInv'
    BY <1>0, <1>1, <1>2, <1>3 DEF LockInv, IntenaInv, TypeOK, Locked
  <1>11. ForkInv'
    <2>1. \A o \in Slot : Place(o)' = IF o = p THEN "fork_kstack" ELSE Place(o)
      BY <1>1, <1>2, <1>3 DEF Place, TypeOK
    <2>2. Place(p) = "user" /\ np[p] = Null
      BY <1>1, <1>2 DEF Place, ForkInv, Forking
    <2>3. \A o \in Slot : np[o] # q
      BY <1>0, <1>1, <1>3 DEF ForkInv
    <2>4. ~kstack[q] /\ pgdir[q] # "owned"
      BY <1>1, <1>3 DEF MemoryInv
    <2>5. \A o \in Slot :
            /\ np'[o] # Null <=> Place(o)' \in Forking
            /\ np'[o] # Null => state'[np'[o]] = "EMBRYO"
      BY <1>0, <1>1, <1>3, <2>1 DEF ForkInv, TypeOK, Forking
    <2>6. \A o \in Slot :
            /\ Place(o)' = "fork_kstack" => ~kstack'[np'[o]] /\ pgdir'[np'[o]] # "owned"
            /\ Place(o)' = "fork_copy" => kstack'[np'[o]] /\ pgdir'[np'[o]] # "owned"
            /\ Place(o)' = "fork_ready" =>
                 kstack'[np'[o]] /\ pgdir'[np'[o]] = "owned" /\ parent'[np'[o]] = o
      BY <1>1, <1>2, <1>3, <2>1, <2>4 DEF ForkInv, TypeOK
    <2>7. \A o, m \in Slot : np'[o] = np'[m] /\ np'[o] # Null => o = m
      BY <1>1, <1>3, <2>3 DEF ForkInv, TypeOK
    <2>8. \A m \in Slot : state'[m] = "EMBRYO" => \E o \in Slot : np'[o] = m
      BY <1>0, <1>1, <1>3, <2>2 DEF ForkInv, TypeOK
    <2> QED
      BY <2>5, <2>6, <2>7, <2>8 DEF ForkInv
  <1> QED
    BY <1>2, <1>5, <1>6, <1>7, <1>8, <1>9, <1>10, <1>11 DEF IInv

\* The steps of fork() after its slot is taken: a kernel stack, then the address space.
LEMMA ForkStepIInv ==
  ASSUME IInv, NEW c \in CPU, NEW p \in Slot,
         \E ok \in BOOLEAN : AllocKstack(c, p, ok) \/ CopyProc(c, p, ok)
  PROVE  IInv'
  <1>0. initproc \in Slot /\ Null \notin Slot /\ NoCPU \notin CPU
    BY SlotFacts, ProcAssumption
  <1>1. /\ TypeOK /\ OneCpuPerProcess /\ StateInv /\ LockInv /\ FamilyInv /\ ForkInv
        /\ ParentAlive /\ NoLostExit /\ MemoryInv /\ IntenaInv
    BY DEF IInv
  <1>2. /\ cpuproc[c] = p /\ ~panicked /\ pc[p] \in {"fork_kstack", "fork_copy"}
        /\ UNCHANGED <<pid, chan, killed, priority, nextpid, lock, cpuproc, scan, intena, back, ena,
                       panicked>>
    BY DEF AllocKstack, CopyProc, Running, cpuVars
  <1>3. PICK q \in Slot : q = np[p] /\ state[q] = "EMBRYO"
    BY <1>1, <1>2 DEF ForkInv, Place, Forking, TypeOK
  <1>4. Place(p) = pc[p] /\ state[p] = "RUNNING" /\ p # q /\ q # initproc
    BY <1>1, <1>2, <1>3 DEF OneCpuPerProcess, FamilyInv, Live, Place
  <1>5. \A o \in Slot : np[o] = q => o = p
    BY <1>0, <1>1, <1>3 DEF ForkInv
  <1>6. PICK there \in {"fork_copy", "fork_ready", "sysret"} : pc' = [pc EXCEPT ![p] = there]
    BY DEF AllocKstack, CopyProc, Goto
  <1>7. \A o \in Slot : Place(o)' = IF o = p THEN there ELSE Place(o)
    BY <1>1, <1>2, <1>6 DEF Place, TypeOK
  <1>8. /\ \E x \in {"EMBRYO", "UNUSED"} : state' = [state EXCEPT ![q] = x]
        /\ kstack' \in {kstack, [kstack EXCEPT ![q] = TRUE], [kstack EXCEPT ![q] = FALSE]}
        /\ \E x \in {"none", "owned", "freed"} : pgdir' = [pgdir EXCEPT ![q] = x]
        /\ parent' \in {parent, [parent EXCEPT ![q] = p]}
        /\ \E x \in {q, Null} : np' = [np EXCEPT ![p] = x]
    <2>1. \E x \in {"EMBRYO", "UNUSED"} : state' = [state EXCEPT ![q] = x]
      BY <1>1, <1>3 DEF AllocKstack, CopyProc, TypeOK
    <2>2. kstack' \in {kstack, [kstack EXCEPT ![q] = TRUE], [kstack EXCEPT ![q] = FALSE]}
      BY <1>3 DEF AllocKstack, CopyProc, KfreeKstack
    <2>3. \E x \in {"none", "owned", "freed"} : pgdir' = [pgdir EXCEPT ![q] = x]
      BY <1>1, <1>3 DEF AllocKstack, CopyProc, TypeOK
    <2>4. parent' \in {parent, [parent EXCEPT ![q] = p]}
      BY <1>3 DEF AllocKstack, CopyProc
    <2>5. \E x \in {q, Null} : np' = [np EXCEPT ![p] = x]
      BY <1>1, <1>3 DEF AllocKstack, CopyProc, TypeOK
    <2> QED
      BY <2>1, <2>2, <2>3, <2>4, <2>5
  <1>9. \/ /\ there = "fork_copy" /\ state'[q] = "EMBRYO" /\ np'[p] = q
           /\ kstack'[q] /\ pgdir'[q] # "owned"
        \/ /\ there = "fork_ready" /\ state'[q] = "EMBRYO" /\ np'[p] = q
           /\ kstack'[q] /\ pgdir'[q] = "owned" /\ parent'[q] = p
        \/ /\ there = "sysret" /\ state'[q] = "UNUSED" /\ np'[p] = Null
           /\ ~kstack'[q] /\ pgdir'[q] # "owned"
    <2>1. /\ pc[p] = "fork_kstack" => ~kstack[q] /\ pgdir[q] # "owned"
          /\ pc[p] = "fork_copy" => kstack[q] /\ pgdir[q] # "owned"
      BY <1>1, <1>3, <1>4 DEF ForkInv
    <2>2. pc'[p] = there
      BY <1>1, <1>6 DEF TypeOK
    <2> QED
      BY <1>1, <1>3, <2>1, <2>2 DEF AllocKstack, CopyProc, KfreeKstack, Goto, TypeOK
  <1>10. TypeOK'
    <2>1. /\ state' \in [Slot -> ProcState] /\ kstack' \in [Slot -> BOOLEAN]
          /\ pgdir' \in [Slot -> {"none", "owned", "freed"}]
      <3>1. state' \in [Slot -> ProcState]
        BY <1>1, <1>8 DEF TypeOK, ProcState
      <3>2. kstack' \in [Slot -> BOOLEAN]
        BY <1>1, <1>8 DEF TypeOK
      <3>3. pgdir' \in [Slot -> {"none", "owned", "freed"}]
        BY <1>1, <1>8 DEF TypeOK
      <3> QED
        BY <3>1, <3>2, <3>3
    <2>2. parent' \in [Slot -> Slot \cup {Null}] /\ np' \in [Slot -> Slot \cup {Null}]
      <3>1. parent' \in [Slot -> Slot \cup {Null}]
        BY <1>1, <1>8 DEF TypeOK
      <3>2. PICK x \in {q, Null} : np' = [np EXCEPT ![p] = x]
        BY <1>8
      <3>3. np' \in [Slot -> Slot \cup {Null}]
        BY <1>1, <3>2 DEF TypeOK
      <3> QED
        BY <3>1, <3>3
    <2>3. pc' \in [Slot -> PC]
      BY <1>1, <1>6 DEF TypeOK, PC, Preemptible
    <2> QED
      BY <1>1, <1>2, <2>1, <2>2, <2>3 DEF TypeOK
  <1>11. OneCpuPerProcess'
    BY <1>1, <1>2, <1>3, <1>8 DEF OneCpuPerProcess, TypeOK
  <1>12. StateInv' /\ MemoryInv'
    BY <1>1, <1>2, <1>3, <1>4, <1>6, <1>8, <1>9 DEF StateInv, MemoryInv, TypeOK, Live
  <1>13. FamilyInv' /\ NoLostExit'
    BY <1>0, <1>1, <1>2, <1>3, <1>4, <1>8 DEF FamilyInv, NoLostExit, TypeOK, Live, ZombieChildren, Children
  <1>14. ParentAlive'
    BY <1>1, <1>2, <1>3, <1>4, <1>8 DEF ParentAlive, TypeOK, Live, Listed
  <1>15. LockInv' /\ IntenaInv'
    BY <1>0, <1>1, <1>2, <1>6 DEF LockInv, IntenaInv, TypeOK, Locked
  <1>16. ForkInv'
    <2>1. \A o \in Slot :
            /\ np'[o] # Null <=> Place(o)' \in Forking
            /\ np'[o] # Null => state'[np'[o]] = "EMBRYO"
      BY <1>0, <1>1, <1>3, <1>5, <1>7, <1>8, <1>9 DEF ForkInv, TypeOK, Forking
    <2>2. \A o \in Slot :
            /\ Place(o)' = "fork_kstack" => ~kstack'[np'[o]] /\ pgdir'[np'[o]] # "owned"
            /\ Place(o)' = "fork_copy" => kstack'[np'[o]] /\ pgdir'[np'[o]] # "owned"
            /\ Place(o)' = "fork_ready" =>
                 kstack'[np'[o]] /\ pgdir'[np'[o]] = "owned" /\ parent'[np'[o]] = o
      <3> TAKE o \in Slot
      <3>1. CASE o = p
        BY <1>3, <1>7, <1>9, <3>1
      <3>2. CASE o # p
        <4>1. np'[o] = np[o] /\ np[o] # q /\ Place(o)' = Place(o)
          BY <1>1, <1>5, <1>7, <1>8, <3>2 DEF TypeOK
        <4>2. Place(o) \in Forking => np[o] \in Slot
          BY <1>1 DEF ForkInv, TypeOK
        <4>3. Place(o) \in Forking => /\ kstack'[np[o]] = kstack[np[o]] /\ pgdir'[np[o]] = pgdir[np[o]]
                                      /\ parent'[np[o]] = parent[np[o]]
          BY <1>1, <1>8, <4>1, <4>2 DEF TypeOK
        <4> QED
          BY <1>1, <4>1, <4>3 DEF ForkInv, Forking
      <3> QED
        BY <3>1, <3>2
    <2>3. \A o, m \in Slot : np'[o] = np'[m] /\ np'[o] # Null => o = m
      BY <1>1, <1>3, <1>5, <1>8 DEF ForkInv, TypeOK
    <2>4. \A m \in Slot : state'[m] = "EMBRYO" => \E o \in Slot : np'[o] = m
      BY <1>0, <1>1, <1>3, <1>8, <1>9 DEF ForkInv, TypeOK
    <2> QED
      BY <2>1, <2>2, <2>3, <2>4 DEF ForkInv
  <1> QED
    BY <1>2, <1>10, <1>11, <1>12, <1>13, <1>14, <1>15, <1>16 DEF IInv

\* The last step of fork() hands the child over to the scheduler.
LEMMA MakeRunnableIInv ==
  ASSUME IInv, NEW c \in CPU, NEW p \in Slot, MakeRunnable(c, p)
  PROVE  IInv'
  <1>0. initproc \in Slot /\ Null \notin Slot /\ NoCPU \notin CPU
    BY SlotFacts, ProcAssumption
  <1>1. /\ TypeOK /\ OneCpuPerProcess /\ StateInv /\ LockInv /\ FamilyInv /\ ForkInv
        /\ ParentAlive /\ NoLostExit /\ MemoryInv /\ IntenaInv
    BY DEF IInv
  <1>2. /\ cpuproc[c] = p /\ ~panicked /\ pc[p] = "fork_ready" /\ lock = NoCPU
        /\ intena' = [intena EXCEPT ![c] = TRUE]
        /\ UNCHANGED <<lock, cpuproc, scan, pid, parent, chan, killed, priority, kstack, pgdir, nextpid,
                       back, ena, panicked>>
    BY DEF MakeRunnable, Running, Atomically
  <1>3. PICK q \in Slot : q = np[p] /\ state[q] = "EMBRYO"
    BY <1>1, <1>2 DEF ForkInv, Place, Forking, TypeOK
  <1>4. Place(p) = pc[p] /\ state[p] = "RUNNING" /\ p # q /\ q # initproc
    BY <1>1, <1>2, <1>3 DEF OneCpuPerProcess, FamilyInv, Live, Place
  <1>5. /\ \A o \in Slot : np[o] = q => o = p
        /\ kstack[q] /\ pgdir[q] = "owned" /\ parent[q] = p
    BY <1>0, <1>1, <1>2, <1>3, <1>4 DEF ForkInv
  <1>6. /\ state' = [state EXCEPT ![q] = "RUNNABLE"]
        /\ pc' = [pc EXCEPT ![p] = "sysret", ![q] = "forkret"]
        /\ np' = [np EXCEPT ![p] = Null]
    BY <1>3 DEF MakeRunnable
  <1>7. /\ pc'[p] = "sysret" /\ pc'[q] = "forkret" /\ \A o \in Slot \ {p, q} : pc'[o] = pc[o]
        /\ pc[q] = "unborn" /\ pc' \in [Slot -> PC]
    BY <1>1, <1>3, <1>4, <1>6 DEF TypeOK, StateInv, PC, Preemptible
  <1>8. TypeOK'
    BY <1>1, <1>2, <1>6, <1>7 DEF TypeOK, ProcState
  <1>9. OneCpuPerProcess' /\ \A d \in CPU : cpuproc[d] # q
    BY <1>1, <1>2, <1>3, <1>6 DEF OneCpuPerProcess, TypeOK
  <1>10. StateInv' /\ MemoryInv'
    BY <1>1, <1>2, <1>3, <1>4, <1>5, <1>6, <1>7 DEF StateInv, MemoryInv, TypeOK, Live
  <1>11. FamilyInv' /\ NoLostExit'
    BY <1>0, <1>1, <1>2, <1>3, <1>4, <1>6 DEF FamilyInv, NoLostExit, TypeOK, Live, ZombieChildren, Children
  <1>12. ParentAlive'
    BY <1>0, <1>1, <1>2, <1>3, <1>4, <1>5, <1>6 DEF ParentAlive, FamilyInv, TypeOK, Live, Listed
  <1>13. LockInv' /\ IntenaInv'
    BY <1>0, <1>1, <1>2, <1>7, <1>9 DEF LockInv, IntenaInv, TypeOK, Locked
  <1>14. ForkInv'
    <2>1. \A o \in Slot : /\ o = p => Place(o)' = "sysret"
                          /\ o = q => Place(o)' = "forkret" /\ Place(o) = "unborn"
                          /\ o \notin {p, q} => Place(o)' = Place(o)
      BY <1>2, <1>7 DEF Place, Forking
    <2>2. \A o \in Slot : np'[o] = IF o = p THEN Null ELSE np[o]
      BY <1>1, <1>6 DEF TypeOK
    <2>3. \A m \in Slot : state'[m] = IF m = q THEN "RUNNABLE" ELSE state[m]
      BY <1>1, <1>6 DEF TypeOK
    <2>4. \A o \in Slot :
            /\ np'[o] # Null <=> Place(o)' \in Forking
            /\ np'[o] # Null => state'[np'[o]] = "EMBRYO"
      BY <1>1, <1>5, <2>1, <2>2, <2>3 DEF ForkInv, TypeOK, Forking
    <2>5. \A o \in Slot :
            /\ Place(o)' = "fork_kstack" => ~kstack'[np'[o]] /\ pgdir'[np'[o]] # "owned"
            /\ Place(o)' = "fork_copy" => kstack'[np'[o]] /\ pgdir'[np'[o]] # "owned"
            /\ Place(o)' = "fork_ready" =>
                 kstack'[np'[o]] /\ pgdir'[np'[o]] = "owned" /\ parent'[np'[o]] = o
      BY <1>1, <1>2, <2>1, <2>2 DEF ForkInv, Forking
    <2>6. \A o, m \in Slot : np'[o] = np'[m] /\ np'[o] # Null => o = m
      BY <1>1, <2>2 DEF ForkInv
    <2>7. \A m \in Slot : state'[m] = "EMBRYO" => \E o \in Slot : np'[o] = m
      BY <1>1, <1>3, <1>5, <2>2, <2>3 DEF ForkInv
    <2> QED
      BY <2>4, <2>5, <2>6, <2>7 DEF ForkInv
  <1> QED
    BY <1>2, <1>8, <1>9, <1>10, <1>11, <1>12, <1>13, <1>14 DEF IInv

(***************************************************************************)
(* sched(): the process gives up its CPU, which keeps ptable.lock, and     *)
(* goes on to scheduler().  "to" is what has become of it.                 *)
(***************************************************************************)
Switched(p) ==
  /\ cpuproc' \in [CPU -> Slot \cup {Null}] /\ scan' \in [CPU -> 0..(NPROC + 1)]
  /\ intena' \in [CPU -> BOOLEAN] /\ ena' \in [Slot -> BOOLEAN] /\ pc' \in [Slot -> PC]
  /\ lock' \in CPU \cup {NoCPU}
  /\ LockInv' /\ IntenaInv'
  /\ state[p] = "RUNNING"
  /\ \A q \in Slot : (\E d \in CPU : cpuproc'[d] = q) <=> state[q] = "RUNNING" /\ q # p
  /\ \A d, f \in CPU : cpuproc'[d] = cpuproc'[f] /\ cpuproc'[d] # Null => d = f

\* sched() leaves the CPU without a process, with ptable.lock held for scheduler().
LEMMA SwitchFacts ==
  ASSUME IInv, NEW c \in CPU, NEW p \in Slot, cpuproc[c] = p,
         cpuproc' = [cpuproc EXCEPT ![c] = Null], scan' = [scan EXCEPT ![c] = p + 1],
         lock \in {NoCPU, c}, lock' = c,
         NEW there \in PC, pc' = [pc EXCEPT ![p] = there],
         NEW x \in BOOLEAN, intena' = [intena EXCEPT ![c] = x], ena' = [ena EXCEPT ![p] = x],
         there = "wait_sleep" => x
  PROVE  Switched(p)
  <1>0. /\ Null \notin Slot /\ NoCPU \notin CPU /\ p + 1 \in 0..(NPROC + 1) /\ p + 1 # 0
        /\ TypeOK /\ OneCpuPerProcess /\ LockInv /\ IntenaInv
    BY SlotFacts, ProcAssumption DEF IInv
  <1>1. /\ cpuproc' \in [CPU -> Slot \cup {Null}] /\ scan' \in [CPU -> 0..(NPROC + 1)]
        /\ intena' \in [CPU -> BOOLEAN] /\ ena' \in [Slot -> BOOLEAN] /\ pc' \in [Slot -> PC]
        /\ lock' \in CPU \cup {NoCPU}
    BY <1>0 DEF TypeOK
  <1>2. state[p] = "RUNNING" /\ \A d \in CPU : cpuproc[d] = p => d = c
    BY <1>0 DEF OneCpuPerProcess
  <1>3. LockInv'
    BY <1>0, <1>2 DEF LockInv, TypeOK
  <1>4. IntenaInv'
    BY <1>0, <1>2 DEF IntenaInv, TypeOK
  <1>5. \A q \in Slot : (\E d \in CPU : cpuproc'[d] = q) <=> state[q] = "RUNNING" /\ q # p
    BY <1>0, <1>2 DEF OneCpuPerProcess, TypeOK
  <1>6. \A d, f \in CPU : cpuproc'[d] = cpuproc'[f] /\ cpuproc'[d] # Null => d = f
    BY <1>0 DEF OneCpuPerProcess, TypeOK
  <1> QED
    BY <1>1, <1>2, <1>3, <1>4, <1>5, <1>6 DEF Switched

\* yield() puts the process that the clock interrupted back in the table.
LEMMA TimerIInv ==
  ASSUME IInv, NEW c \in CPU, NEW p \in Slot, Timer(c, p)
  PROVE  IInv'
  <1>0. initproc \in Slot /\ Null \notin Slot
    BY SlotFacts
  <1>1. /\ TypeOK /\ OneCpuPerProcess /\ StateInv /\ LockInv /\ FamilyInv /\ ForkInv
        /\ ParentAlive /\ NoLostExit /\ MemoryInv /\ IntenaInv
    BY DEF IInv
  <1>2. /\ cpuproc[c] = p /\ ~panicked /\ pc[p] \in Preemptible
        /\ lock = NoCPU /\ lock' = c /\ intena' = [intena EXCEPT ![c] = FALSE]
        /\ state' = [state EXCEPT ![p] = "RUNNABLE"] /\ back' = [back EXCEPT ![p] = pc[p]]
        /\ pc' = [pc EXCEPT ![p] = "yielded"]
        /\ cpuproc' = [cpuproc EXCEPT ![c] = Null] /\ scan' = [scan EXCEPT ![c] = p + 1]
        /\ ena' = [ena EXCEPT ![p] = FALSE]
        /\ UNCHANGED <<pid, parent, chan, killed, priority, kstack, pgdir, nextpid, np, panicked>>
    <2>1. intena'[c] = FALSE
      BY <1>1 DEF Timer, Acquire, TypeOK
    <2> QED
      BY <2>1 DEF Timer, Running, Acquire, Goto, SwitchToScheduler
  <1>3. Switched(p)
    <2>1. /\ "yielded" \in PC /\ ("yielded" = "wait_sleep" => FALSE)
          /\ FALSE \in BOOLEAN /\ lock \in {NoCPU, c}
      BY <1>2 DEF PC
    <2> QED
      BY <1>2, <2>1, SwitchFacts, Zenon
  <1>4. TypeOK'
    BY <1>1, <1>2, <1>3 DEF Switched, TypeOK, ProcState
  <1>5. OneCpuPerProcess'
    BY <1>1, <1>2, <1>3 DEF Switched, OneCpuPerProcess, TypeOK
  <1>6. StateInv' /\ MemoryInv' /\ FamilyInv'
    BY <1>0, <1>1, <1>2, <1>3 DEF Switched, StateInv, MemoryInv, FamilyInv, TypeOK, Live
  <1>7. ParentAlive' /\ NoLostExit'
    BY <1>1, <1>2, <1>3 DEF Switched, ParentAlive, NoLostExit, TypeOK, Live, Listed, ZombieChildren, Children
  <1>8. ForkInv'
    <2>1. \A o \in Slot : Place(o)' = Place(o)
      BY <1>1, <1>2 DEF Place, TypeOK, Preemptible
    <2>2. \A o \in Slot : state'[o] = "EMBRYO" <=> state[o] = "EMBRYO"
      BY <1>1, <1>2, <1>3 DEF Switched, TypeOK
    <2> QED
      BY <1>0, <1>1, <1>2, <2>1, <2>2 DEF ForkInv, TypeOK
  <1> QED
    BY <1>2, <1>3, <1>4, <1>5, <1>6, <1>7, <1>8 DEF Switched, IInv

\* wait() sleeps with ptable.lock held, so no child can exit in between.
LEMMA WaitSleepIInv ==
  ASSUME IInv, NEW c \in CPU, NEW p \in Slot, WaitSleep(c, p)
  PROVE  IInv'
  <1>0. initproc \in Slot /\ Null \notin Slot
    BY SlotFacts
  <1>1. /\ TypeOK /\ OneCpuPerProcess /\ StateInv /\ LockInv /\ FamilyInv /\ ForkInv
        /\ ParentAlive /\ NoLostExit /\ MemoryInv /\ IntenaInv
    BY DEF IInv
  <1>2. /\ cpuproc[c] = p /\ ~panicked /\ pc[p] = "wait"
        /\ ZombieChildren(p) = {} /\ ~killed[p]
        /\ chan' = [chan EXCEPT ![p] = p] /\ state' = [state EXCEPT ![p] = "SLEEPING"]
        /\ pc' = [pc EXCEPT ![p] = "wait_sleep"]
        /\ cpuproc' = [cpuproc EXCEPT ![c] = Null] /\ scan' = [scan EXCEPT ![c] = p + 1]
        /\ ena' = [ena EXCEPT ![p] = intena[c]]
        /\ UNCHANGED <<lock, intena, pid, parent, killed, priority, kstack, pgdir, nextpid, back, np,
                       panicked>>
    BY DEF WaitSleep, Running, Goto, SwitchToScheduler, NoPointWaiting
  <1>3. Switched(p)
    <2>1. "wait_sleep" \in PC /\ lock \in {NoCPU, c} /\ lock = c /\ intena[c]
      BY <1>0, <1>1, <1>2 DEF PC, LockInv, IntenaInv, Locked
    <2>2. intena' = [intena EXCEPT ![c] = intena[c]] /\ intena[c] \in BOOLEAN
      BY <1>1, <1>2 DEF TypeOK
    <2>3. "wait_sleep" = "wait_sleep" => intena[c]
      BY <2>1
    <2>4. lock' = c
      BY <1>2, <2>1
    <2> QED
      BY <1>2, <2>1, <2>2, <2>3, <2>4, SwitchFacts, Zenon
  <1>4. TypeOK'
    BY <1>1, <1>2, <1>3 DEF Switched, TypeOK, ProcState
  <1>5. OneCpuPerProcess'
    BY <1>1, <1>2, <1>3 DEF Switched, OneCpuPerProcess, TypeOK
  <1>6. StateInv' /\ MemoryInv' /\ FamilyInv'
    BY <1>0, <1>1, <1>2, <1>3 DEF Switched, StateInv, MemoryInv, FamilyInv, TypeOK, Live
  <1>7. ParentAlive' /\ NoLostExit'
    BY <1>1, <1>2, <1>3 DEF Switched, ParentAlive, NoLostExit, TypeOK, Live, Listed, ZombieChildren, Children
  <1>8. ForkInv'
    <2>1. \A o \in Slot : /\ Place(o)' \in Forking <=> Place(o) \in Forking
                          /\ Place(o) \in Forking => Place(o)' = Place(o)
      BY <1>1, <1>2 DEF Place, TypeOK, Forking
    <2>2. \A o \in Slot : state'[o] = "EMBRYO" <=> state[o] = "EMBRYO"
      BY <1>1, <1>2, <1>3 DEF Switched, TypeOK
    <2> QED
      BY <1>0, <1>1, <1>2, <2>1, <2>2 DEF ForkInv, TypeOK, Forking
  <1> QED
    BY <1>2, <1>3, <1>4, <1>5, <1>6, <1>7, <1>8 DEF Switched, IInv

(***************************************************************************)
(* exit(): the children go to init, and whoever waits for p or for one of  *)
(* its zombies is woken before the lock goes to the scheduler.             *)
(***************************************************************************)
LEMMA ExitIInv ==
  ASSUME IInv, NEW c \in CPU, NEW p \in Slot, Exit(c, p)
  PROVE  IInv'
  <1>0. initproc \in Slot /\ Null \notin Slot /\ initproc # Null
    BY SlotFacts
  <1>1. /\ TypeOK /\ OneCpuPerProcess /\ StateInv /\ LockInv /\ FamilyInv /\ ForkInv
        /\ ParentAlive /\ NoLostExit /\ MemoryInv /\ IntenaInv
    BY DEF IInv
  <1>2. /\ cpuproc[c] = p /\ ~panicked /\ pc[p] = "exit" /\ p # initproc
        /\ lock = NoCPU /\ lock' = c /\ intena' = [intena EXCEPT ![c] = TRUE]
        /\ parent' = [q \in Slot |-> IF parent[q] = p THEN initproc ELSE parent[q]]
        /\ pc' = [pc EXCEPT ![p] = "dead"]
        /\ cpuproc' = [cpuproc EXCEPT ![c] = Null] /\ scan' = [scan EXCEPT ![c] = p + 1]
        /\ ena' = [ena EXCEPT ![p] = TRUE]
        /\ UNCHANGED <<pid, chan, killed, priority, kstack, pgdir, nextpid, back, np, panicked>>
    <2>1. intena'[c] = TRUE
      BY <1>1 DEF Exit, Acquire, TypeOK
    <2>2. parent' = [q \in Slot |-> IF parent[q] = p THEN initproc ELSE parent[q]]
      BY DEF Exit, Children
    <2> QED
      BY <2>1, <2>2 DEF Exit, Running, Acquire, Goto, SwitchToScheduler
  <1>3. Switched(p)
    <2>1. /\ "dead" \in PC /\ ("dead" = "wait_sleep" => TRUE)
          /\ TRUE \in BOOLEAN /\ lock \in {NoCPU, c}
      BY <1>2 DEF PC
    <2> QED
      BY <1>2, <2>1, SwitchFacts, Zenon
  <1>4. /\ state' \in [Slot -> ProcState] /\ state'[p] = "ZOMBIE"
        /\ \A q \in Slot \ {p} : \/ state'[q] = state[q]
                                 \/ state[q] = "SLEEPING" /\ state'[q] = "RUNNABLE"
        /\ \A q \in Slot \ {p} : state'[q] = "SLEEPING" =>
             /\ q # parent[p]
             /\ q = initproc => ~ \E z \in Slot : parent[z] = p /\ state[z] = "ZOMBIE"
    <2> DEFINE first == Wakeup1(state, parent[p])
               woke == IF \E q \in Children(p) : state[q] = "ZOMBIE"
                       THEN Wakeup1(first, initproc) ELSE first
    <2>1. state' = [woke EXCEPT ![p] = "ZOMBIE"]
      BY DEF Exit
    <2>2. /\ first \in [Slot -> ProcState]
          /\ \A q \in Slot : first[q] = IF state[q] = "SLEEPING" /\ chan[q] = parent[p]
                                        THEN "RUNNABLE" ELSE state[q]
      BY <1>1 DEF Wakeup1, TypeOK, ProcState
    <2> HIDE DEF first
    <2>3. /\ Wakeup1(first, initproc) \in [Slot -> ProcState]
          /\ \A q \in Slot : Wakeup1(first, initproc)[q] =
                               IF first[q] = "SLEEPING" /\ chan[q] = initproc
                               THEN "RUNNABLE" ELSE first[q]
      BY <2>2 DEF Wakeup1, ProcState
    <2>4. woke \in [Slot -> ProcState]
      BY <2>2, <2>3
    <2>5. \A q \in Slot : \/ woke[q] = state[q]
                          \/ state[q] = "SLEEPING" /\ woke[q] = "RUNNABLE"
      BY <2>2, <2>3
    <2>6. \A q \in Slot : woke[q] = "SLEEPING" => state[q] = "SLEEPING" /\ chan[q] = q
      BY <1>1, <2>5 DEF StateInv
    <2>7. \A q \in Slot : woke[q] = "SLEEPING" => q # parent[p]
      BY <2>2, <2>3, <2>6
    <2>8. woke[initproc] = "SLEEPING" => ~ \E z \in Slot : parent[z] = p /\ state[z] = "ZOMBIE"
      BY <1>0, <2>2, <2>3, <2>6 DEF Children
    <2> HIDE DEF woke
    <2> QED
      BY <2>1, <2>4, <2>5, <2>7, <2>8 DEF ProcState
  <1>5. TypeOK'
    <2>1. parent' \in [Slot -> Slot \cup {Null}]
      BY <1>0, <1>1, <1>2 DEF TypeOK
    <2> QED
      BY <1>1, <1>2, <1>3, <1>4, <2>1 DEF Switched, TypeOK
  <1>6. OneCpuPerProcess'
    BY <1>1, <1>2, <1>3, <1>4 DEF Switched, OneCpuPerProcess, TypeOK
  <1>7. StateInv'
    BY <1>1, <1>2, <1>3, <1>4 DEF Switched, StateInv, TypeOK
  <1>8. MemoryInv'
    BY <1>1, <1>2, <1>3, <1>4 DEF Switched, MemoryInv, TypeOK, Live
  <1>9. FamilyInv'
    BY <1>0, <1>1, <1>2, <1>4 DEF FamilyInv, TypeOK, Live
  <1>10. ParentAlive'
    <2>1. ASSUME NEW q \in Slot \ {initproc}, state'[q] \in Live \cup {"ZOMBIE"}
          PROVE  parent'[q] # Null /\ state'[parent'[q]] \in Live
      <3>1. state[q] \in Live \cup {"ZOMBIE"}
        BY <1>3, <1>4, <2>1 DEF Switched, Live
      <3>2. parent[q] \in Slot /\ state[parent[q]] \in Live
        BY <1>1, <3>1 DEF ParentAlive, TypeOK
      <3>3. CASE parent[q] = p
        BY <1>0, <1>2, <1>9, <3>3 DEF FamilyInv
      <3>4. CASE parent[q] # p
        <4>1. parent'[q] = parent[q]
          BY <1>2, <3>4
        <4> QED
          BY <1>0, <1>4, <3>2, <3>4, <4>1 DEF Live
      <3> QED
        BY <3>3, <3>4
    <2>2. \A q \in Slot : state'[q] \in Live /\ pid'[q] > 1 => q # initproc
      BY <1>9, ProcAssumption DEF FamilyInv
    <2> QED
      BY <2>1, <2>2 DEF ParentAlive, Listed
  <1>11. NoLostExit'
    <2> SUFFICES ASSUME NEW q \in Slot, state'[q] = "SLEEPING"
                 PROVE  /\ \A z \in Slot : parent'[z] = q => state'[z] # "ZOMBIE"
                        /\ ~killed'[q]
      BY DEF NoLostExit, ZombieChildren, Children
    <2>1. q # p /\ state[q] = "SLEEPING" /\ q # parent[p]
      BY <1>4
    <2>2. (\A z \in Slot : parent[z] = q => state[z] # "ZOMBIE") /\ ~killed[q]
      BY <1>1, <2>1 DEF NoLostExit, ZombieChildren, Children
    <2>3. ASSUME NEW z \in Slot, parent'[z] = q PROVE state'[z] # "ZOMBIE"
      <3>1. CASE parent[z] = p
        <4>1. q = initproc /\ z # p /\ state[z] # "ZOMBIE"
          BY <1>1, <1>2, <1>4, <2>1, <2>3, <3>1 DEF FamilyInv
        <4> QED
          BY <1>4, <4>1
      <3>2. CASE parent[z] # p
        <4>1. parent[z] = q /\ z # p
          BY <1>2, <2>1, <2>3, <3>2
        <4> QED
          BY <1>4, <2>2, <4>1
      <3> QED
        BY <3>1, <3>2
    <2> QED
      BY <1>2, <2>2, <2>3
  <1>12. ForkInv'
    <2>1. \A o \in Slot : /\ Place(o)' \in Forking <=> Place(o) \in Forking
                          /\ Place(o) \in Forking => Place(o)' = Place(o) /\ o # p
      BY <1>1, <1>2 DEF Place, TypeOK, Forking
    <2>2. \A o \in Slot : state'[o] = "EMBRYO" <=> state[o] = "EMBRYO"
      BY <1>3, <1>4 DEF Switched
    <2>3. \A o \in Slot : Place(o) = "fork_ready" => parent'[np[o]] = parent[np[o]]
      BY <1>0, <1>1, <1>2, <2>1 DEF ForkInv, Forking, TypeOK
    <2>4. \A o \in Slot : np[o] # Null => np[o] \in Slot
      BY <1>1 DEF TypeOK
    <2> QED
      BY <1>0, <1>1, <1>2, <2>1, <2>2, <2>3, <2>4 DEF ForkInv, Forking
  <1> QED
    BY <1>2, <1>3, <1>5, <1>6, <1>7, <1>8, <1>9, <1>10, <1>11, <1>12 DEF IInv, Switched

(***************************************************************************)
(* wait(): the zombie that is reaped leaves nothing behind.                *)
(***************************************************************************)
LEMMA WaitReapIInv ==
  ASSUME IInv, NEW c \in CPU, NEW p \in Slot, WaitReap(c, p)
  PROVE  IInv'
  <1>0. initproc \in Slot /\ Null \notin Slot /\ NoCPU \notin CPU
    BY SlotFacts, ProcAssumption
  <1>1. /\ TypeOK /\ OneCpuPerProcess /\ StateInv /\ LockInv /\ FamilyInv /\ ForkInv
        /\ ParentAlive /\ NoLostExit /\ MemoryInv /\ IntenaInv
    BY DEF IInv
  <1>2. /\ cpuproc[c] = p /\ ~panicked /\ pc[p] = "wait" /\ lock' = NoCPU
        /\ UNCHANGED <<chan, priority, nextpid, cpuproc, scan, intena, back, np, ena, panicked>>
    BY DEF WaitReap, Running
  <1>3. PICK q \in Slot :
          /\ state[q] = "ZOMBIE" /\ parent[q] = p
          /\ state' = [state EXCEPT ![q] = "UNUSED"]
          /\ pid' = [pid EXCEPT ![q] = 0]
          /\ parent' = [parent EXCEPT ![q] = Null]
          /\ killed' = [killed EXCEPT ![q] = FALSE]
          /\ kstack' = [kstack EXCEPT ![q] = FALSE]
          /\ pgdir' = [pgdir EXCEPT ![q] = "freed"]
          /\ pc' = [pc EXCEPT ![p] = "sysret", ![q] = "unborn"]
    <2>1. ZombieChildren(p) \in SUBSET Slot
      BY DEF ZombieChildren, Children
    <2>2. Least(ZombieChildren(p)) \in ZombieChildren(p)
      BY <2>1, LeastFacts DEF WaitReap
    <2> QED
      BY <2>2 DEF WaitReap, ZombieChildren, Children
  <1>4. /\ state[p] = "RUNNING" /\ p # q /\ q # initproc /\ lock = c
        /\ \A d \in CPU : (cpuproc[d] = p => d = c) /\ cpuproc[d] # q
    BY <1>0, <1>1, <1>2, <1>3 DEF OneCpuPerProcess, FamilyInv, Live, LockInv, Locked
  <1>5. /\ pc'[p] = "sysret" /\ pc'[q] = "unborn" /\ \A o \in Slot \ {p, q} : pc'[o] = pc[o]
        /\ pc[q] = "dead" /\ pc' \in [Slot -> PC]
    BY <1>1, <1>3, <1>4 DEF TypeOK, StateInv, PC, Preemptible
  <1>6. TypeOK'
    BY <1>1, <1>2, <1>3, <1>5 DEF TypeOK, ProcState
  <1>7. OneCpuPerProcess'
    BY <1>1, <1>2, <1>3 DEF OneCpuPerProcess, TypeOK
  <1>8. StateInv' /\ MemoryInv'
    BY <1>1, <1>2, <1>3, <1>4, <1>5 DEF StateInv, MemoryInv, TypeOK, Live
  <1>9. FamilyInv' /\ NoLostExit'
    BY <1>0, <1>1, <1>2, <1>3, <1>4 DEF FamilyInv, NoLostExit, TypeOK, Live, ZombieChildren, Children
  <1>10. ParentAlive'
    BY <1>0, <1>1, <1>2, <1>3, <1>4 DEF ParentAlive, FamilyInv, TypeOK, Live, Listed
  <1>11. LockInv' /\ IntenaInv'
    BY <1>0, <1>1, <1>2, <1>4, <1>5 DEF LockInv, IntenaInv, TypeOK, Locked
  <1>12. ForkInv'
    <2>1. \A o \in Slot : /\ Place(o)' \in Forking <=> Place(o) \in Forking
                          /\ Place(o) \in Forking => Place(o)' = Place(o)
      BY <1>2, <1>5 DEF Place, Forking
    <2>2. \A o \in Slot : np[o] # Null => np[o] \in Slot /\ np[o] # q
      BY <1>1, <1>3 DEF ForkInv, TypeOK
    <2>3. \A o \in Slot \ {q} : /\ state'[o] = state[o] /\ kstack'[o] = kstack[o]
                                /\ pgdir'[o] = pgdir[o] /\ parent'[o] = parent[o]
      BY <1>1, <1>3 DEF TypeOK
    <2>4. state'[q] = "UNUSED"
      BY <1>1, <1>3 DEF TypeOK
    <2> QED
      BY <1>0, <1>1, <1>2, <2>1, <2>2, <2>3, <2>4 DEF ForkInv, Forking
  <1> QED
    BY <1>2, <1>6, <1>7, <1>8, <1>9, <1>10, <1>11, <1>12 DEF IInv

\* kill() marks a process and makes it runnable if it sleeps.
LEMMA KillIInv ==
  ASSUME IInv, NEW c \in CPU, NEW p \in Slot, NEW n \in Pids, Kill(c, p, n), SlotsOf(n) # {}
  PROVE  IInv'
  <1>0. initproc \in Slot /\ Null \notin Slot /\ NoCPU \notin CPU
    BY SlotFacts, ProcAssumption
  <1>1. /\ TypeOK /\ OneCpuPerProcess /\ StateInv /\ LockInv /\ FamilyInv /\ ForkInv
        /\ ParentAlive /\ NoLostExit /\ MemoryInv /\ IntenaInv
    BY DEF IInv
  <1>2. /\ cpuproc[c] = p /\ ~panicked /\ pc[p] = "user" /\ lock = NoCPU
        /\ pc' = [pc EXCEPT ![p] = "sysret"]
        /\ intena' = [intena EXCEPT ![c] = TRUE]
        /\ UNCHANGED <<lock, cpuproc, scan, pid, parent, chan, priority, kstack, pgdir, nextpid,
                       back, np, ena, panicked>>
    BY DEF Kill, Syscall, Running, Atomically, Goto
  <1>3. PICK q \in Slot :
          /\ killed' = [killed EXCEPT ![q] = TRUE]
          /\ state' = [state EXCEPT ![q] = IF state[q] = "SLEEPING" THEN "RUNNABLE" ELSE state[q]]
    <2>1. SlotsOf(n) \in SUBSET Slot
      BY DEF SlotsOf
    <2>2. Least(SlotsOf(n)) \in Slot
      BY <2>1, LeastFacts
    <2> QED
      BY <2>2 DEF Kill
  <1>4. state[p] = "RUNNING"
    BY <1>1, <1>2 DEF OneCpuPerProcess
  <1>5. /\ \A o \in Slot : \/ state'[o] = state[o]
                           \/ o = q /\ state[o] = "SLEEPING" /\ state'[o] = "RUNNABLE"
        /\ state'[q] # "SLEEPING" /\ state' \in [Slot -> ProcState]
    BY <1>1, <1>3 DEF TypeOK, ProcState
  <1>6. TypeOK'
    BY <1>1, <1>2, <1>3, <1>5 DEF TypeOK, PC, Preemptible
  <1>7. OneCpuPerProcess' /\ StateInv' /\ MemoryInv'
    BY <1>1, <1>2, <1>4, <1>5 DEF OneCpuPerProcess, StateInv, MemoryInv, TypeOK, Live
  <1>8. FamilyInv' /\ ParentAlive'
    BY <1>0, <1>1, <1>2, <1>5 DEF FamilyInv, ParentAlive, TypeOK, Live, Listed
  <1>9. NoLostExit'
    BY <1>1, <1>2, <1>3, <1>5 DEF NoLostExit, TypeOK, ZombieChildren, Children
  <1>10. LockInv' /\ IntenaInv'
    BY <1>0, <1>1, <1>2 DEF LockInv, IntenaInv, TypeOK, Locked
  <1>11. ForkInv'
    <2>1. \A o \in Slot : /\ Place(o)' \in Forking <=> Place(o) \in Forking
                          /\ Place(o) \in Forking => Place(o)' = Place(o)
      BY <1>1, <1>2 DEF Place, Forking, TypeOK
    <2>2. \A o \in Slot : state'[o] = "EMBRYO" <=> state[o] = "EMBRYO"
      BY <1>5
    <2>3. \A o \in Slot : np[o] # Null => np[o] \in Slot
      BY <1>1 DEF TypeOK
    <2> QED
      BY <1>0, <1>1, <1>2, <2>1, <2>2, <2>3 DEF ForkInv, Forking
  <1> QED
    BY <1>2, <1>6, <1>7, <1>8, <1>9, <1>10, <1>11 DEF IInv

\* Nothing moves, but for the panic of an init that exits.
LEMMA StillIInv ==
  ASSUME IInv, UNCHANGED <<procVars, cpuVars, threadVars>>,
         panicked' = panicked \/ (pc[initproc] = "exit" /\ panicked' = TRUE)
  PROVE  IInv'
  <1>1. TypeOK'
    BY DEF IInv, TypeOK, procVars, cpuVars, threadVars
  <1>2. OneCpuPerProcess' /\ StateInv' /\ LockInv' /\ FamilyInv' /\ MemoryInv' /\ IntenaInv'
    BY DEF IInv, procVars, cpuVars, threadVars, OneCpuPerProcess, StateInv, LockInv, FamilyInv,
           MemoryInv, IntenaInv
  <1>3. ForkInv' /\ ParentAlive' /\ NoLostExit'
    BY DEF IInv, procVars, cpuVars, threadVars, ForkInv, Place, ParentAlive, NoLostExit, Listed,
           ZombieChildren, Children
  <1> QED
    BY <1>1, <1>2, <1>3 DEF IInv, threadVars

\* Every step of every CPU keeps the invariant.
LEMMA NextIInv == IInv /\ [Next]_vars => IInv'
  <1> SUFFICES ASSUME IInv, [Next]_vars PROVE IInv'
    OBVIOUS
  <1>1. CASE UNCHANGED vars
    BY <1>1, StillIInv DEF vars
  <1>2. CASE Halted
    BY <1>1, <1>2 DEF Halted
  <1>3. ASSUME NEW c \in CPU, Scheduler(c) PROVE IInv'
    BY <1>3, SchedulerIInv
  <1>4. ASSUME NEW c \in CPU, ExitInit(c) PROVE IInv'
    BY <1>4, StillIInv DEF ExitInit
  <1>5. ASSUME NEW c \in CPU, NEW p \in Slot, KernelStep(c, p) PROVE IInv'
    BY <1>5, TrapIInv, CallIInv, ForkStepIInv, MakeRunnableIInv, ExitIInv, WaitReapIInv, WaitSleepIInv
       DEF KernelStep
  <1>6. ASSUME NEW c \in CPU, NEW p \in Slot, UserStep(c, p) PROVE IInv'
    <2>1. CASE Allocproc(c, p)
      BY <2>1, CallIInv, AllocprocIInv
    <2>2. CASE SysExit(c, p) \/ Fault(c, p)
      BY <2>2, TrapIInv
    <2>3. CASE \/ SysWait(c, p) \/ Exec(c, p)
               \/ \E n \in Pids, pr \in Priorities : Chpr(c, p, n, pr)
      BY <2>3, CallIInv
    <2>4. CASE \E n \in Pids : Kill(c, p, n)
      BY <2>4, CallIInv, KillIInv
    <2> QED
      BY <1>6, <2>1, <2>2, <2>3, <2>4 DEF UserStep
  <1>7. ASSUME NEW c \in CPU, NEW p \in Slot, Timer(c, p) \/ YieldReturns(c, p) PROVE IInv'
    BY <1>7, TimerIInv, TrapIInv
  <1> QED
    BY <1>1, <1>2, <1>3, <1>4, <1>5, <1>6, <1>7 DEF Next

(***************************************************************************)
(* The inductive invariant holds in every reachable state.                 *)
(***************************************************************************)
THEOREM ProcInvariant == Spec => []IInv
  BY InitIInv, NextIInv, PTL DEF Spec

(***************************************************************************)
(* On any number of CPUs, a process is RUNNING exactly when one CPU runs   *)
(* it, and no two run it on its one kernel stack (sched, scheduler).       *)
(***************************************************************************)
THEOREM OneCpuPerProcessThm == Spec => []OneCpuPerProcess
  <1>1. IInv => OneCpuPerProcess
    BY DEF IInv
  <1> QED
    BY <1>1, ProcInvariant, PTL

(***************************************************************************)
(* Whoever can run or waits to be reaped has a parent that is alive: exit()*)
(* hands its children to init, which never ends.                           *)
(***************************************************************************)
THEOREM ParentAliveThm == Spec => []ParentAlive
  <1>1. IInv => ParentAlive
    BY DEF IInv
  <1> QED
    BY <1>1, ProcInvariant, PTL

(***************************************************************************)
(* Nobody sleeps in wait() with a zombie child or a kill that is pending:  *)
(* no wakeup of exit() or kill() is lost.                                  *)
(***************************************************************************)
THEOREM NoLostExitThm == Spec => []NoLostExit
  <1>1. IInv => NoLostExit
    BY DEF IInv
  <1> QED
    BY <1>1, ProcInvariant, PTL

(***************************************************************************)
(* Kernel stacks and page tables follow the life of a process, an EMBRYO   *)
(* belongs to one fork(), and the only panic is the exit of init           *)
(* (allocproc, fork, wait, switchuvm).                                     *)
(***************************************************************************)
THEOREM ResourcesOwnedThm == Spec => []ResourcesOwned
  <1>1. IInv => ResourcesOwned
    <2> SUFFICES ASSUME IInv PROVE ResourcesOwned
      OBVIOUS
    <2>1. Null \notin Slot /\ ForkInv /\ StateInv /\ MemoryInv /\ TypeOK
      BY SlotFacts DEF IInv
    <2>2. \A p \in Slot : np[p] # Null => state[p] # "UNUSED"
      BY <2>1 DEF ForkInv, Place, Forking, StateInv
    <2>3. EmbryoOwned
      BY <2>1, <2>2 DEF EmbryoOwned, ForkOwns, ForkInv
    <2> QED
      BY <2>1, <2>3 DEF ResourcesOwned, MemoryInv, IInv
  <1> QED
    BY <1>1, ProcInvariant, PTL

(***************************************************************************)
(* A process that slept in wait() goes on with interrupts enabled, as its  *)
(* own intena says and not the CPU's (sched).                              *)
(***************************************************************************)
THEOREM IntenaFollowsThreadThm == Spec => []IntenaFollowsThread
  <1>1. IInv => IntenaFollowsThread
    BY SlotFacts DEF IInv, IntenaFollowsThread, IntenaInv, LockInv, Locked
  <1> QED
    BY <1>1, ProcInvariant, PTL

(***************************************************************************)
(* Every switch of scheduler() is to a process that no RUNNABLE one beats  *)
(* ("choose one with highest priority").                                   *)
(***************************************************************************)
THEOREM HighestPriorityRunsThm == Spec => HighestPriorityRuns
  <1>1. ASSUME IInv, [Next]_vars, NEW c \in CPU, cpuproc[c] = Null, cpuproc'[c] # Null,
               NEW q \in Runnable
        PROVE  priority[cpuproc'[c]] <= priority[q]
    <2>0. cpuproc \in [CPU -> Slot \cup {Null}] /\ priority \in [Slot -> Nat] /\ Null \notin Slot
      BY <1>1, SlotFacts DEF IInv, TypeOK
    <2>1. ASSUME NEW d \in CPU, NEW p \in Slot,
                 KernelStep(d, p) \/ UserStep(d, p) \/ Timer(d, p) \/ YieldReturns(d, p)
          PROVE  cpuproc' = cpuproc \/ cpuproc' = [cpuproc EXCEPT ![d] = Null]
      BY <2>1 DEF KernelStep, UserStep, Timer, YieldReturns, Forkret, TrapKilled, Sysret, AllocKstack,
           CopyProc, MakeRunnable, Exit, WaitReap, WaitFails, WaitSleep, WaitWakes, Allocproc, SysExit,
           SysWait, Exec, Fault, Kill, Chpr, SwitchToScheduler, Atomically, cpuVars
    <2>2. ASSUME NEW d \in CPU,
                 SchedulerAcquire(d) \/ SchedulerRelease(d) \/ ExitInit(d) \/ Halted \/ UNCHANGED vars
          PROVE  cpuproc' = cpuproc
      BY <2>2 DEF SchedulerAcquire, SchedulerRelease, ExitInit, Halted, vars, cpuVars
    <2>3. ASSUME NEW d \in CPU, SchedulerSwitch(d)
          PROVE  priority[cpuproc'[c]] <= priority[q]
      <3>1. RunnableFrom(scan[d]) \in SUBSET Slot /\ RunnableFrom(scan[d]) \subseteq Runnable
        BY DEF RunnableFrom, Runnable
      <3>2. Least(RunnableFrom(scan[d])) \in Runnable
        BY <2>3, <3>1, LeastFacts DEF SchedulerSwitch
      <3>3. cpuproc' = [cpuproc EXCEPT ![d] = HighP(Least(RunnableFrom(scan[d])))]
        BY <2>3 DEF SchedulerSwitch
      <3>4. c = d /\ cpuproc'[c] = HighP(Least(RunnableFrom(scan[d])))
        BY <1>1, <2>0, <3>3
      <3> QED
        BY <1>1, <2>0, <3>2, <3>4, HighPFacts
    <2> QED
      BY <1>1, <2>0, <2>1, <2>2, <2>3 DEF Next, Scheduler
  <1>2. IInv /\ [Next]_vars =>
          [\A c \in CPU : cpuproc[c] = Null /\ cpuproc'[c] # Null =>
             \A q \in Runnable : priority[cpuproc'[c]] <= priority[q]]_vars
    BY <1>1
  <1> QED
    BY <1>2, ProcInvariant, PTL DEF Spec, HighestPriorityRuns
=============================================================================
